----------------------------- MODULE BodyProofs -----------------------------
(***************************************************************************)
(* Proofs about the body: its threads, for any number of slots and         *)
(* threads, then its disk, for any table and platter, then its memory, for *)
(* any frames, pages and enclosures.  The threads' invariants are stated   *)
(* of a table T, so that what a wait's end, a resumption and a dispatch    *)
(* keep is proved once, of the table a system call or the timer has made,  *)
(* and used for each action.                                               *)
(***************************************************************************)
EXTENDS Threads, FiniteSetTheorems, SequenceTheorems, WellFoundedInduction, TLAPS

Alive(t) == t.state \notin {"FREE", "ZOMBIE"}

(* A thread's state says where it stands in the kernel, and only a futex   *)
(* entry keeps a frame.                                                    *)
Placed(t) ==
  /\ t.state = "BLOCKED" => t.kctx = "futex" /\ t.wait # None
  /\ t.state = "RUNNING" => t.kctx = "ring3"
  /\ t.state = "RUNNABLE" => t.kctx \in {"new", "timer", "futex"}
  /\ t.state \in {"FREE", "ZOMBIE"} => t.kctx = "exit"
  /\ t.frame # None => t.kctx = "futex"

TableOK(T) == T \in [Slots -> Thread] /\ \A s \in Slots : Placed(T[s])

NobodyRuns(T) == \A s \in Slots : T[s].state # "RUNNING"

(* WakesAreAnswered, of a table. *)
Answered(T, C) ==
  \A s \in Slots :
    /\ s \in C => T[s].state = "RUNNABLE" /\ T[s].kctx = "futex"
    /\ T[s].state = "RUNNABLE" /\ T[s].kctx = "futex" => (s \in C <=> T[s].result = "woken")

(* A word is non-zero exactly while one live thread owns it, it holds that *)
(* thread's id, and at most one thread waits for it.                       *)
IdsGiven(T, n) == \A s \in Slots : Alive(T[s]) => 0 < T[s].tid /\ T[s].tid < n

OwnersNamed(T, W) ==
  \A s \in Slots : Alive(T[s]) /\ T[s].ctid # None => W[T[s].ctid] = T[s].tid

OneOwner(T) ==
  \A s, u \in Slots :
    Alive(T[s]) /\ Alive(T[u]) /\ T[s].ctid # None /\ T[s].ctid = T[u].ctid => s = u

HeldAreOwned(T, W) ==
  \A c \in TidWords : W[c] # 0 => \E u \in Slots : Alive(T[u]) /\ T[u].ctid = c

WaitsOnHeld(T, W) ==
  \A s \in Slots : T[s].state = "BLOCKED" /\ T[s].wait \in TidWords =>
    W[T[s].wait] # 0 /\ T[s].ctid # T[s].wait

OneJoiner(T) ==
  \A s, u \in Slots :
    T[s].state = "BLOCKED" /\ T[u].state = "BLOCKED" /\ T[s].wait \in TidWords
      /\ T[s].wait = T[u].wait => s = u

JoinsOK(T, W, n) ==
  /\ W \in [TidWords -> Nat] /\ n \in Nat
  /\ IdsGiven(T, n) /\ OwnersNamed(T, W) /\ OneOwner(T) /\ HeldAreOwned(T, W)
  /\ WaitsOnHeld(T, W) /\ OneJoiner(T)

(* T2 has the threads of T, waiting at most where they waited. *)
SameThreads(T, T2) ==
  \A s \in Slots :
    /\ Alive(T2[s]) <=> Alive(T[s])
    /\ T2[s].tid = T[s].tid /\ T2[s].ctid = T[s].ctid
    /\ T2[s].state = "BLOCKED" => T[s].state = "BLOCKED" /\ T2[s].wait = T[s].wait

LEMMA SameThreadsKeepJoins ==
  ASSUME NEW T, NEW T2, NEW W, NEW n, JoinsOK(T, W, n), SameThreads(T, T2)
  PROVE  JoinsOK(T2, W, n)
<1>1. IdsGiven(T2, n)
  BY DEF JoinsOK, IdsGiven, SameThreads
<1>2. OwnersNamed(T2, W)
  BY DEF JoinsOK, OwnersNamed, SameThreads
<1>3. OneOwner(T2)
  BY DEF JoinsOK, OneOwner, SameThreads
<1>4. HeldAreOwned(T2, W)
  BY DEF JoinsOK, HeldAreOwned, SameThreads
<1>5. WaitsOnHeld(T2, W)
  BY DEF JoinsOK, WaitsOnHeld, SameThreads
<1>6. OneJoiner(T2)
  BY DEF JoinsOK, OneJoiner, SameThreads
<1> QED
  BY <1>1, <1>2, <1>3, <1>4, <1>5, <1>6 DEF JoinsOK

LEMMA LeastExists ==
  ASSUME NEW S, S \subseteq Nat, S # {}
  PROVE  \E n \in S : \A m \in S : n <= m
<1>1. PICK n \in S : \A m \in S : ~(<<m, n>> \in OpToRel(<, Nat))
  BY WFMin, NatLessThanWellFounded
<1>2. \A m \in S : ~(m < n)
  BY <1>1 DEF OpToRel
<1> QED
  BY <1>2

LEMMA PickNextIsRunnable ==
  ASSUME NEW T, NEW c \in Slots, Runnable(T) # {}
  PROVE  PickNext(T, c) \in Runnable(T)
<1> DEFINE turns == {Turn(c, s) : s \in Runnable(T)}
<1>1. turns \subseteq Nat /\ turns # {}
  BY SlotsAssumption DEF Runnable, Turn, Slots
<1>2. \E n \in turns : \A m \in turns : n <= m
  BY <1>1, LeastExists
<1>3. \E s \in Runnable(T) : \A r \in Runnable(T) : Turn(c, s) <= Turn(c, r)
  BY <1>2
<1> QED
  BY <1>3 DEF PickNext

LEMMA VacantHasLeast ==
  ASSUME Vacant # {}
  PROVE  (CHOOSE v \in Vacant : \A r \in Vacant : v <= r) \in Vacant
<1>1. Vacant \subseteq Nat
  BY SlotsAssumption DEF Vacant, Slots
<1>2. \E v \in Vacant : \A r \in Vacant : v <= r
  BY <1>1, LeastExists
<1> QED
  BY <1>2

-----------------------------------------------------------------------------
(* What keeps the table well formed *)

LEMMA EndWaitsKeepsTable ==
  ASSUME NEW T, NEW X, NEW r \in {"woken", "ETIMEDOUT"}, TableOK(T),
         X \subseteq {s \in Slots : T[s].state = "BLOCKED"}
  PROVE  /\ TableOK(EndWaits(T, X, r))
         /\ NobodyRuns(T) => NobodyRuns(EndWaits(T, X, r))
         /\ \A s \in Slots \ X : EndWaits(T, X, r)[s] = T[s]
         /\ \A s \in X : /\ EndWaits(T, X, r)[s].state = "RUNNABLE"
                         /\ EndWaits(T, X, r)[s].kctx = T[s].kctx
                         /\ EndWaits(T, X, r)[s].result = r
                         /\ EndWaits(T, X, r)[s].tid = T[s].tid
                         /\ EndWaits(T, X, r)[s].ctid = T[s].ctid
                         /\ EndWaits(T, X, r)[s].frame = T[s].frame
                         /\ EndWaits(T, X, r)[s].due = T[s].due
<1> DEFINE E == EndWaits(T, X, r)
<1>1. \A s \in Slots \ X : E[s] = T[s]
  BY DEF EndWaits
<1>2. \A s \in X : E[s] = [T[s] EXCEPT !.state = "RUNNABLE", !.result = r,
                                      !.wait = None, !.deadline = None]
  BY DEF EndWaits
<1>3. \A s \in X : /\ E[s] \in Thread /\ E[s].state = "RUNNABLE" /\ E[s].kctx = T[s].kctx
                   /\ E[s].result = r /\ E[s].tid = T[s].tid /\ E[s].ctid = T[s].ctid
                   /\ E[s].frame = T[s].frame /\ E[s].due = T[s].due
  <2> SUFFICES ASSUME NEW s \in X
               PROVE  /\ E[s] \in Thread /\ E[s].state = "RUNNABLE" /\ E[s].kctx = T[s].kctx
                      /\ E[s].result = r /\ E[s].tid = T[s].tid /\ E[s].ctid = T[s].ctid
                      /\ E[s].frame = T[s].frame /\ E[s].due = T[s].due
    OBVIOUS
  <2>1. T[s] \in Thread
    BY DEF TableOK
  <2>2. E[s] = [T[s] EXCEPT !.state = "RUNNABLE", !.result = r,
                           !.wait = None, !.deadline = None]
    BY <1>2
  <2> HIDE DEF E
  <2>3. E[s] \in Thread
    BY <2>1, <2>2 DEF Thread
  <2>4. /\ E[s].state = "RUNNABLE" /\ E[s].kctx = T[s].kctx
        /\ E[s].result = r /\ E[s].tid = T[s].tid /\ E[s].ctid = T[s].ctid
        /\ E[s].frame = T[s].frame /\ E[s].due = T[s].due
    BY <2>1, <2>2 DEF Thread
  <2> QED
    BY <2>3, <2>4
<1>4. E \in [Slots -> Thread]
  BY <1>1, <1>3 DEF TableOK, EndWaits
<1>5. \A s \in Slots : Placed(E[s])
  BY <1>1, <1>3 DEF TableOK, Placed
<1>6. NobodyRuns(T) => NobodyRuns(E)
  BY <1>1, <1>3 DEF NobodyRuns
<1> QED
  BY <1>1, <1>3, <1>4, <1>5, <1>6 DEF TableOK

LEMMA PutIn ==
  ASSUME NEW T, NEW n \in Slots, NEW t \in Thread, Placed(t), TableOK(T)
  PROVE  /\ TableOK(Put(T, n, t))
         /\ Put(T, n, t)[n] = t
         /\ \A s \in Slots \ {n} : Put(T, n, t)[s] = T[s]
BY DEF Put, TableOK

LEMMA WokenAreBlocked ==
  ASSUME NEW T, NEW w, NEW nr, NEW time
  PROVE  /\ FirstWaiters(T, w, nr) \subseteq {s \in Slots : T[s].state = "BLOCKED"}
         /\ PastDeadline(T, time) \subseteq {s \in Slots : T[s].state = "BLOCKED"}
BY DEF FirstWaiters, Waiters, PastDeadline

LEMMA EndWaitsKeepsJoins ==
  ASSUME NEW T, NEW X, NEW r \in {"woken", "ETIMEDOUT"}, NEW W, NEW n, TableOK(T),
         X \subseteq {s \in Slots : T[s].state = "BLOCKED"}, JoinsOK(T, W, n)
  PROVE  JoinsOK(EndWaits(T, X, r), W, n)
<1> DEFINE E == EndWaits(T, X, r)
<1>1. \A s \in Slots \ X : E[s] = T[s]
  BY EndWaitsKeepsTable
<1>2. \A s \in X : /\ E[s].state = "RUNNABLE" /\ T[s].state = "BLOCKED"
                   /\ E[s].tid = T[s].tid /\ E[s].ctid = T[s].ctid
  BY EndWaitsKeepsTable
<1> HIDE DEF E
<1>3. SameThreads(T, E)
  BY <1>1, <1>2 DEF Alive, SameThreads
<1>4. JoinsOK(E, W, n)
  BY <1>3, SameThreadsKeepJoins
<1> QED
  BY <1>4 DEF E

LEMMA WakeKeepsAnswered ==
  ASSUME NEW T, NEW X, NEW C, TableOK(T), Answered(T, C),
         X \subseteq {s \in Slots : T[s].state = "BLOCKED"}
  PROVE  Answered(EndWaits(T, X, "woken"), C \cup X)
<1> DEFINE E == EndWaits(T, X, "woken")
<1>1. \A s \in Slots \ X : E[s] = T[s]
  BY EndWaitsKeepsTable
<1>2. \A s \in X : E[s].state = "RUNNABLE" /\ E[s].kctx = T[s].kctx /\ E[s].result = "woken"
  BY EndWaitsKeepsTable
<1>3. \A s \in X : T[s].kctx = "futex"
  BY DEF TableOK, Placed
<1> HIDE DEF E
<1>4. Answered(E, C \cup X)
  BY <1>1, <1>2, <1>3 DEF Answered
<1> QED
  BY <1>4 DEF E

LEMMA ExpireKeepsAnswered ==
  ASSUME NEW T, NEW X, NEW C, TableOK(T), Answered(T, C),
         X \subseteq {s \in Slots : T[s].state = "BLOCKED"}
  PROVE  Answered(EndWaits(T, X, "ETIMEDOUT"), C)
<1> DEFINE E == EndWaits(T, X, "ETIMEDOUT")
<1>1. \A s \in Slots \ X : E[s] = T[s]
  BY EndWaitsKeepsTable
<1>2. \A s \in X : E[s].state = "RUNNABLE" /\ E[s].kctx = T[s].kctx /\ E[s].result = "ETIMEDOUT"
  BY EndWaitsKeepsTable
<1>3. \A s \in X : s \notin C
  BY DEF Answered
<1> HIDE DEF E
<1>4. Answered(E, C)
  BY <1>1, <1>2, <1>3 DEF Answered
<1> QED
  BY <1>4 DEF E

-----------------------------------------------------------------------------
(* What a switch keeps *)

Bundle(T, C, W, n) == TableOK(T) /\ C \subseteq Slots /\ Answered(T, C) /\ JoinsOK(T, W, n)

LEMMA ResumeKeeps ==
  ASSUME NEW T, NEW M \in [Timespecs -> Nat], NEW C, NEW W, NEW k, NEW n \in Runnable(T),
         Bundle(T, C, W, k), NobodyRuns(T), Resume(T, M, C, n)
  PROVE  /\ Bundle(thr', counted', W, k)
         /\ cur' \in Slots /\ ts' \in [Timespecs -> Nat]
         /\ NeverIdlesOverWork'
<1> DEFINE t == [T[n] EXCEPT !.state = "RUNNING", !.kctx = "ring3",
                             !.wait = None, !.frame = None]
<1>1. n \in Slots /\ T[n].state = "RUNNABLE" /\ T[n] \in Thread
  BY DEF Runnable, Bundle, TableOK
<1>2. /\ t \in Thread /\ t.state = "RUNNING" /\ t.kctx = "ring3" /\ t.wait = None
      /\ t.frame = None /\ t.tid = T[n].tid /\ t.ctid = T[n].ctid
  BY <1>1 DEF Thread
<1>3. thr' = Put(T, n, t) /\ cur' = n /\ counted' = C \ {n}
  BY DEF Resume
<1> HIDE DEF t
<1>4. Placed(t)
  BY <1>2 DEF Placed
<1>5. TableOK(thr') /\ thr'[n] = t /\ \A s \in Slots \ {n} : thr'[s] = T[s]
  BY <1>1, <1>2, <1>3, <1>4, PutIn DEF Bundle
<1>6. Answered(thr', counted')
  BY <1>2, <1>3, <1>5 DEF Answered, Bundle
<1>7. SameThreads(T, thr')
  BY <1>1, <1>2, <1>5 DEF Alive, SameThreads
<1>8. JoinsOK(thr', W, k)
  BY <1>7, SameThreadsKeepJoins DEF Bundle
<1>9. ts' \in [Timespecs -> Nat]
  <2>1. CASE T[n].frame = None
    BY <2>1 DEF Resume
  <2>2. CASE T[n].frame # None
    <3>1. T[n].frame \in [p : Timespecs, old : Nat]
      BY <1>1, <2>2 DEF Thread
    <3>2. ts' = [M EXCEPT ![T[n].frame.p] = T[n].frame.old]
      BY <2>2 DEF Resume
    <3> QED
      BY <3>1, <3>2
  <2> QED
    BY <2>1, <2>2
<1>10. NeverIdlesOverWork'
  BY <1>1, <1>2, <1>3, <1>5 DEF NeverIdlesOverWork, InRing3, NobodyRuns
<1>11. counted' \subseteq Slots
  BY <1>3 DEF Bundle
<1> QED
  BY <1>1, <1>3, <1>5, <1>6, <1>8, <1>9, <1>10, <1>11 DEF Bundle

LEMMA DispatchKeeps ==
  ASSUME NEW T, NEW M \in [Timespecs -> Nat], NEW C, NEW W, NEW k, cur \in Slots,
         Bundle(T, C, W, k), NobodyRuns(T), Dispatch(T, M, C)
  PROVE  /\ Bundle(thr', counted', W, k)
         /\ cur' \in Slots /\ ts' \in [Timespecs -> Nat]
         /\ NeverIdlesOverWork'
<1>1. CASE T[cur].state = "RUNNABLE" /\ Resume(T, M, C, cur)
  <2>1. cur \in Runnable(T)
    BY <1>1 DEF Runnable
  <2> QED
    BY <1>1, <2>1, ResumeKeeps
<1>2. CASE T[cur].state # "RUNNABLE" /\ Runnable(T) # {} /\ Resume(T, M, C, PickNext(T, cur))
  <2>1. PickNext(T, cur) \in Runnable(T)
    BY <1>2, PickNextIsRunnable
  <2> QED
    BY <1>2, <2>1, ResumeKeeps
<1>3. CASE Runnable(T) = {} /\ thr' = T /\ ts' = M /\ counted' = C /\ UNCHANGED cur
  BY <1>3 DEF NeverIdlesOverWork, InRing3, NobodyRuns, Runnable
<1> QED
  BY <1>1, <1>2, <1>3 DEF Dispatch

-----------------------------------------------------------------------------
(* The inductive invariant, and what each action keeps *)

IInv ==
  /\ Bundle(thr, counted, word, nextTid)
  /\ cur \in Slots /\ now \in Nat
  /\ ts \in [Timespecs -> Nat] /\ laid \in [Timespecs -> Nat \cup {None}]
  /\ NeverIdlesOverWork

LEMMA ExpireKeeps ==
  ASSUME NEW T, NEW time, NEW C, NEW W, NEW k, Bundle(T, C, W, k)
  PROVE  /\ Bundle(Expire(T, time), C, W, k)
         /\ NobodyRuns(T) => NobodyRuns(Expire(T, time))
         /\ \A s \in Slots : T[s].state # "BLOCKED" => Expire(T, time)[s] = T[s]
         /\ \A s \in Slots : Expire(T, time)[s].state = "RUNNING" <=> T[s].state = "RUNNING"
<1> DEFINE X == PastDeadline(T, time)
<1>1. X \subseteq {s \in Slots : T[s].state = "BLOCKED"}
  BY WokenAreBlocked
<1>2. TableOK(T) /\ Answered(T, C) /\ JoinsOK(T, W, k)
  BY DEF Bundle
<1>3. Expire(T, time) = EndWaits(T, X, "ETIMEDOUT")
  BY DEF Expire
<1> HIDE DEF X
<1>4. Answered(Expire(T, time), C)
  BY <1>1, <1>2, <1>3, ExpireKeepsAnswered
<1>5. JoinsOK(Expire(T, time), W, k)
  BY <1>1, <1>2, <1>3, EndWaitsKeepsJoins
<1>6. /\ TableOK(Expire(T, time))
      /\ NobodyRuns(T) => NobodyRuns(Expire(T, time))
      /\ \A s \in Slots \ X : Expire(T, time)[s] = T[s]
      /\ \A s \in X : Expire(T, time)[s].state = "RUNNABLE"
  BY <1>1, <1>2, <1>3, EndWaitsKeepsTable
<1> QED
  BY <1>1, <1>4, <1>5, <1>6 DEF Bundle

(* The running thread stands aside in the slot's new contents t. *)
LEMMA StandsAside ==
  ASSUME NEW T, NEW C, NEW W, NEW k, NEW c \in Slots, NEW t \in Thread, Placed(t),
         Bundle(T, C, W, k), T[c].state = "RUNNING", t.state = "RUNNABLE", t.kctx = "timer",
         t.tid = T[c].tid, t.ctid = T[c].ctid
  PROVE  Bundle(Put(T, c, t), C, W, k)
<1>1. /\ TableOK(Put(T, c, t)) /\ Put(T, c, t)[c] = t
      /\ \A s \in Slots \ {c} : Put(T, c, t)[s] = T[s]
  BY PutIn DEF Bundle
<1> DEFINE P == Put(T, c, t)
<1> HIDE DEF P
<1>2. TableOK(P) /\ P[c] = t /\ \A s \in Slots \ {c} : P[s] = T[s]
  BY <1>1 DEF P
<1>3. SameThreads(T, P)
  BY <1>2 DEF SameThreads, Alive
<1>4. JoinsOK(P, W, k)
  BY <1>3, SameThreadsKeepJoins DEF Bundle
<1>5. Answered(P, C)
  BY <1>2 DEF Answered, Bundle
<1>6. Bundle(P, C, W, k)
  BY <1>2, <1>4, <1>5 DEF Bundle
<1> QED
  BY <1>6 DEF P

LEMMA TickKeeps ==
  ASSUME IInv, Tick
  PROVE  IInv'
<1> DEFINE T == Expire(thr, NextTick)
           t == [T[cur] EXCEPT !.state = "RUNNABLE", !.kctx = "timer"]
           Keeps == /\ Bundle(thr', counted', word, nextTid)
                    /\ cur' \in Slots /\ ts' \in [Timespecs -> Nat]
                    /\ NeverIdlesOverWork'
<1>1. now' \in Nat /\ UNCHANGED <<nextTid, word, laid>>
  BY TimeAssumption DEF Tick, NextTick, IInv
<1>2. /\ Bundle(T, counted, word, nextTid)
      /\ NobodyRuns(thr) => NobodyRuns(T)
      /\ \A s \in Slots : thr[s].state # "BLOCKED" => T[s] = thr[s]
      /\ \A s \in Slots : T[s].state = "RUNNING" <=> thr[s].state = "RUNNING"
  BY ExpireKeeps DEF IInv
<1>3. T[cur] \in Thread /\ cur \in Slots
  BY <1>2 DEF Bundle, TableOK, IInv
<1>4. \/ /\ InRing3 /\ Runnable(T) # {}
         /\ Resume(Put(T, cur, t), ts, counted, PickNext(T, cur))
      \/ InRing3 /\ Runnable(T) = {} /\ thr' = T /\ UNCHANGED <<cur, ts, counted>>
      \/ ~InRing3 /\ Dispatch(T, ts, counted)
  BY DEF Tick
<1> HIDE DEF T
<1>5. CASE /\ InRing3 /\ Runnable(T) # {}
           /\ Resume(Put(T, cur, t), ts, counted, PickNext(T, cur))
  <2>1. T[cur].state = "RUNNING" /\ Placed(T[cur])
    BY <1>2, <1>3, <1>5 DEF InRing3, Bundle, TableOK
  <2>2. /\ t \in Thread /\ t.state = "RUNNABLE" /\ t.kctx = "timer"
        /\ t.tid = T[cur].tid /\ t.ctid = T[cur].ctid /\ t.frame = T[cur].frame
    BY <1>3 DEF Thread
  <2> HIDE DEF t
  <2>3. Placed(t)
    BY <2>1, <2>2 DEF Placed
  <2>4. Bundle(Put(T, cur, t), counted, word, nextTid)
    BY <1>2, <1>3, <2>1, <2>2, <2>3, StandsAside
  <2>5. Put(T, cur, t)[cur] = t /\ \A s \in Slots \ {cur} : Put(T, cur, t)[s] = T[s]
    BY <1>3 DEF Put
  <2>6. NobodyRuns(Put(T, cur, t))
    BY <1>2, <2>2, <2>5 DEF NobodyRuns, IInv, NeverIdlesOverWork
  <2>7. PickNext(T, cur) \in Runnable(T)
    BY <1>3, <1>5, PickNextIsRunnable
  <2>8. PickNext(T, cur) \in Runnable(Put(T, cur, t))
    BY <2>2, <2>5, <2>7 DEF Runnable
  <2>9. Keeps
    BY <1>5, <2>4, <2>6, <2>8, ResumeKeeps DEF IInv
  <2> QED
    BY <1>1, <2>9 DEF IInv
<1>6. CASE InRing3 /\ Runnable(T) = {} /\ thr' = T /\ UNCHANGED <<cur, ts, counted>>
  <2>1. NeverIdlesOverWork'
    BY <1>2, <1>3, <1>6 DEF NeverIdlesOverWork, InRing3, IInv
  <2> QED
    BY <1>1, <1>2, <1>6, <2>1 DEF IInv
<1>7. CASE ~InRing3 /\ Dispatch(T, ts, counted)
  <2>1. NobodyRuns(T)
    BY <1>2, <1>7 DEF NobodyRuns, InRing3, IInv, NeverIdlesOverWork
  <2>2. Keeps
    BY <1>2, <1>3, <1>7, <2>1, DispatchKeeps DEF IInv
  <2> QED
    BY <1>1, <2>2 DEF IInv
<1> QED
  BY <1>4, <1>5, <1>6, <1>7

LEMMA Clone3Keeps ==
  ASSUME IInv, NEW c \in TidWords, Clone3(c)
  PROVE  IInv'
<1> DEFINE v == CHOOSE v \in Vacant : \A r \in Vacant : v <= r
           t == [state |-> "RUNNABLE", tid |-> nextTid, ctid |-> c,
                 wait |-> None, deadline |-> None, result |-> "woken",
                 kctx |-> "new", frame |-> None, due |-> None]
<1>1. v \in Vacant
  BY VacantHasLeast DEF Clone3
<1>2. thr' = Put(thr, v, t) /\ nextTid' = nextTid + 1 /\ word' = [word EXCEPT ![c] = nextTid]
  BY DEF Clone3
<1>3. InRing3 /\ word[c] = 0 /\ UNCHANGED <<cur, now, ts, laid, counted>>
  BY DEF Clone3
<1> HIDE DEF v
<1>4. v \in Slots /\ v # cur /\ ~Alive(thr[v])
  BY <1>1 DEF Vacant, Alive
<1>5. nextTid \in Nat /\ word \in [TidWords -> Nat] /\ TableOK(thr)
  BY DEF IInv, Bundle, JoinsOK
<1>6. t \in Thread /\ Placed(t)
  BY <1>5, MemoryAssumption DEF Thread, Placed
<1>7. t.state = "RUNNABLE" /\ t.kctx = "new" /\ t.tid = nextTid /\ t.ctid = c
  OBVIOUS
<1> HIDE DEF t
<1>8. TableOK(thr') /\ thr'[v] = t /\ \A s \in Slots \ {v} : thr'[s] = thr[s]
  BY <1>2, <1>4, <1>5, <1>6, PutIn
<1>9. word'[c] = nextTid /\ \A w \in TidWords \ {c} : word'[w] = word[w]
  BY <1>2, <1>5
<1>10. /\ IdsGiven(thr, nextTid) /\ OwnersNamed(thr, word) /\ OneOwner(thr)
       /\ HeldAreOwned(thr, word) /\ WaitsOnHeld(thr, word) /\ OneJoiner(thr)
  BY DEF IInv, Bundle, JoinsOK
<1>11. nextTid > 0
  BY <1>3, <1>5, <1>10 DEF IdsGiven, InRing3, Alive, IInv, TableOK, Thread
<1>12. \A s \in Slots \ {v} : Alive(thr[s]) => thr[s].ctid # c
  BY <1>3, <1>10, MemoryAssumption DEF IdsGiven, OwnersNamed
<1>13. \A s \in Slots : thr[s].tid \in Nat /\ thr[s].ctid \in TidWords \cup {None}
  BY <1>5 DEF TableOK, Thread
<1>14. JoinsOK(thr', word', nextTid')
  <2>1. IdsGiven(thr', nextTid')
    BY <1>2, <1>5, <1>7, <1>8, <1>10, <1>11, <1>13 DEF IdsGiven
  <2>2. OwnersNamed(thr', word')
    BY <1>7, <1>8, <1>9, <1>10, <1>12, <1>13 DEF OwnersNamed
  <2>3. OneOwner(thr')
    BY <1>7, <1>8, <1>10, <1>12 DEF OneOwner
  <2>4. HeldAreOwned(thr', word')
    <3> SUFFICES ASSUME NEW w \in TidWords, word'[w] # 0
                 PROVE  \E u \in Slots : Alive(thr'[u]) /\ thr'[u].ctid = w
      BY DEF HeldAreOwned
    <3>1. CASE w = c
      BY <3>1, <1>4, <1>7, <1>8 DEF Alive
    <3>2. CASE w # c
      <4>1. PICK u \in Slots : Alive(thr[u]) /\ thr[u].ctid = w
        BY <3>2, <1>9, <1>10 DEF HeldAreOwned
      <4> QED
        BY <4>1, <1>4, <1>8
    <3> QED
      BY <3>1, <3>2
  <2>5. WaitsOnHeld(thr', word')
    BY <1>7, <1>8, <1>9, <1>10, <1>11 DEF WaitsOnHeld
  <2>6. OneJoiner(thr')
    BY <1>7, <1>8, <1>10 DEF OneJoiner
  <2>7. word' \in [TidWords -> Nat] /\ nextTid' \in Nat
    BY <1>2, <1>5
  <2> QED
    BY <2>1, <2>2, <2>3, <2>4, <2>5, <2>6, <2>7 DEF JoinsOK
<1>15. Answered(thr', counted')
  BY <1>3, <1>4, <1>7, <1>8 DEF Answered, IInv, Bundle, Alive
<1>16. NeverIdlesOverWork'
  BY <1>3, <1>4, <1>7, <1>8 DEF NeverIdlesOverWork, InRing3, IInv
<1> QED
  BY <1>3, <1>8, <1>14, <1>15, <1>16 DEF IInv, Bundle

LEMMA FutexWakeKeeps ==
  ASSUME IInv, NEW w, NEW nr, FutexWake(w, nr)
  PROVE  IInv'
<1> DEFINE X == FirstWaiters(thr, w, nr)
<1>1. X \subseteq {s \in Slots : thr[s].state = "BLOCKED"}
  BY WokenAreBlocked
<1>2. /\ thr' = EndWaits(thr, X, "woken") /\ counted' = counted \cup X
      /\ InRing3 /\ UNCHANGED <<cur, nextTid, word, now, ts, laid>>
  BY DEF FutexWake, Wake
<1> HIDE DEF X
<1>3. TableOK(thr) /\ Answered(thr, counted) /\ JoinsOK(thr, word, nextTid)
  BY DEF IInv, Bundle
<1>4. Answered(thr', counted')
  BY <1>1, <1>2, <1>3, WakeKeepsAnswered
<1>5. JoinsOK(thr', word, nextTid)
  BY <1>1, <1>2, <1>3, EndWaitsKeepsJoins
<1>6. /\ TableOK(thr')
      /\ \A s \in Slots \ X : thr'[s] = thr[s]
      /\ \A s \in X : thr'[s].state = "RUNNABLE"
  BY <1>1, <1>2, <1>3, EndWaitsKeepsTable
<1>7. NeverIdlesOverWork'
  BY <1>1, <1>2, <1>6 DEF NeverIdlesOverWork, InRing3, IInv
<1> QED
  BY <1>1, <1>2, <1>4, <1>5, <1>6, <1>7 DEF IInv, Bundle

LEMMA BlockKeeps ==
  ASSUME IInv, InRing3, NEW w \in Words, MayWaitOn(w), NEW dl \in Nat \cup {None},
         NEW fr \in [p : Timespecs, old : Nat] \cup {None}, NEW due \in Nat \cup {None},
         NEW M \in [Timespecs -> Nat], Block(w, dl, fr, due, M)
  PROVE  /\ Bundle(thr', counted', word, nextTid)
         /\ cur' \in Slots /\ ts' \in [Timespecs -> Nat]
         /\ NeverIdlesOverWork'
<1> DEFINE t == [thr[cur] EXCEPT !.state = "BLOCKED", !.kctx = "futex", !.wait = w,
                                 !.deadline = dl, !.result = "woken",
                                 !.frame = fr, !.due = due]
           P == Put(thr, cur, t)
<1>1. Dispatch(Expire(P, now), M, counted)
  BY DEF Block
<1>2. cur \in Slots /\ thr[cur] \in Thread /\ TableOK(thr) /\ thr[cur].state = "RUNNING"
  BY DEF IInv, Bundle, TableOK, InRing3
<1>3. /\ t \in Thread /\ t.state = "BLOCKED" /\ t.kctx = "futex" /\ t.wait = w
      /\ t.tid = thr[cur].tid /\ t.ctid = thr[cur].ctid
  BY <1>2 DEF Thread
<1> HIDE DEF t
<1>4. Placed(t)
  BY <1>3, MemoryAssumption DEF Placed, Words
<1>5. TableOK(P) /\ P[cur] = t /\ \A s \in Slots \ {cur} : P[s] = thr[s]
  BY <1>2, <1>3, <1>4, PutIn
<1> HIDE DEF P
<1>6. Answered(P, counted)
  BY <1>2, <1>3, <1>5 DEF Answered, IInv, Bundle
<1>7. NobodyRuns(P)
  BY <1>3, <1>5 DEF NobodyRuns, IInv, NeverIdlesOverWork
<1>8. JoinsOK(P, word, nextTid)
  <2>1. /\ IdsGiven(thr, nextTid) /\ OwnersNamed(thr, word) /\ OneOwner(thr)
        /\ HeldAreOwned(thr, word) /\ WaitsOnHeld(thr, word) /\ OneJoiner(thr)
    BY DEF IInv, Bundle, JoinsOK
  <2>2. \A s \in Slots : /\ Alive(P[s]) <=> Alive(thr[s])
                         /\ P[s].tid = thr[s].tid /\ P[s].ctid = thr[s].ctid
    BY <1>2, <1>3, <1>5 DEF Alive
  <2>3. IdsGiven(P, nextTid)
    BY <2>1, <2>2 DEF IdsGiven
  <2>4. OwnersNamed(P, word)
    BY <2>1, <2>2 DEF OwnersNamed
  <2>5. OneOwner(P)
    BY <2>1, <2>2 DEF OneOwner
  <2>6. HeldAreOwned(P, word)
    BY <2>1, <2>2 DEF HeldAreOwned
  <2>7. WaitsOnHeld(P, word)
    BY <1>3, <1>5, <2>1, <2>2 DEF WaitsOnHeld, MayWaitOn
  <2>8. w \in TidWords => \A s \in Slots : ~(thr[s].state = "BLOCKED" /\ thr[s].wait = w)
    BY DEF MayWaitOn, Waiters
  <2>9. OneJoiner(P)
    BY <1>3, <1>5, <2>1, <2>8 DEF OneJoiner
  <2> QED
    BY <2>3, <2>4, <2>5, <2>6, <2>7, <2>9 DEF JoinsOK, IInv, Bundle
<1>9. Bundle(P, counted, word, nextTid)
  BY <1>5, <1>6, <1>8 DEF Bundle, IInv
<1>10. Bundle(Expire(P, now), counted, word, nextTid) /\ NobodyRuns(Expire(P, now))
  BY <1>7, <1>9, ExpireKeeps
<1> QED
  BY <1>1, <1>2, <1>10, DispatchKeeps

LEMMA FutexWaitKeeps ==
  ASSUME IInv, NEW w \in Words, FutexWait(w)
  PROVE  IInv'
<1>1. /\ InRing3 /\ MayWaitOn(w) /\ Block(w, None, None, None, ts)
      /\ UNCHANGED <<nextTid, word, now, laid>>
  BY DEF FutexWait
<1>2. ts \in [Timespecs -> Nat]
  BY DEF IInv
<1>3. /\ Bundle(thr', counted', word, nextTid)
      /\ cur' \in Slots /\ ts' \in [Timespecs -> Nat] /\ NeverIdlesOverWork'
  BY <1>1, <1>2, BlockKeeps
<1> QED
  BY <1>1, <1>3 DEF IInv

(* What a timed wait hands to the scheduler. *)
TheDue(p, fresh, d) == IF fresh THEN now + d ELSE laid[p]
TheGiven(p, fresh, d) ==
  IF ~fresh THEN ts[p] ELSE IF p \in RealTimespecs THEN Base + TheDue(p, fresh, d)
                                                  ELSE TheDue(p, fresh, d)

LEMMA TimedWaitHands ==
  ASSUME IInv, NEW w \in Words, NEW p \in Timespecs, NEW fresh \in BOOLEAN, NEW d \in Delays,
         TimedWait(w, p, fresh, d)
  PROVE  LET due   == TheDue(p, fresh, d)
             given == TheGiven(p, fresh, d) IN
         /\ due \in Nat /\ given \in Nat /\ FromEpoch(given) \in Nat
         /\ InRing3 /\ MayWaitOn(w)
         /\ IF fresh THEN ~InUse(p) ELSE laid[p] # None
         /\ InUse(p) => MayShare
         /\ laid' = [laid EXCEPT ![p] = due]
         /\ p \in RealTimespecs => Block(w, FromEpoch(given), [p |-> p, old |-> given], due,
                                         [ts EXCEPT ![p] = FromEpoch(given)])
         /\ p \notin RealTimespecs => Block(w, given, None, due, [ts EXCEPT ![p] = given])
         /\ UNCHANGED <<nextTid, word, now>>
<1>1. TheDue(p, fresh, d) \in Nat
  BY TimeAssumption DEF TheDue, TimedWait, IInv
<1>2. TheGiven(p, fresh, d) \in Nat
  BY <1>1, TimeAssumption DEF TheGiven, IInv
<1>3. FromEpoch(TheGiven(p, fresh, d)) \in Nat
  BY <1>2, TimeAssumption DEF FromEpoch
<1> QED
  BY <1>1, <1>2, <1>3 DEF TimedWait, TheDue, TheGiven

LEMMA TimedWaitKeeps ==
  ASSUME IInv, NEW w \in Words, NEW p \in Timespecs, NEW fresh \in BOOLEAN, NEW d \in Delays,
         TimedWait(w, p, fresh, d)
  PROVE  IInv'
<1> DEFINE due   == TheDue(p, fresh, d)
           given == TheGiven(p, fresh, d)
<1>1. due \in Nat /\ given \in Nat /\ FromEpoch(given) \in Nat
  BY TimedWaitHands
<1>2. /\ InRing3 /\ MayWaitOn(w) /\ UNCHANGED <<nextTid, word, now>>
      /\ laid' = [laid EXCEPT ![p] = due]
  BY DEF TimedWait, TheDue
<1>3. /\ p \in RealTimespecs => Block(w, FromEpoch(given), [p |-> p, old |-> given], due,
                                      [ts EXCEPT ![p] = FromEpoch(given)])
      /\ p \notin RealTimespecs => Block(w, given, None, due, [ts EXCEPT ![p] = given])
  BY TimedWaitHands
<1> HIDE DEF due, given
<1>4. /\ [ts EXCEPT ![p] = given] \in [Timespecs -> Nat]
      /\ [ts EXCEPT ![p] = FromEpoch(given)] \in [Timespecs -> Nat]
      /\ laid' \in [Timespecs -> Nat \cup {None}]
      /\ [p |-> p, old |-> given] \in [p : Timespecs, old : Nat]
  BY <1>1, <1>2 DEF IInv
<1>5. /\ Bundle(thr', counted', word, nextTid)
      /\ cur' \in Slots /\ ts' \in [Timespecs -> Nat] /\ NeverIdlesOverWork'
  <2>1. CASE p \in RealTimespecs
    BY <1>1, <1>2, <1>3, <1>4, <2>1, BlockKeeps
  <2>2. CASE p \notin RealTimespecs
    BY <1>1, <1>2, <1>3, <1>4, <2>2, BlockKeeps
  <2> QED
    BY <2>1, <2>2
<1> QED
  BY <1>2, <1>4, <1>5 DEF IInv

(* A word has at most one waiter, so waking one wakes them all. *)
LEMMA OneWakeIsEnough ==
  ASSUME NEW T, NEW c \in TidWords, OneJoiner(T)
  PROVE  FirstWaiters(T, c, 1) = Waiters(T, c)
<1>1. ASSUME NEW s \in Waiters(T, c)
      PROVE  Cardinality({r \in Waiters(T, c) : r < s}) = 0
  <2>1. \A r \in Waiters(T, c) : r = s
    BY <1>1 DEF Waiters, OneJoiner
  <2>2. ~(s < s)
    BY <1>1, SlotsAssumption DEF Waiters, Slots
  <2>3. {r \in Waiters(T, c) : r < s} = {}
    BY <2>1, <2>2
  <2> QED
    BY <2>3, FS_EmptySet
<1> QED
  BY <1>1 DEF FirstWaiters

LEMMA ThreadExitKeeps ==
  ASSUME IInv, ThreadExit
  PROVE  IInv'
<1> DEFINE c == thr[cur].ctid
           X == IF c = None THEN {} ELSE FirstWaiters(thr, c, 1)
           T == IF c = None THEN thr ELSE Wake(thr, c, 1)
           t == [T[cur] EXCEPT !.state = "ZOMBIE", !.kctx = "exit"]
           P == Put(T, cur, t)
<1>1. /\ InRing3 /\ UNCHANGED <<nextTid, now, laid>>
      /\ word' = IF c = None THEN word ELSE [word EXCEPT ![c] = 0]
      /\ Dispatch(P, ts, counted \cup X)
  BY DEF ThreadExit
<1>2. /\ cur \in Slots /\ thr[cur] \in Thread /\ TableOK(thr) /\ thr[cur].state = "RUNNING"
      /\ c \in TidWords \cup {None} /\ Placed(thr[cur])
  BY <1>1 DEF IInv, Bundle, TableOK, InRing3, Thread
<1>3. /\ Answered(thr, counted) /\ counted \subseteq Slots
      /\ word \in [TidWords -> Nat] /\ nextTid \in Nat
      /\ IdsGiven(thr, nextTid) /\ OwnersNamed(thr, word) /\ OneOwner(thr)
      /\ HeldAreOwned(thr, word) /\ WaitsOnHeld(thr, word) /\ OneJoiner(thr)
  BY DEF IInv, Bundle, JoinsOK
<1>4. X \subseteq {s \in Slots : thr[s].state = "BLOCKED"}
  BY WokenAreBlocked
<1>5. c # None => X = {s \in Slots : thr[s].state = "BLOCKED" /\ thr[s].wait = c}
  BY <1>2, <1>3, OneWakeIsEnough DEF Waiters
<1>6. T = EndWaits(thr, X, "woken")
  <2>1. CASE c # None
    BY <2>1 DEF Wake
  <2>2. CASE c = None
    BY <2>2, <1>2 DEF EndWaits, TableOK
  <2> QED
    BY <2>1, <2>2
<1> HIDE DEF X, T
<1>7. /\ TableOK(T)
      /\ \A s \in Slots \ X : T[s] = thr[s]
      /\ \A s \in X : /\ T[s].state = "RUNNABLE"
                       /\ T[s].tid = thr[s].tid /\ T[s].ctid = thr[s].ctid
  BY <1>2, <1>4, <1>6, EndWaitsKeepsTable
<1>8. Answered(T, counted \cup X)
  BY <1>2, <1>3, <1>4, <1>6, WakeKeepsAnswered
<1>9. T[cur] = thr[cur] /\ cur \notin X
  BY <1>2, <1>4, <1>7
<1>10. t \in Thread /\ t.state = "ZOMBIE" /\ t.kctx = "exit" /\ t.frame = thr[cur].frame
  BY <1>2, <1>9 DEF Thread
<1> HIDE DEF t
<1>11. Placed(t)
  BY <1>2, <1>10 DEF Placed
<1>12. TableOK(P) /\ P[cur] = t /\ \A s \in Slots \ {cur} : P[s] = T[s]
  BY <1>2, <1>7, <1>10, <1>11, PutIn
<1> HIDE DEF P
<1>13. NobodyRuns(P)
  BY <1>7, <1>10, <1>12 DEF NobodyRuns, IInv, NeverIdlesOverWork
<1>14. Answered(P, counted \cup X)
  BY <1>2, <1>8, <1>9, <1>10, <1>12 DEF Answered
<1>15. \A s \in Slots : /\ Alive(P[s]) <=> Alive(thr[s]) /\ s # cur
                        /\ s # cur => P[s].tid = thr[s].tid /\ P[s].ctid = thr[s].ctid
                        /\ P[s].state = "BLOCKED" =>
                             s \notin X /\ s # cur /\ P[s] = thr[s]
  BY <1>4, <1>7, <1>10, <1>12 DEF Alive
<1>16. JoinsOK(P, word', nextTid)
  <2>1. word' \in [TidWords -> Nat]
    BY <1>1, <1>2, <1>3
  <2>2. IdsGiven(P, nextTid)
    BY <1>3, <1>15 DEF IdsGiven
  <2>3. OneOwner(P)
    BY <1>3, <1>15 DEF OneOwner
  <2>4. OneJoiner(P)
    BY <1>3, <1>15 DEF OneJoiner
  <2>5. \A k \in TidWords : k # c => word'[k] = word[k]
    BY <1>1, <1>2, <1>3
  <2>6. \A s \in Slots : Alive(P[s]) /\ P[s].ctid # None => P[s].ctid # c
    BY <1>2, <1>3, <1>15 DEF OneOwner, Alive
  <2>7. \A s \in Slots : P[s].ctid \in TidWords \cup {None}
    BY <1>12 DEF TableOK, Thread
  <2>8. OwnersNamed(P, word')
    BY <1>3, <1>15, <2>5, <2>6, <2>7 DEF OwnersNamed
  <2>9. HeldAreOwned(P, word')
    <3> SUFFICES ASSUME NEW k \in TidWords, word'[k] # 0
                 PROVE  \E u \in Slots : Alive(P[u]) /\ P[u].ctid = k
      BY DEF HeldAreOwned
    <3>1. k # c
      BY <1>1, <1>3, MemoryAssumption
    <3>2. PICK u \in Slots : Alive(thr[u]) /\ thr[u].ctid = k
      BY <1>3, <2>5, <3>1 DEF HeldAreOwned
    <3> QED
      BY <1>15, <3>1, <3>2
  <2>10. \A s \in Slots : P[s].state = "BLOCKED" /\ P[s].wait \in TidWords => P[s].wait # c
    BY <1>5, <1>15, MemoryAssumption
  <2>11. WaitsOnHeld(P, word')
    BY <1>3, <1>15, <2>5, <2>10 DEF WaitsOnHeld
  <2> QED
    BY <1>3, <2>1, <2>2, <2>3, <2>4, <2>8, <2>9, <2>11 DEF JoinsOK
<1>17. counted \cup X \subseteq Slots
  BY <1>3, <1>4
<1>18. Bundle(P, counted \cup X, word', nextTid)
  BY <1>12, <1>14, <1>16, <1>17 DEF Bundle
<1>19. /\ Bundle(thr', counted', word', nextTid)
       /\ cur' \in Slots /\ ts' \in [Timespecs -> Nat] /\ NeverIdlesOverWork'
  BY <1>1, <1>2, <1>13, <1>18, DispatchKeeps DEF IInv
<1> QED
  BY <1>1, <1>19 DEF IInv

LEMMA InitKeeps == Init => IInv
<1> SUFFICES ASSUME Init PROVE IInv
  OBVIOUS
<1> DEFINE m == [FreeSlot EXCEPT !.state = "RUNNING", !.tid = 1, !.kctx = "ring3"]
<1>1. /\ FreeSlot \in Thread /\ FreeSlot.state = "FREE" /\ Placed(FreeSlot)
      /\ m \in Thread /\ m.state = "RUNNING" /\ m.tid = 1 /\ m.ctid = None /\ Placed(m)
  BY DEF FreeSlot, Thread, Placed
<1>2. thr = [s \in Slots |-> IF s = 0 THEN m ELSE FreeSlot]
  BY DEF Init
<1> HIDE DEF m
<1>3. 0 \in Slots
  BY SlotsAssumption DEF Slots
<1>4. thr[0] = m /\ \A s \in Slots \ {0} : thr[s] = FreeSlot
  BY <1>2, <1>3
<1>5. TableOK(thr)
  BY <1>1, <1>2 DEF TableOK
<1>6. Answered(thr, counted)
  BY <1>1, <1>4 DEF Answered, Init
<1>7. JoinsOK(thr, word, nextTid)
  <2>1. IdsGiven(thr, nextTid)
    BY <1>1, <1>4 DEF IdsGiven, Init, Alive
  <2>2. OwnersNamed(thr, word) /\ OneOwner(thr)
    BY <1>1, <1>4 DEF OwnersNamed, OneOwner, Alive
  <2>3. HeldAreOwned(thr, word)
    BY DEF HeldAreOwned, Init
  <2>4. WaitsOnHeld(thr, word) /\ OneJoiner(thr)
    BY <1>1, <1>4 DEF WaitsOnHeld, OneJoiner
  <2> QED
    BY <2>1, <2>2, <2>3, <2>4 DEF JoinsOK, Init
<1>8. NeverIdlesOverWork
  BY <1>1, <1>4 DEF NeverIdlesOverWork, InRing3, Init
<1> QED
  BY <1>3, <1>5, <1>6, <1>7, <1>8 DEF IInv, Bundle, Init

LEMMA Inductive == IInv /\ [Next]_vars => IInv'
<1> SUFFICES ASSUME IInv, [Next]_vars PROVE IInv'
  OBVIOUS
<1>1. CASE Tick
  BY <1>1, TickKeeps
<1>2. ASSUME NEW c \in TidWords, Clone3(c) PROVE IInv'
  BY <1>2, Clone3Keeps
<1>3. ASSUME NEW w \in Words, NEW nr \in {1, NSlots}, FutexWake(w, nr) PROVE IInv'
  BY <1>3, FutexWakeKeeps
<1>4. ASSUME NEW w \in Words, FutexWait(w) PROVE IInv'
  BY <1>4, FutexWaitKeeps
<1>5. ASSUME NEW w \in Words, NEW p \in Timespecs, NEW fresh \in BOOLEAN, NEW d \in Delays,
             TimedWait(w, p, fresh, d)
      PROVE  IInv'
  BY <1>5, TimedWaitKeeps
<1>6. CASE ThreadExit
  BY <1>6, ThreadExitKeeps
<1>7. CASE UNCHANGED vars
  BY <1>7 DEF vars, IInv, Bundle, NeverIdlesOverWork, InRing3
<1> QED
  BY <1>1, <1>2, <1>3, <1>4, <1>5, <1>6, <1>7 DEF Next

LEMMA Invariance == Spec => []IInv
<1>1. Init => IInv
  BY InitKeeps
<1>2. IInv /\ [Next]_vars => IInv'
  BY Inductive
<1> QED
  BY <1>1, <1>2, PTL DEF Spec

(* The table, the clock and the program's words keep their types, whatever *)
(* slots sched_alloc reclaims and whatever wait is abandoned.              *)
THEOREM ThreadTypes == Spec => []TypeOK
<1>1. IInv => TypeOK
  BY DEF IInv, Bundle, TableOK, JoinsOK, TypeOK
<1> QED
  BY <1>1, Invariance, PTL

(* One thread has the CPU, and it halts only when nobody is runnable       *)
(* (sched_block, sched_thread_exit, the timer's switch).                   *)
THEOREM NoIdlingOverWork == Spec => []NeverIdlesOverWork
<1>1. IInv => NeverIdlesOverWork
  BY DEF IInv
<1> QED
  BY <1>1, Invariance, PTL

(* sched_futex_wake and sched_expire_deadlines never both end a wait: what *)
(* was counted answers 0, what was not answers ETIMEDOUT.                  *)
THEOREM WakesAndTimeoutsAgree == Spec => []WakesAreAnswered
<1>1. IInv => WakesAreAnswered
  BY DEF IInv, Bundle, Answered, WakesAreAnswered
<1> QED
  BY <1>1, Invariance, PTL

(* Whoever joins a thread waits for a live thread whose exit will clear    *)
(* the word and wake it (sched_alloc, sched_thread_exit).                  *)
THEOREM JoinsEnd == Spec => []JoinsAreOwed
<1>1. IInv => JoinsAreOwed
  <2> SUFFICES ASSUME IInv, NEW s \in Slots,
                      thr[s].state = "BLOCKED", thr[s].wait \in TidWords
               PROVE  \E u \in Slots \ {s} : /\ thr[u].state \notin {"FREE", "ZOMBIE"}
                                             /\ thr[u].ctid = thr[s].wait
                                             /\ word[thr[s].wait] = thr[u].tid
    BY DEF JoinsAreOwed
  <2>1. /\ OwnersNamed(thr, word) /\ HeldAreOwned(thr, word) /\ WaitsOnHeld(thr, word)
    BY DEF IInv, Bundle, JoinsOK
  <2>2. word[thr[s].wait] # 0 /\ thr[s].ctid # thr[s].wait
    BY <2>1 DEF WaitsOnHeld
  <2>3. PICK u \in Slots : Alive(thr[u]) /\ thr[u].ctid = thr[s].wait
    BY <2>1, <2>2 DEF HeldAreOwned
  <2>4. word[thr[u].ctid] = thr[u].tid
    BY <2>1, <2>3, MemoryAssumption DEF OwnersNamed
  <2> QED
    BY <2>2, <2>3, <2>4 DEF Alive
<1> QED
  BY <1>1, Invariance, PTL

-----------------------------------------------------------------------------
(* Deadlines, for a program that gives no two waits one timespec *)

(* A wait's deadline is the one its caller laid, whatever clock it used. *)
TimesOK(T, time) ==
  \A s \in Slots :
    /\ T[s].result = "ETIMEDOUT" => T[s].due # None /\ T[s].due <= time
    /\ T[s].state = "BLOCKED" /\ T[s].deadline # None => T[s].due = T[s].deadline

AsLaid(p, L) == IF p \in RealTimespecs THEN Base + L[p] ELSE L[p]

FramesHold(T, L) ==
  \A s \in Slots : T[s].frame # None =>
    /\ T[s].frame.p \in RealTimespecs /\ L[T[s].frame.p] # None
    /\ T[s].frame.old = Base + L[T[s].frame.p]

OneFrame(T) ==
  \A s, u \in Slots :
    T[s].frame # None /\ T[u].frame # None /\ T[s].frame.p = T[u].frame.p => s = u

(* A timespec no wait has converted holds what the program laid in it. *)
RestHold(T, M, L) ==
  \A p \in Timespecs :
    L[p] # None /\ (\A s \in Slots : T[s].frame # None => T[s].frame.p # p) => M[p] = AsLaid(p, L)

Timely(T, M, L, time) ==
  TimesOK(T, time) /\ FramesHold(T, L) /\ OneFrame(T) /\ RestHold(T, M, L)

(* T2 keeps the frames of T, adds no timeout and no deadline. *)
SameWaits(T, T2) ==
  \A s \in Slots :
    /\ T2[s].frame = T[s].frame
    /\ T2[s].result # "ETIMEDOUT" \/ (T2[s].result = T[s].result /\ T2[s].due = T[s].due)
    /\ T2[s].state = "BLOCKED" /\ T2[s].deadline # None => T2[s] = T[s]

LEMMA SameWaitsKeepTimely ==
  ASSUME NEW T, NEW T2, NEW M, NEW L, NEW time, Timely(T, M, L, time), SameWaits(T, T2)
  PROVE  Timely(T2, M, L, time)
<1>1. TimesOK(T2, time)
  BY DEF Timely, TimesOK, SameWaits
<1>2. FramesHold(T2, L)
  BY DEF Timely, FramesHold, SameWaits
<1>3. OneFrame(T2)
  BY DEF Timely, OneFrame, SameWaits
<1>4. RestHold(T2, M, L)
  BY DEF Timely, RestHold, SameWaits
<1> QED
  BY <1>1, <1>2, <1>3, <1>4 DEF Timely

LEMMA ExpireTimely ==
  ASSUME NEW T, NEW M, NEW L, NEW then \in Nat, NEW time \in Nat, then <= time,
         TableOK(T), Timely(T, M, L, then)
  PROVE  Timely(Expire(T, time), M, L, time)
<1> DEFINE X == PastDeadline(T, time)
           E == Expire(T, time)
<1>1. X \subseteq {s \in Slots : T[s].state = "BLOCKED"}
  BY WokenAreBlocked
<1>2. E = EndWaits(T, X, "ETIMEDOUT")
  BY DEF Expire
<1>3. \A s \in X : T[s].state = "BLOCKED" /\ T[s].deadline # None /\ T[s].deadline <= time
  BY DEF PastDeadline
<1> HIDE DEF X, E
<1>4. \A s \in Slots \ X : E[s] = T[s]
  BY <1>1, <1>2, EndWaitsKeepsTable
<1>5. \A s \in X : /\ E[s].state = "RUNNABLE" /\ E[s].frame = T[s].frame
                   /\ E[s].due = T[s].due
  BY <1>1, <1>2, EndWaitsKeepsTable
<1>6. \A s \in Slots : T[s].due \in Nat \cup {None}
  BY DEF TableOK, Thread
<1>7. TimesOK(E, time)
  <2> SUFFICES ASSUME NEW s \in Slots
               PROVE  /\ E[s].result = "ETIMEDOUT" => E[s].due # None /\ E[s].due <= time
                      /\ E[s].state = "BLOCKED" /\ E[s].deadline # None => E[s].due = E[s].deadline
    BY DEF TimesOK
  <2>1. CASE s \in X
    BY <1>3, <1>5, <2>1 DEF Timely, TimesOK
  <2>2. CASE s \notin X
    BY <1>4, <1>6, <2>2 DEF Timely, TimesOK
  <2> QED
    BY <2>1, <2>2
<1>8. \A s \in Slots : E[s].frame = T[s].frame
  BY <1>4, <1>5
<1>9. FramesHold(E, L)
  BY <1>8 DEF Timely, FramesHold
<1>10. OneFrame(E)
  BY <1>8 DEF Timely, OneFrame
<1>11. RestHold(E, M, L)
  BY <1>8 DEF Timely, RestHold
<1>12. Timely(E, M, L, time)
  BY <1>7, <1>9, <1>10, <1>11 DEF Timely
<1> QED
  BY <1>12 DEF E

LEMMA ResumeTimely ==
  ASSUME NEW T, NEW M \in [Timespecs -> Nat], NEW C, NEW n \in Slots, NEW L, NEW time,
         TableOK(T), Timely(T, M, L, time), Resume(T, M, C, n)
  PROVE  Timely(thr', ts', L, time)
<1> DEFINE t == [T[n] EXCEPT !.state = "RUNNING", !.kctx = "ring3",
                             !.wait = None, !.frame = None]
<1>1. T[n] \in Thread
  BY DEF TableOK
<1>2. t.state = "RUNNING" /\ t.frame = None /\ t.result = T[n].result /\ t.due = T[n].due
  BY <1>1 DEF Thread
<1>3. thr' = Put(T, n, t)
  BY DEF Resume
<1> HIDE DEF t
<1>4. thr'[n] = t /\ \A s \in Slots \ {n} : thr'[s] = T[s]
  BY <1>3 DEF Put
<1>5. TimesOK(thr', time)
  BY <1>2, <1>4 DEF TimesOK, Timely
<1>6. FramesHold(thr', L)
  BY <1>2, <1>4 DEF FramesHold, Timely
<1>7. OneFrame(thr')
  BY <1>2, <1>4 DEF OneFrame, Timely
<1>8. RestHold(thr', ts', L)
  <2>1. CASE T[n].frame = None
    <3>1. ts' = M /\ \A s \in Slots : thr'[s].frame = T[s].frame
      BY <1>2, <1>4, <2>1 DEF Resume
    <3> QED
      BY <3>1 DEF RestHold, Timely
  <2>2. CASE T[n].frame # None
    <3> DEFINE q == T[n].frame.p
    <3>1. /\ q \in RealTimespecs /\ q \in Timespecs
          /\ T[n].frame.old = AsLaid(q, L)
      BY <2>2, MemoryAssumption DEF FramesHold, Timely, AsLaid
    <3>2. ts' = [M EXCEPT ![q] = T[n].frame.old]
      BY <2>2 DEF Resume
    <3> HIDE DEF q
    <3>3. ts'[q] = AsLaid(q, L) /\ \A p \in Timespecs \ {q} : ts'[p] = M[p]
      BY <3>1, <3>2
    <3> SUFFICES ASSUME NEW p \in Timespecs, L[p] # None, p # q,
                        \A s \in Slots : thr'[s].frame # None => thr'[s].frame.p # p
                 PROVE  M[p] = AsLaid(p, L)
      BY <3>3 DEF RestHold
    <3>4. \A s \in Slots : T[s].frame # None => T[s].frame.p # p
      BY <1>4 DEF q
    <3> QED
      BY <3>4 DEF RestHold, Timely
  <2> QED
    BY <2>1, <2>2
<1> QED
  BY <1>5, <1>6, <1>7, <1>8 DEF Timely

LEMMA DispatchTimely ==
  ASSUME NEW T, NEW M \in [Timespecs -> Nat], NEW C, NEW L, NEW time, cur \in Slots,
         TableOK(T), Timely(T, M, L, time), Dispatch(T, M, C)
  PROVE  Timely(thr', ts', L, time)
<1>1. CASE T[cur].state = "RUNNABLE" /\ Resume(T, M, C, cur)
  BY <1>1, ResumeTimely
<1>2. CASE T[cur].state # "RUNNABLE" /\ Runnable(T) # {} /\ Resume(T, M, C, PickNext(T, cur))
  <2>1. PickNext(T, cur) \in Slots
    BY <1>2, PickNextIsRunnable DEF Runnable
  <2> QED
    BY <1>2, <2>1, ResumeTimely
<1>3. CASE Runnable(T) = {} /\ thr' = T /\ ts' = M /\ counted' = C /\ UNCHANGED cur
  BY <1>3
<1> QED
  BY <1>1, <1>2, <1>3 DEF Dispatch

TimelyNow == Timely(thr, ts, laid, now)

LEMMA TickTimely ==
  ASSUME IInv, TimelyNow, Tick
  PROVE  TimelyNow'
<1> DEFINE T == Expire(thr, NextTick)
           t == [T[cur] EXCEPT !.state = "RUNNABLE", !.kctx = "timer"]
<1>1. now \in Nat /\ NextTick \in Nat /\ now <= NextTick /\ now' = NextTick /\ laid' = laid
  BY TimeAssumption DEF Tick, NextTick, IInv
<1>2. TableOK(T) /\ TableOK(thr)
  BY ExpireKeeps DEF IInv, Bundle
<1>3. Timely(T, ts, laid, now')
  BY <1>1, <1>2, ExpireTimely DEF TimelyNow
<1>4. T[cur] \in Thread /\ cur \in Slots /\ ts \in [Timespecs -> Nat]
  BY <1>2 DEF TableOK, IInv
<1>5. \/ /\ InRing3 /\ Runnable(T) # {}
         /\ Resume(Put(T, cur, t), ts, counted, PickNext(T, cur))
      \/ InRing3 /\ Runnable(T) = {} /\ thr' = T /\ UNCHANGED <<cur, ts, counted>>
      \/ ~InRing3 /\ Dispatch(T, ts, counted)
  BY DEF Tick
<1>6. \A s \in Slots : T[s].state = "RUNNING" <=> thr[s].state = "RUNNING"
  BY ExpireKeeps DEF IInv
<1> HIDE DEF T
<1>7. CASE /\ InRing3 /\ Runnable(T) # {}
           /\ Resume(Put(T, cur, t), ts, counted, PickNext(T, cur))
  <2>1. T[cur].state = "RUNNING" /\ Placed(T[cur])
    BY <1>2, <1>4, <1>6, <1>7 DEF InRing3, TableOK
  <2>2. /\ t \in Thread /\ t.state = "RUNNABLE" /\ t.kctx = "timer" /\ t.frame = T[cur].frame
        /\ t.result = T[cur].result /\ t.due = T[cur].due
    BY <1>4 DEF Thread
  <2> HIDE DEF t
  <2>3. Placed(t)
    BY <2>1, <2>2 DEF Placed
  <2>4. /\ TableOK(Put(T, cur, t)) /\ Put(T, cur, t)[cur] = t
        /\ \A s \in Slots \ {cur} : Put(T, cur, t)[s] = T[s]
    BY <1>2, <1>4, <2>2, <2>3, PutIn
  <2>5. SameWaits(T, Put(T, cur, t))
    BY <2>2, <2>4 DEF SameWaits
  <2>6. Timely(Put(T, cur, t), ts, laid, now')
    BY <1>3, <2>5, SameWaitsKeepTimely
  <2>7. PickNext(T, cur) \in Slots
    BY <1>4, <1>7, PickNextIsRunnable DEF Runnable
  <2>8. Timely(thr', ts', laid, now')
    BY <1>4, <1>7, <2>4, <2>6, <2>7, ResumeTimely
  <2> QED
    BY <1>1, <2>8 DEF TimelyNow
<1>8. CASE InRing3 /\ Runnable(T) = {} /\ thr' = T /\ UNCHANGED <<cur, ts, counted>>
  BY <1>1, <1>3, <1>8 DEF TimelyNow
<1>9. CASE ~InRing3 /\ Dispatch(T, ts, counted)
  <2>1. Timely(thr', ts', laid, now')
    BY <1>2, <1>3, <1>4, <1>9, DispatchTimely
  <2> QED
    BY <1>1, <2>1 DEF TimelyNow
<1> QED
  BY <1>5, <1>7, <1>8, <1>9

LEMMA Clone3Timely ==
  ASSUME IInv, TimelyNow, NEW c \in TidWords, Clone3(c)
  PROVE  TimelyNow'
<1> DEFINE v == CHOOSE v \in Vacant : \A r \in Vacant : v <= r
           t == [state |-> "RUNNABLE", tid |-> nextTid, ctid |-> c,
                 wait |-> None, deadline |-> None, result |-> "woken",
                 kctx |-> "new", frame |-> None, due |-> None]
<1>1. v \in Vacant
  BY VacantHasLeast DEF Clone3
<1>2. thr' = Put(thr, v, t) /\ UNCHANGED <<now, ts, laid>>
  BY DEF Clone3
<1>3. t.state = "RUNNABLE" /\ t.result = "woken" /\ t.frame = None
  OBVIOUS
<1> HIDE DEF v, t
<1>4. v \in Slots /\ thr[v].frame = None
  BY <1>1 DEF Vacant, IInv, Bundle, TableOK, Placed
<1>5. thr'[v] = t /\ \A s \in Slots \ {v} : thr'[s] = thr[s]
  BY <1>2, <1>4 DEF Put
<1>6. SameWaits(thr, thr')
  BY <1>3, <1>4, <1>5 DEF SameWaits
<1> QED
  BY <1>2, <1>6, SameWaitsKeepTimely DEF TimelyNow

LEMMA FutexWakeTimely ==
  ASSUME IInv, TimelyNow, NEW w, NEW nr, FutexWake(w, nr)
  PROVE  TimelyNow'
<1> DEFINE X == FirstWaiters(thr, w, nr)
<1>1. X \subseteq {s \in Slots : thr[s].state = "BLOCKED"}
  BY WokenAreBlocked
<1>2. thr' = EndWaits(thr, X, "woken") /\ UNCHANGED <<now, ts, laid>>
  BY DEF FutexWake, Wake
<1> HIDE DEF X
<1>3. TableOK(thr)
  BY DEF IInv, Bundle
<1>4. \A s \in Slots \ X : thr'[s] = thr[s]
  BY <1>1, <1>2, <1>3, EndWaitsKeepsTable
<1>5. \A s \in X : /\ thr'[s].state = "RUNNABLE" /\ thr'[s].result = "woken"
                   /\ thr'[s].frame = thr[s].frame
  BY <1>1, <1>2, <1>3, EndWaitsKeepsTable
<1>6. SameWaits(thr, thr')
  BY <1>4, <1>5 DEF SameWaits
<1> QED
  BY <1>2, <1>6, SameWaitsKeepTimely DEF TimelyNow

(* The thread blocks: L and M are the deadlines laid and the timespecs as  *)
(* the call has left them, and due is the deadline handed over.            *)
LEMMA BlockTimely ==
  ASSUME IInv, TimelyNow, InRing3, NEW w \in Words, NEW dl \in Nat \cup {None},
         NEW fr \in [p : Timespecs, old : Nat] \cup {None}, NEW due \in Nat \cup {None},
         NEW M \in [Timespecs -> Nat], NEW L, Block(w, dl, fr, due, M),
         dl # None => due = dl,
         FramesHold(thr, L), RestHold(thr, M, L) \/ fr # None,
         fr # None => /\ ~InUse(fr.p)
                      /\ fr.p \in RealTimespecs /\ L[fr.p] # None /\ fr.old = AsLaid(fr.p, L)
                      /\ \A q \in Timespecs \ {fr.p} : L[q] = laid[q] /\ M[q] = ts[q]
  PROVE  Timely(thr', ts', L, now)
<1> DEFINE t == [thr[cur] EXCEPT !.state = "BLOCKED", !.kctx = "futex", !.wait = w,
                                 !.deadline = dl, !.result = "woken",
                                 !.frame = fr, !.due = due]
           P == Put(thr, cur, t)
<1>1. Dispatch(Expire(P, now), M, counted)
  BY DEF Block
<1>2. /\ cur \in Slots /\ thr[cur] \in Thread /\ TableOK(thr) /\ thr[cur].state = "RUNNING"
      /\ now \in Nat
  BY DEF IInv, Bundle, TableOK, InRing3
<1>3. /\ t \in Thread /\ t.state = "BLOCKED" /\ t.kctx = "futex" /\ t.wait = w
      /\ t.deadline = dl /\ t.result = "woken" /\ t.frame = fr /\ t.due = due
  BY <1>2 DEF Thread
<1> HIDE DEF t
<1>4. Placed(t)
  BY <1>3, MemoryAssumption DEF Placed, Words
<1>5. TableOK(P) /\ P[cur] = t /\ \A s \in Slots \ {cur} : P[s] = thr[s]
  BY <1>2, <1>3, <1>4, PutIn
<1>6. thr[cur].frame = None
  BY <1>2 DEF TableOK, Placed
<1>7. fr # None => \A s \in Slots : thr[s].frame # None => thr[s].frame.p # fr.p
  BY <1>2 DEF InUse, TableOK, Placed
<1> HIDE DEF P
<1>8. TimesOK(P, now)
  BY <1>3, <1>5 DEF TimelyNow, Timely, TimesOK
<1>9. FramesHold(P, L)
  BY <1>3, <1>5 DEF FramesHold, AsLaid
<1>10. OneFrame(P)
  BY <1>3, <1>5, <1>7 DEF TimelyNow, Timely, OneFrame
<1>11. RestHold(P, M, L)
  <2>1. CASE fr = None
    <3>1. \A s \in Slots : P[s].frame = thr[s].frame
      BY <1>3, <1>5, <1>6, <2>1
    <3> QED
      BY <2>1, <3>1 DEF RestHold
  <2>2. CASE fr # None
    <3> SUFFICES ASSUME NEW q \in Timespecs, L[q] # None,
                        \A s \in Slots : P[s].frame # None => P[s].frame.p # q
                 PROVE  M[q] = AsLaid(q, L)
      BY DEF RestHold
    <3>1. q # fr.p
      BY <1>2, <1>3, <1>5, <2>2
    <3>2. \A s \in Slots : thr[s].frame # None => thr[s].frame.p # q
      BY <1>5, <1>6
    <3>3. ts[q] = AsLaid(q, laid)
      BY <2>2, <3>1, <3>2 DEF TimelyNow, Timely, RestHold
    <3> QED
      BY <2>2, <3>1, <3>3 DEF AsLaid
  <2> QED
    BY <2>1, <2>2
<1>12. Timely(P, M, L, now)
  BY <1>8, <1>9, <1>10, <1>11 DEF Timely
<1>13. Timely(Expire(P, now), M, L, now)
  BY <1>2, <1>5, <1>12, ExpireTimely
<1>14. TableOK(Expire(P, now))
  <2>1. PastDeadline(P, now) \subseteq {s \in Slots : P[s].state = "BLOCKED"}
    BY WokenAreBlocked
  <2> QED
    BY <1>5, <2>1, EndWaitsKeepsTable DEF Expire
<1> QED
  BY <1>1, <1>2, <1>13, <1>14, DispatchTimely

LEMMA FutexWaitTimely ==
  ASSUME IInv, TimelyNow, NEW w \in Words, FutexWait(w)
  PROVE  TimelyNow'
<1>1. InRing3 /\ Block(w, None, None, None, ts) /\ UNCHANGED <<now, laid>>
  BY DEF FutexWait
<1>2. ts \in [Timespecs -> Nat] /\ FramesHold(thr, laid) /\ RestHold(thr, ts, laid)
  BY DEF IInv, TimelyNow, Timely
<1>3. Timely(thr', ts', laid, now)
  BY <1>1, <1>2, BlockTimely
<1> QED
  BY <1>1, <1>3 DEF TimelyNow

LEMMA TimedWaitTimely ==
  ASSUME MayShare = FALSE, IInv, TimelyNow,
         NEW w \in Words, NEW p \in Timespecs, NEW fresh \in BOOLEAN, NEW d \in Delays,
         TimedWait(w, p, fresh, d)
  PROVE  TimelyNow'
<1> DEFINE due   == TheDue(p, fresh, d)
           given == TheGiven(p, fresh, d)
           L     == [laid EXCEPT ![p] = due]
<1>1. due \in Nat /\ given \in Nat /\ FromEpoch(given) \in Nat
  BY TimedWaitHands
<1>2. InRing3 /\ ~InUse(p) /\ UNCHANGED now /\ (~fresh => laid[p] # None)
  BY DEF TimedWait
<1>3. laid' = L
  BY DEF TimedWait, TheDue
<1>4. /\ p \in RealTimespecs => Block(w, FromEpoch(given), [p |-> p, old |-> given], due,
                                      [ts EXCEPT ![p] = FromEpoch(given)])
      /\ p \notin RealTimespecs => Block(w, given, None, due, [ts EXCEPT ![p] = given])
  BY TimedWaitHands
<1>5. \A s \in Slots : thr[s].frame # None => thr[s].frame.p # p
  BY <1>2 DEF InUse, IInv, Bundle, TableOK, Placed
<1>6. given = IF p \in RealTimespecs THEN Base + due ELSE due
  BY <1>2, <1>5 DEF TheDue, TheGiven, TimelyNow, Timely, RestHold, AsLaid
<1> HIDE DEF due, given
<1>7. p \in RealTimespecs => FromEpoch(given) = due
  BY <1>1, <1>6, TimeAssumption DEF FromEpoch
<1>8. L[p] = due /\ \A q \in Timespecs \ {p} : L[q] = laid[q]
  BY DEF IInv
<1> HIDE DEF L
<1>9. FramesHold(thr, L)
  <2>1. RealTimespecs \subseteq Timespecs
    BY MemoryAssumption
  <2> QED
    BY <1>5, <1>8, <2>1 DEF TimelyNow, Timely, FramesHold
<1>10. due # None /\ None \notin Nat
  BY <1>1, MemoryAssumption
<1>11. AsLaid(p, L) = given
  BY <1>6, <1>8 DEF AsLaid
<1>12. Timely(thr', ts', L, now)
  <2>1. CASE p \in RealTimespecs
    <3> DEFINE M  == [ts EXCEPT ![p] = FromEpoch(given)]
               fr == [p |-> p, old |-> given]
    <3>1. M \in [Timespecs -> Nat] /\ \A q \in Timespecs \ {p} : M[q] = ts[q]
      BY <1>1 DEF IInv
    <3>2. fr \in [p : Timespecs, old : Nat] /\ fr.p = p /\ fr.old = given
      BY <1>1
    <3>3. Block(w, FromEpoch(given), fr, due, M)
      BY <1>4, <2>1
    <3> HIDE DEF M, fr
    <3>4. fr # None
      BY <3>2, MemoryAssumption
    <3>5. /\ ~InUse(fr.p) /\ fr.p \in RealTimespecs /\ L[fr.p] # None
          /\ fr.old = AsLaid(fr.p, L)
          /\ \A q \in Timespecs \ {fr.p} : L[q] = laid[q] /\ M[q] = ts[q]
      BY <1>2, <1>8, <1>10, <1>11, <2>1, <3>1, <3>2
    <3> QED
      BY <1>1, <1>2, <1>7, <1>9, <2>1, <3>1, <3>2, <3>3, <3>4, <3>5, BlockTimely
  <2>2. CASE p \notin RealTimespecs
    <3> DEFINE M == [ts EXCEPT ![p] = given]
    <3>1. /\ M \in [Timespecs -> Nat] /\ M[p] = given
          /\ \A q \in Timespecs \ {p} : M[q] = ts[q]
      BY <1>1 DEF IInv
    <3>2. Block(w, given, None, due, M)
      BY <1>4, <2>2
    <3> HIDE DEF M
    <3>3. RestHold(thr, M, L)
      <4> SUFFICES ASSUME NEW q \in Timespecs, L[q] # None,
                          \A s \in Slots : thr[s].frame # None => thr[s].frame.p # q
                   PROVE  M[q] = AsLaid(q, L)
        BY DEF RestHold
      <4>1. CASE q = p
        BY <1>11, <3>1, <4>1
      <4>2. CASE q # p
        BY <1>8, <3>1, <4>2 DEF TimelyNow, Timely, RestHold, AsLaid
      <4> QED
        BY <4>1, <4>2
    <3>4. due = given
      BY <1>6, <2>2
    <3> QED
      BY <1>1, <1>2, <1>9, <3>1, <3>2, <3>3, <3>4, BlockTimely
  <2> QED
    BY <2>1, <2>2
<1> QED
  BY <1>2, <1>3, <1>12 DEF TimelyNow

LEMMA ThreadExitTimely ==
  ASSUME IInv, TimelyNow, ThreadExit
  PROVE  TimelyNow'
<1> DEFINE c == thr[cur].ctid
           X == IF c = None THEN {} ELSE FirstWaiters(thr, c, 1)
           T == IF c = None THEN thr ELSE Wake(thr, c, 1)
           t == [T[cur] EXCEPT !.state = "ZOMBIE", !.kctx = "exit"]
           P == Put(T, cur, t)
<1>1. InRing3 /\ UNCHANGED <<now, laid>> /\ Dispatch(P, ts, counted \cup X)
  BY DEF ThreadExit
<1>2. /\ cur \in Slots /\ thr[cur] \in Thread /\ TableOK(thr) /\ thr[cur].state = "RUNNING"
      /\ Placed(thr[cur]) /\ ts \in [Timespecs -> Nat]
  BY <1>1 DEF IInv, Bundle, TableOK, InRing3
<1>3. X \subseteq {s \in Slots : thr[s].state = "BLOCKED"}
  BY WokenAreBlocked
<1>4. T = EndWaits(thr, X, "woken")
  <2>1. CASE c # None
    BY <2>1 DEF Wake
  <2>2. CASE c = None
    BY <2>2, <1>2 DEF EndWaits, TableOK
  <2> QED
    BY <2>1, <2>2
<1> HIDE DEF X, T
<1>5. TableOK(T) /\ \A s \in Slots \ X : T[s] = thr[s]
  BY <1>2, <1>3, <1>4, EndWaitsKeepsTable
<1>6. \A s \in X : /\ T[s].state = "RUNNABLE" /\ T[s].result = "woken"
                   /\ T[s].frame = thr[s].frame
  BY <1>2, <1>3, <1>4, EndWaitsKeepsTable
<1>7. T[cur] = thr[cur] /\ cur \notin X
  BY <1>2, <1>3, <1>5
<1>8. /\ t \in Thread /\ t.state = "ZOMBIE" /\ t.kctx = "exit" /\ t.frame = thr[cur].frame
      /\ t.result = thr[cur].result /\ t.due = thr[cur].due
  BY <1>2, <1>7 DEF Thread
<1> HIDE DEF t
<1>9. Placed(t)
  BY <1>2, <1>8 DEF Placed
<1>10. TableOK(P) /\ P[cur] = t /\ \A s \in Slots \ {cur} : P[s] = T[s]
  BY <1>2, <1>5, <1>8, <1>9, PutIn
<1> HIDE DEF P
<1>11. SameWaits(thr, P)
  BY <1>5, <1>6, <1>8, <1>10 DEF SameWaits
<1>12. Timely(P, ts, laid, now)
  BY <1>11, SameWaitsKeepTimely DEF TimelyNow
<1>13. Timely(thr', ts', laid, now)
  BY <1>1, <1>2, <1>10, <1>12, DispatchTimely
<1> QED
  BY <1>1, <1>13 DEF TimelyNow

(* A timed wait answers ETIMEDOUT only once the deadline its caller laid   *)
(* has passed (sched_expire_deadlines, and the conversion in place of      *)
(* serve_request), as long as no two waits are given one timespec.         *)
THEOREM NoEarlyTimeout ==
  ASSUME MayShare = FALSE
  PROVE  Spec => []TimesOutOnItsDeadline
<1>1. Init => TimelyNow
  <2> SUFFICES ASSUME Init PROVE TimelyNow
    OBVIOUS
  <2>1. \A s \in Slots : /\ thr[s].result = "woken" /\ thr[s].frame = None
                         /\ thr[s].deadline = None
    BY DEF Init, FreeSlot
  <2>2. \A p \in Timespecs : laid[p] = None
    BY DEF Init
  <2> QED
    BY <2>1, <2>2 DEF TimelyNow, Timely, TimesOK, FramesHold, OneFrame, RestHold
<1>2. TimelyNow /\ IInv /\ [Next]_vars => TimelyNow'
  <2> SUFFICES ASSUME IInv, TimelyNow, [Next]_vars PROVE TimelyNow'
    OBVIOUS
  <2>1. CASE Tick
    BY <2>1, TickTimely
  <2>2. ASSUME NEW c \in TidWords, Clone3(c) PROVE TimelyNow'
    BY <2>2, Clone3Timely
  <2>3. ASSUME NEW w \in Words, NEW nr \in {1, NSlots}, FutexWake(w, nr) PROVE TimelyNow'
    BY <2>3, FutexWakeTimely
  <2>4. ASSUME NEW w \in Words, FutexWait(w) PROVE TimelyNow'
    BY <2>4, FutexWaitTimely
  <2>5. ASSUME NEW w \in Words, NEW p \in Timespecs, NEW fresh \in BOOLEAN, NEW d \in Delays,
               TimedWait(w, p, fresh, d)
        PROVE  TimelyNow'
    BY <2>5, TimedWaitTimely
  <2>6. CASE ThreadExit
    BY <2>6, ThreadExitTimely
  <2>7. CASE UNCHANGED vars
    BY <2>7 DEF vars, TimelyNow
  <2> QED
    BY <2>1, <2>2, <2>3, <2>4, <2>5, <2>6, <2>7 DEF Next
<1>3. TimelyNow => TimesOutOnItsDeadline
  BY DEF TimelyNow, Timely, TimesOK, TimesOutOnItsDeadline
<1> QED
  BY <1>1, <1>2, <1>3, Invariance, PTL DEF Spec

(***************************************************************************)
(* The body's disk (Disk.tla), for any table, sector and record size.  The *)
(* invariant is of the mounted table r, the disk's d and what remains of   *)
(* the plan under way: whatever may yet be the entry of one slot is clear  *)
(* of whatever may yet be another's, and an entry above the disk's         *)
(* next_free has a superblock step before it, or right after it and last.  *)
(* Once a failure was not heeded the disk's table says nothing, but the    *)
(* mounted one alone is still sound, with itself for d.                    *)
(***************************************************************************)
CONSTANTS Names, Locks, Entries, PerDir, Total, PerSector, Lengths, FixedRecord, RecCap,
          MaxActs, MaxCrashes, MaxUnheeded
VARIABLES ram, disk, firm, op, said, unheeded, exposed, acts, crashes

Body == INSTANCE Disk WITH Slots <- Entries

Rows == 0 .. Entries - 1

DirEntry ==
  [present : BOOLEAN, name : Names \cup {FixedRecord, None},
   type : {"free", "record", "nrec", "durable", "blob"}, start : Nat, len : Nat, cap : Nat]

(* The table has a slot, and None is no act. *)
Platters ==
  /\ Entries \in Nat \ {0} /\ PerSector \in Nat \ {0} /\ RecCap \in Nat
  /\ Lengths \subseteq Nat
  /\ \A p, a, b : None # [plan |-> p, at |-> a, bytes |-> b]

Remaining == IF op = None THEN << >> ELSE op.plan

IsRecord(e) == e.present /\ e.name = FixedRecord /\ e.type = "record"

(* A plan: steps of three kinds, at most one of the superblock; the fixed  *)
(* record's entry stays its.                                               *)
IsStep(x) ==
  /\ x.kind \in {"data", "super", "dir"}
  /\ x.kind # "data" => /\ x.slot \in Rows /\ x.entry \in DirEntry
                        /\ x.slot = 0 => IsRecord(x.entry)
  /\ x.kind = "super" => x.next \in Nat

IsPlan(P) ==
  /\ \E S : P \in Seq(S)
  /\ \A k \in 1..Len(P) : IsStep(P[k])
  /\ \A k, l \in 1..Len(P) : P[k].kind = "super" /\ P[l].kind = "super" => k = l

(* r is the mounted table, d the disk's. *)
Tables(r, d) ==
  /\ r.dir \in [Rows -> DirEntry] /\ d.dir \in [Rows -> DirEntry]
  /\ r.next \in Nat /\ d.next \in Nat
  /\ IsRecord(r.dir[0]) /\ IsRecord(d.dir[0])

End(e) == e.start + e.cap
Clear(a, b) ==
  a.present /\ b.present /\ a.cap > 0 /\ b.cap > 0 => End(a) <= b.start \/ End(b) <= a.start
Below(e, n) == e.present /\ e.cap > 0 => End(e) <= n

(* Whatever may yet be the entry of slot i. *)
IsClaim(r, d, P, i, e) ==
  \/ e = r.dir[i] \/ e = d.dir[i]
  \/ \E k \in 1..Len(P) : P[k].kind # "data" /\ P[k].slot = i /\ e = P[k].entry

(* A step up to the k-th carries the allocator past e; the step after the  *)
(* k-th is the last and does.                                              *)
Covered(P, k, e) == \E l \in 1..k : P[l].kind = "super" /\ Below(e, P[l].next)
ToBeCovered(P, k, e) ==
  k + 1 = Len(P) /\ P[k + 1].kind = "super" /\ Below(e, P[k + 1].next)

Apart(r, d, P) ==
  \A i, j \in Rows : i # j =>
    \A a, b \in DirEntry : IsClaim(r, d, P, i, a) /\ IsClaim(r, d, P, j, b) => Clear(a, b)

Allotted(r, d, P) ==
  /\ d.next <= r.next
  /\ \A i \in Rows : /\ Below(r.dir[i], r.next)
                     /\ Below(r.dir[i], d.next) \/ ToBeCovered(P, 0, r.dir[i])
                     /\ Below(d.dir[i], d.next) \/ ToBeCovered(P, 0, d.dir[i])
  /\ \A k \in 1..Len(P) : P[k].kind # "data" =>
       /\ Below(P[k].entry, r.next) \/ Covered(P, k, P[k].entry)
       /\ Below(P[k].entry, d.next) \/ Covered(P, k, P[k].entry) \/ ToBeCovered(P, k, P[k].entry)
       /\ P[k].kind = "super" => P[k].next >= r.next

Clean(r, d, P) == Apart(r, d, P) /\ Allotted(r, d, P)

Sound ==
  /\ op # None => op = [plan |-> op.plan, at |-> op.at, bytes |-> op.bytes]
  /\ ram = [dir |-> ram.dir, next |-> ram.next]
  /\ disk = [dir |-> disk.dir, next |-> disk.next, sec |-> disk.sec]
  /\ exposed \in BOOLEAN /\ unheeded \in Nat
  /\ IsPlan(Remaining) /\ Tables(ram, disk) /\ Tables(ram, firm)
  /\ ~exposed => Clean(ram, ram, Remaining)
  /\ ~exposed /\ unheeded = 0 =>
       Clean(ram, disk, Remaining) /\ firm.dir = disk.dir /\ firm.next = disk.next

LEMMA MountedAlone ==
  ASSUME NEW r, NEW d, NEW x, NEW P, Tables(r, d), Clean(r, d, P), x.dir = r.dir, x.next = r.next
  PROVE  Clean(r, x, P)
<1>1. Apart(r, x, P)
  BY DEF Clean, Apart, IsClaim
<1>2. Allotted(r, x, P)
  BY DEF Clean, Allotted, Tables
<1> QED BY <1>1, <1>2 DEF Clean

(* Nothing more of the disk than o has. *)
Kin(e, o) == ~e.present \/ e.cap = 0 \/ (o.present /\ e.start = o.start /\ e.cap = o.cap)

(* Sectors from the allocator's next, or the last file's and more. *)
Fresh(r, f, e) ==
  \/ e.start >= r.next
  \/ /\ r.dir[f].present /\ e.start = r.dir[f].start /\ r.dir[f].cap <= e.cap
     /\ End(r.dir[f]) = r.next

(* A plan for the table r, the allocator to stand at n while it runs.      *)
Proposes(r, d, n, f, P) ==
  \A k \in 1..Len(P) : P[k].kind # "data" =>
    /\ \/ Kin(P[k].entry, r.dir[P[k].slot])
       \/ /\ P[k].slot = f /\ Fresh(r, f, P[k].entry)
          /\ Below(P[k].entry, n) \/ Covered(P, k, P[k].entry)
          /\ Covered(P, k, P[k].entry) \/ ToBeCovered(P, k, P[k].entry)
    /\ P[k].kind = "super" => P[k].next >= n

LEMMA StartIsSound ==
  ASSUME Platters, NEW r, NEW d, NEW r2, NEW d2, NEW f \in Rows, NEW P,
         Tables(r, d), Apart(r, d, << >>), Allotted(r, d, << >>),
         Tables(r2, d2), IsPlan(P), r2.next >= r.next, d2.next = d.next,
         \A i \in Rows : Kin(r2.dir[i], r.dir[i]),
         \A i \in Rows : Kin(d2.dir[i], r.dir[i]) \/ d2.dir[i] = d.dir[i],
         Proposes(r, d, r2.next, f, P)
  PROVE  Apart(r2, d2, P) /\ Allotted(r2, d2, P)
<1>1. \A i \in Rows : /\ r.dir[i] \in DirEntry /\ d.dir[i] \in DirEntry
                      /\ r2.dir[i] \in DirEntry /\ d2.dir[i] \in DirEntry
  BY DEF Tables
<1>2. r.next \in Nat /\ d.next \in Nat /\ r2.next \in Nat /\ d.next <= r.next
  BY DEF Tables, Allotted
<1>3. \A i \in Rows : Below(r.dir[i], d.next) /\ Below(d.dir[i], d.next)
  BY DEF Allotted, ToBeCovered
<1>4. \A i \in Rows, e \in DirEntry : Kin(e, r.dir[i]) =>
        Below(e, d.next) /\ Below(e, r2.next)
  BY <1>1, <1>2, <1>3 DEF Kin, Below, End, DirEntry
<1>5. \A i, j \in Rows : i # j =>
        /\ Clear(r.dir[i], r.dir[j]) /\ Clear(r.dir[i], d.dir[j])
        /\ Clear(d.dir[i], r.dir[j]) /\ Clear(d.dir[i], d.dir[j])
  BY <1>1 DEF Apart, IsClaim
<1>12. \A a, b, c \in DirEntry : Kin(a, c) /\ Clear(c, b) => Clear(a, b)
  BY DEF Kin, Clear, End, DirEntry
<1>13. \A a, b, c \in DirEntry : Kin(b, c) /\ Clear(a, c) => Clear(a, b)
  BY DEF Kin, Clear, End, DirEntry
(* Every claim is kin, a disk's entry, or fresh in f. *)
<1>6. \A k \in 1..Len(P) : P[k].kind # "data" => P[k].slot \in Rows /\ P[k].entry \in DirEntry
  BY DEF IsPlan, IsStep
<1>7. \A i \in Rows : \A e \in DirEntry : IsClaim(r2, d2, P, i, e) =>
        Kin(e, r.dir[i]) \/ e = d.dir[i] \/ (i = f /\ Fresh(r, f, e))
  BY DEF IsClaim, Proposes
<1>8. \A i, j \in Rows, a, b \in DirEntry :
        /\ i # j
        /\ Kin(a, r.dir[i]) \/ a = d.dir[i]
        /\ Kin(b, r.dir[j]) \/ b = d.dir[j]
        => Clear(a, b)
  BY <1>1, <1>5, <1>12, <1>13
<1>9. \A j \in Rows, a, b \in DirEntry :
        /\ j # f /\ Fresh(r, f, a)
        /\ Kin(b, r.dir[j]) \/ b = d.dir[j]
        => Clear(a, b) /\ Clear(b, a)
  <2> SUFFICES ASSUME NEW j \in Rows, NEW a \in DirEntry, NEW b \in DirEntry,
                      j # f, Fresh(r, f, a), Kin(b, r.dir[j]) \/ b = d.dir[j],
                      a.present, b.present, a.cap > 0, b.cap > 0
               PROVE  End(b) <= a.start
    BY DEF Clear
  <2>1. End(b) <= r.next
    <3>1. Below(b, d.next)
      BY <1>3, <1>4
    <3> QED BY <1>2, <3>1 DEF Below, End, DirEntry
  <2>2. CASE a.start >= r.next
    BY <1>2, <2>1, <2>2 DEF End, DirEntry
  <2>3. CASE /\ r.dir[f].present /\ a.start = r.dir[f].start /\ r.dir[f].cap <= a.cap
             /\ End(r.dir[f]) = r.next
    <3>1. CASE r.dir[f].cap = 0
      BY <1>1, <1>2, <2>1, <2>3, <3>1 DEF End, DirEntry
    <3>2. CASE r.dir[f].cap > 0
      <4>1. Clear(r.dir[f], b)
        BY <1>1, <1>5, <1>13
      <4> QED BY <1>1, <1>2, <2>1, <2>3, <3>2, <4>1 DEF Clear, End, DirEntry
    <3> QED BY <1>1, <3>1, <3>2 DEF DirEntry
  <2> QED BY <2>2, <2>3 DEF Fresh
<1>10. Apart(r2, d2, P)
  BY <1>7, <1>8, <1>9 DEF Apart
<1>11. Allotted(r2, d2, P)
  <2>1. d2.next <= r2.next
    BY <1>2
  <2>2. \A i \in Rows : Below(r2.dir[i], r2.next) /\ Below(r2.dir[i], d2.next) /\ Below(d2.dir[i], d2.next)
    BY <1>1, <1>3, <1>4
  <2>3. ASSUME NEW k \in 1..Len(P), P[k].kind # "data"
        PROVE  /\ Below(P[k].entry, r2.next) \/ Covered(P, k, P[k].entry)
               /\ \/ Below(P[k].entry, d2.next) \/ Covered(P, k, P[k].entry)
                  \/ ToBeCovered(P, k, P[k].entry)
               /\ P[k].kind = "super" => P[k].next >= r2.next
    BY <1>4, <1>6, <2>3 DEF Proposes
  <2> QED BY <2>1, <2>2, <2>3 DEF Allotted
<1> QED BY <1>10, <1>11

(* The steps of a plan, as the body performs them. *)
LEMMA RestOfPlan ==
  ASSUME NEW P, IsPlan(P), P # << >>
  PROVE  /\ Head(P) = P[1] /\ 1 \in 1..Len(P) /\ Len(P) \in Nat
         /\ Len(Tail(P)) = Len(P) - 1
         /\ \A k \in 1..Len(Tail(P)) : Tail(P)[k] = P[k + 1] /\ k + 1 \in 1..Len(P)
         /\ IsPlan(Tail(P))
         /\ P[1].kind = "super" => \A k \in 1..Len(Tail(P)) : Tail(P)[k].kind # "super"
<1>1. PICK S : P \in Seq(S)
  BY DEF IsPlan
<1>2. /\ Head(P) = P[1] /\ 1 \in 1..Len(P) /\ Len(P) \in Nat
      /\ Tail(P) \in Seq(S) /\ Len(Tail(P)) = Len(P) - 1
      /\ \A k \in 1..Len(Tail(P)) : Tail(P)[k] = P[k + 1] /\ k + 1 \in 1..Len(P)
  BY <1>1, HeadTailProperties, LenProperties, EmptySeq
<1>3. \A k \in 1..Len(Tail(P)) : IsStep(Tail(P)[k])
  BY <1>2 DEF IsPlan
<1>4. \A k, l \in 1..Len(Tail(P)) :
        Tail(P)[k].kind = "super" /\ Tail(P)[l].kind = "super" => k = l
  <2> SUFFICES ASSUME NEW k \in 1..Len(Tail(P)), NEW l \in 1..Len(Tail(P)),
                      Tail(P)[k].kind = "super", Tail(P)[l].kind = "super"
               PROVE  k = l
    OBVIOUS
  <2>1. k + 1 = l + 1
    BY <1>2 DEF IsPlan
  <2> QED BY <1>2, <2>1
<1>5. P[1].kind = "super" => \A k \in 1..Len(Tail(P)) : Tail(P)[k].kind # "super"
  <2> SUFFICES ASSUME P[1].kind = "super", NEW k \in 1..Len(Tail(P)), Tail(P)[k].kind = "super"
               PROVE  FALSE
    OBVIOUS
  <2>1. k + 1 = 1
    BY <1>2 DEF IsPlan
  <2> QED BY <1>2, <2>1
<1> QED BY <1>2, <1>3, <1>4, <1>5 DEF IsPlan

LEMMA RestIsCovered ==
  ASSUME NEW P, IsPlan(P), P # << >>, NEW e, NEW k \in 0..Len(Tail(P))
  PROVE  /\ Covered(P, k + 1, e) => Covered(Tail(P), k, e)
                                    \/ (P[1].kind = "super" /\ Below(e, P[1].next))
         /\ ToBeCovered(P, k + 1, e) => ToBeCovered(Tail(P), k, e)
<1>1. /\ 1 \in 1..Len(P) /\ Len(P) \in Nat /\ Len(Tail(P)) = Len(P) - 1
      /\ \A l \in 1..Len(Tail(P)) : Tail(P)[l] = P[l + 1] /\ l + 1 \in 1..Len(P)
  BY RestOfPlan
<1>2. Covered(P, k + 1, e) => Covered(Tail(P), k, e) \/ (P[1].kind = "super" /\ Below(e, P[1].next))
  <2> SUFFICES ASSUME NEW l \in 1..(k + 1), P[l].kind = "super", Below(e, P[l].next), l # 1
               PROVE  Covered(Tail(P), k, e)
    BY DEF Covered
  <2>1. PICK m \in 1..k : m = l - 1
    BY <1>1
  <2>2. Tail(P)[m] = P[l]
    BY <1>1, <2>1
  <2> QED BY <2>2 DEF Covered
<1>3. ToBeCovered(P, k + 1, e) => ToBeCovered(Tail(P), k, e)
  <2> SUFFICES ASSUME ToBeCovered(P, k + 1, e) PROVE ToBeCovered(Tail(P), k, e)
    OBVIOUS
  <2>1. k + 1 = Len(Tail(P)) /\ Tail(P)[k + 1] = P[k + 2] /\ k + 1 + 1 = k + 2
    BY <1>1 DEF ToBeCovered
  <2> QED BY <2>1 DEF ToBeCovered
<1> QED BY <1>2, <1>3

(* The claims of the rest are claims of the whole. *)
LEMMA RestClaims ==
  ASSUME NEW P, IsPlan(P), P # << >>, NEW r, NEW d, NEW r2, NEW d2, Tables(r, d),
         Apart(r, d, P),
         \A i \in Rows : IsClaim(r, d, P, i, r2.dir[i]) /\ IsClaim(r, d, P, i, d2.dir[i])
  PROVE  Apart(r2, d2, Tail(P))
<1>1. \A i \in Rows, e \in DirEntry : IsClaim(r2, d2, Tail(P), i, e) => IsClaim(r, d, P, i, e)
  <2> SUFFICES ASSUME NEW i \in Rows, NEW e \in DirEntry, NEW k \in 1..Len(Tail(P)),
                      Tail(P)[k].kind # "data", Tail(P)[k].slot = i, e = Tail(P)[k].entry
               PROVE  IsClaim(r, d, P, i, e)
    BY DEF IsClaim
  <2>1. PICK m \in 1..Len(P) : Tail(P)[k] = P[m]
    BY RestOfPlan
  <2> QED BY <2>1 DEF IsClaim
<1> QED BY <1>1 DEF Apart

LEMMA DataStep ==
  ASSUME NEW P, IsPlan(P), P # << >>, NEW r, NEW d, NEW d2, Tables(r, d),
         Apart(r, d, P), Allotted(r, d, P), P[1].kind = "data",
         d2.dir = d.dir, d2.next = d.next
  PROVE  Apart(r, d2, Tail(P)) /\ Allotted(r, d2, Tail(P))
<1>1. Apart(r, d2, Tail(P))
  BY RestClaims DEF IsClaim
<1>2. \A e : ~ToBeCovered(P, 0, e)
  BY DEF ToBeCovered
<1>3. \A k \in 1..Len(Tail(P)) : Tail(P)[k] = P[k + 1] /\ k + 1 \in 1..Len(P)
  BY RestOfPlan
<1>4. Len(Tail(P)) \in Nat
  BY RestOfPlan
<1>5. ASSUME NEW k \in 1..Len(Tail(P)), Tail(P)[k].kind # "data"
      PROVE  /\ \/ Below(Tail(P)[k].entry, r.next) \/ Covered(Tail(P), k, Tail(P)[k].entry)
             /\ \/ Below(Tail(P)[k].entry, d2.next) \/ Covered(Tail(P), k, Tail(P)[k].entry)
                \/ ToBeCovered(Tail(P), k, Tail(P)[k].entry)
             /\ Tail(P)[k].kind = "super" => Tail(P)[k].next >= r.next
  <2>1. k \in 0..Len(Tail(P))
    BY <1>4
  <2> QED BY <1>3, <1>5, <2>1, RestIsCovered DEF Allotted
<1> QED BY <1>1, <1>2, <1>5 DEF Allotted

LEMMA SuperStep ==
  ASSUME NEW P, IsPlan(P), P # << >>, NEW r, NEW d, NEW r2, NEW d2, Tables(r, d),
         Apart(r, d, P), Allotted(r, d, P), P[1].kind = "super",
         r2.dir = [r.dir EXCEPT ![P[1].slot] = P[1].entry], r2.next = P[1].next,
         d2.dir = d.dir, d2.next = P[1].next
  PROVE  Apart(r2, d2, Tail(P)) /\ Allotted(r2, d2, Tail(P))
<1>1. 1 \in 1..Len(P) /\ IsStep(P[1])
  BY RestOfPlan DEF IsPlan
<1>2. /\ P[1].slot \in Rows /\ P[1].entry \in DirEntry /\ P[1].next \in Nat
      /\ r.next \in Nat /\ d.next \in Nat /\ d.next <= r.next /\ r.next <= P[1].next
  BY <1>1 DEF IsStep, Tables, Allotted
<1>3. \A i \in Rows : r2.dir[i] = IF i = P[1].slot THEN P[1].entry ELSE r.dir[i]
  BY <1>2 DEF Tables
<1>4. Apart(r2, d2, Tail(P))
  <2>1. \A i \in Rows : IsClaim(r, d, P, i, r2.dir[i]) /\ IsClaim(r, d, P, i, d2.dir[i])
    BY <1>1, <1>3 DEF IsClaim
  <2> QED BY <2>1, RestClaims
<1>5. \A e \in DirEntry : Below(e, r.next) \/ Below(e, d.next) => Below(e, P[1].next)
  BY <1>2 DEF Below, End, DirEntry
<1>6. \A e : ToBeCovered(P, 0, e) => Below(e, P[1].next)
  BY DEF ToBeCovered
<1>7. Below(P[1].entry, P[1].next)
  <2>1. Below(P[1].entry, r.next) \/ Covered(P, 1, P[1].entry)
    BY <1>1 DEF Allotted
  <2>2. Covered(P, 1, P[1].entry) => Below(P[1].entry, P[1].next)
    BY DEF Covered
  <2> QED BY <1>2, <1>5, <2>1, <2>2
<1>8. \A i \in Rows : Below(r2.dir[i], P[1].next) /\ Below(d2.dir[i], P[1].next)
  BY <1>3, <1>5, <1>6, <1>7 DEF Allotted, Tables
<1>9. ASSUME NEW k \in 1..Len(Tail(P)), Tail(P)[k].kind # "data"
      PROVE  /\ \/ Below(Tail(P)[k].entry, P[1].next) \/ Covered(Tail(P), k, Tail(P)[k].entry)
             /\ Tail(P)[k].kind # "super"
  <2>1. Tail(P)[k] = P[k + 1] /\ k + 1 \in 1..Len(P) /\ Tail(P)[k].kind # "super"
        /\ k \in 0..Len(Tail(P))
    BY <1>1, RestOfPlan
  <2>2. Tail(P)[k].entry \in DirEntry
    BY <1>9, <2>1 DEF IsPlan, IsStep
  <2>3. Below(P[k + 1].entry, r.next) \/ Covered(P, k + 1, P[k + 1].entry)
    BY <1>9, <2>1 DEF Allotted
  <2> QED BY <1>5, <2>1, <2>2, <2>3, RestIsCovered
<1>10. d2.next <= r2.next
  BY <1>2
<1>11. \A i \in Rows : Below(r2.dir[i], r2.next) /\ Below(r2.dir[i], d2.next) /\ Below(d2.dir[i], d2.next)
  BY <1>8
<1>12. \A k \in 1..Len(Tail(P)) : Tail(P)[k].kind # "data" =>
         /\ Below(Tail(P)[k].entry, r2.next) \/ Covered(Tail(P), k, Tail(P)[k].entry)
         /\ Below(Tail(P)[k].entry, d2.next) \/ Covered(Tail(P), k, Tail(P)[k].entry)
         /\ Tail(P)[k].kind # "super"
  BY <1>9
<1> QED BY <1>4, <1>10, <1>11, <1>12 DEF Allotted

LEMMA DirStep ==
  ASSUME NEW P, IsPlan(P), P # << >>, NEW r, NEW d, NEW r2, NEW d2, Tables(r, d),
         Apart(r, d, P), Allotted(r, d, P), P[1].kind = "dir",
         r2.dir = [r.dir EXCEPT ![P[1].slot] = P[1].entry], r2.next = r.next,
         \A i \in Rows : d2.dir[i] \in {r2.dir[i], d.dir[i]}, d2.next = d.next
  PROVE  Apart(r2, d2, Tail(P)) /\ Allotted(r2, d2, Tail(P))
<1>1. 1 \in 1..Len(P) /\ IsStep(P[1]) /\ Len(Tail(P)) \in Nat
  BY RestOfPlan DEF IsPlan
<1>2. P[1].slot \in Rows /\ P[1].entry \in DirEntry
  BY <1>1 DEF IsStep
<1>3. \A i \in Rows : r2.dir[i] = IF i = P[1].slot THEN P[1].entry ELSE r.dir[i]
  BY <1>2 DEF Tables
<1>4. Apart(r2, d2, Tail(P))
  <2>1. \A i \in Rows : IsClaim(r, d, P, i, r2.dir[i]) /\ IsClaim(r, d, P, i, d2.dir[i])
    BY <1>1, <1>3 DEF IsClaim
  <2> QED BY <2>1, RestClaims
<1>5. \A e : ~ToBeCovered(P, 0, e) /\ ~Covered(P, 1, e)
  BY DEF ToBeCovered, Covered
<1>6. /\ Below(P[1].entry, r.next)
      /\ Below(P[1].entry, d.next) \/ ToBeCovered(Tail(P), 0, P[1].entry)
  <2>1. /\ Below(P[1].entry, r.next)
        /\ Below(P[1].entry, d.next) \/ ToBeCovered(P, 0 + 1, P[1].entry)
    BY <1>1, <1>5 DEF Allotted
  <2>2. 0 \in 0..Len(Tail(P))
    BY <1>1
  <2> QED BY <2>1, <2>2, RestIsCovered
<1>7. \A i \in Rows : /\ Below(r2.dir[i], r.next)
                      /\ Below(r2.dir[i], d.next) \/ ToBeCovered(Tail(P), 0, r2.dir[i])
                      /\ Below(d2.dir[i], d.next) \/ ToBeCovered(Tail(P), 0, d2.dir[i])
  BY <1>3, <1>5, <1>6 DEF Allotted
<1>8. ASSUME NEW k \in 1..Len(Tail(P)), Tail(P)[k].kind # "data"
      PROVE  /\ \/ Below(Tail(P)[k].entry, r.next) \/ Covered(Tail(P), k, Tail(P)[k].entry)
             /\ \/ Below(Tail(P)[k].entry, d.next) \/ Covered(Tail(P), k, Tail(P)[k].entry)
                \/ ToBeCovered(Tail(P), k, Tail(P)[k].entry)
             /\ Tail(P)[k].kind = "super" => Tail(P)[k].next >= r.next
  <2>1. Tail(P)[k] = P[k + 1] /\ k + 1 \in 1..Len(P) /\ k \in 0..Len(Tail(P))
    BY <1>1, RestOfPlan
  <2> QED BY <1>8, <2>1, RestIsCovered DEF Allotted
<1> QED BY <1>4, <1>7, <1>8 DEF Allotted

(***************************************************************************)
(* What performs a plan, and what ends it.                                 *)
(***************************************************************************)
LEMMA PerformKeeps ==
  ASSUME Platters, Sound, Body!Performed,
         \/ disk' = Body!Stepped /\ firm' \in {firm, disk'}
         \/ disk' = disk /\ firm' \in {firm, disk},
         unheeded' \in Nat,
         unheeded' = 0 => unheeded = 0 /\ disk' = Body!Stepped /\ firm' = disk'
  PROVE  Sound'
<1> DEFINE P == op.plan
           x == Head(op.plan)
           d == Body!Stepped
<1>1. /\ op # None /\ P # << >> /\ Remaining = P
      /\ op = [plan |-> op.plan, at |-> op.at, bytes |-> op.bytes]
  BY DEF Body!Performed, Remaining, Sound
<1>2. op' = [op EXCEPT !.plan = Tail(@)] /\ exposed' = exposed
  BY DEF Body!Performed
<1>3. op' = [plan |-> Tail(P), at |-> op.at, bytes |-> op.bytes]
  BY <1>1, <1>2
<1>4. op' # None /\ op'.plan = Tail(P) /\ Remaining' = Tail(P)
      /\ op' = [plan |-> op'.plan, at |-> op'.at, bytes |-> op'.bytes]
  BY <1>3 DEF Platters, Remaining
<1>5. IsPlan(P) /\ Tables(ram, disk) /\ Tables(ram, ram) /\ Tables(ram, firm)
  BY <1>1 DEF Sound, Tables
<1>6. x = P[1] /\ 1 \in 1..Len(P) /\ IsPlan(Tail(P)) /\ IsStep(P[1])
  BY <1>1, <1>5, RestOfPlan DEF IsPlan
<1>7. ram = [dir |-> ram.dir, next |-> ram.next]
      /\ disk = [dir |-> disk.dir, next |-> disk.next, sec |-> disk.sec]
  BY DEF Sound
<1>8. /\ ~exposed => Apart(ram, ram, P) /\ Allotted(ram, ram, P)
      /\ ~exposed /\ unheeded = 0 => Apart(ram, disk, P) /\ Allotted(ram, disk, P)
  BY <1>1 DEF Sound, Clean
<1>9. /\ ram' = [dir |-> ram'.dir, next |-> ram'.next] /\ Tables(ram', d)
      /\ d = [dir |-> d.dir, next |-> d.next, sec |-> d.sec]
      /\ ~exposed => Clean(ram', ram', Tail(P))
      /\ ~exposed /\ unheeded = 0 => Clean(ram', d, Tail(P))
  <2>1. CASE x.kind = "data"
    <3>1. ram' = [dir |-> ram.dir, next |-> ram.next]
          /\ d = [disk EXCEPT !.sec = Body!Written(x.put, DOMAIN x.put)]
      BY <2>1 DEF Body!Performed, Body!Stepped, Body!Step, Body!Table
    <3>2. /\ ram' = ram /\ d.dir = disk.dir /\ d.next = disk.next
          /\ d = [dir |-> d.dir, next |-> d.next, sec |-> d.sec]
      BY <1>7, <3>1
    <3> HIDE DEF d
    <3>3. Tables(ram', d)
      BY <1>5, <3>2 DEF Tables
    <3>4. ~exposed => Apart(ram', ram', Tail(P)) /\ Allotted(ram', ram', Tail(P))
      BY <1>1, <1>5, <1>6, <1>8, <2>1, <3>2, DataStep
    <3>5. ~exposed /\ unheeded = 0 => Apart(ram', d, Tail(P)) /\ Allotted(ram', d, Tail(P))
      BY <1>1, <1>5, <1>6, <1>8, <2>1, <3>2, DataStep
    <3> QED BY <1>7, <3>2, <3>3, <3>4, <3>5 DEF Clean
  <2>2. CASE x.kind = "super"
    <3>1. ram' = [dir |-> [ram.dir EXCEPT ![x.slot] = x.entry], next |-> x.next]
          /\ d = [disk EXCEPT !.next = x.next]
      BY <2>2 DEF Body!Performed, Body!Stepped, Body!Step, Body!Table
    <3>2. /\ ram'.dir = [ram.dir EXCEPT ![P[1].slot] = P[1].entry] /\ ram'.next = P[1].next
          /\ d.dir = disk.dir /\ d.next = P[1].next
          /\ ram' = [dir |-> ram'.dir, next |-> ram'.next]
          /\ d = [dir |-> d.dir, next |-> d.next, sec |-> d.sec]
      BY <1>6, <1>7, <3>1
    <3> HIDE DEF d
    <3>3. Tables(ram', d)
      BY <1>5, <1>6, <2>2, <3>2 DEF Tables, IsStep
    <3>4. ~exposed => Clean(ram', ram', Tail(P))
      <4> DEFINE old == [dir |-> ram.dir, next |-> P[1].next]
      <4>1. old.dir = ram.dir /\ old.next = P[1].next
        OBVIOUS
      <4> HIDE DEF old
      <4>2. Tables(ram', old)
        BY <1>5, <3>2, <3>3, <4>1 DEF Tables
      <4>3. ~exposed => Apart(ram', old, Tail(P)) /\ Allotted(ram', old, Tail(P))
        BY <1>1, <1>5, <1>6, <1>8, <2>2, <3>2, <4>1, SuperStep
      <4> QED BY <4>2, <4>3, MountedAlone DEF Clean
    <3>5. ~exposed /\ unheeded = 0 => Apart(ram', d, Tail(P)) /\ Allotted(ram', d, Tail(P))
      BY <1>1, <1>5, <1>6, <1>8, <2>2, <3>2, SuperStep
    <3> QED BY <3>2, <3>3, <3>4, <3>5 DEF Clean
  <2>3. CASE x.kind = "dir"
    <3>1. ram' = [dir |-> [ram.dir EXCEPT ![x.slot] = x.entry], next |-> ram.next]
          /\ d = [disk EXCEPT !.dir = Body!Persist([ram.dir EXCEPT ![x.slot] = x.entry], x.slot)]
      BY <2>3 DEF Body!Performed, Body!Stepped, Body!Step, Body!Table
    <3>2. /\ ram'.dir = [ram.dir EXCEPT ![P[1].slot] = P[1].entry] /\ ram'.next = ram.next
          /\ d.dir = Body!Persist(ram'.dir, P[1].slot) /\ d.next = disk.next
          /\ ram' = [dir |-> ram'.dir, next |-> ram'.next]
          /\ d = [dir |-> d.dir, next |-> d.next, sec |-> d.sec]
      BY <1>6, <1>7, <3>1
    <3> HIDE DEF d
    <3>3. d.dir = [j \in Rows |-> IF j \in Body!SameSector(P[1].slot) THEN ram'.dir[j] ELSE disk.dir[j]]
      BY <3>2 DEF Body!Persist, Rows
    <3>4. \A i \in Rows : d.dir[i] \in {ram'.dir[i], disk.dir[i]}
      BY <3>3
    <3>5. ram'.dir \in [Rows -> DirEntry] /\ IsRecord(ram'.dir[0])
      BY <1>5, <1>6, <2>3, <3>2 DEF Tables, IsStep
    <3>6. 0 \in Rows
      BY DEF Platters, Rows
    <3>7. d.dir \in [Rows -> DirEntry] /\ IsRecord(d.dir[0])
      BY <1>5, <3>3, <3>4, <3>5, <3>6 DEF Tables
    <3>8. Tables(ram', d)
      BY <1>5, <3>2, <3>5, <3>7 DEF Tables
    <3>9. ~exposed => Apart(ram', ram', Tail(P)) /\ Allotted(ram', ram', Tail(P))
      BY <1>1, <1>5, <1>6, <1>8, <2>3, <3>2, DirStep
    <3>10. ~exposed /\ unheeded = 0 => Apart(ram', d, Tail(P)) /\ Allotted(ram', d, Tail(P))
      BY <1>1, <1>5, <1>6, <1>8, <2>3, <3>2, <3>4, DirStep
    <3> QED BY <3>2, <3>8, <3>9, <3>10 DEF Clean
  <2> QED BY <1>6, <2>1, <2>2, <2>3 DEF IsStep
<1> HIDE DEF d
<1>10. Tables(ram', disk) /\ Tables(ram', firm)
  BY <1>5, <1>9 DEF Tables
<1>11. /\ disk' = [dir |-> disk'.dir, next |-> disk'.next, sec |-> disk'.sec]
       /\ Tables(ram', disk') /\ Tables(ram', firm')
  BY <1>7, <1>9, <1>10 DEF d
<1>12. ~exposed' /\ unheeded' = 0 =>
         Clean(ram', disk', Tail(P)) /\ firm'.dir = disk'.dir /\ firm'.next = disk'.next
  BY <1>2, <1>9 DEF d
<1> QED BY <1>2, <1>4, <1>6, <1>9, <1>11, <1>12 DEF Sound

LEMMA PerformsKeep ==
  ASSUME Platters, Sound, Body!Perform \/ Body!PerformUnheeded PROVE Sound'
<1>1. unheeded \in Nat
  BY DEF Sound
<1>2. CASE Body!Perform
  BY <1>1, <1>2, PerformKeeps DEF Body!Perform
<1>3. CASE Body!PerformUnheeded
  <2>1. unheeded' \in Nat /\ unheeded' # 0
    BY <1>1, <1>3 DEF Body!PerformUnheeded
  <2> QED BY <1>3, <2>1, PerformKeeps DEF Body!PerformUnheeded
<1> QED BY <1>2, <1>3

LEMMA EmptyPlan == IsPlan(<< >>) /\ Len(<< >>) = 0
<1>1. << >> \in Seq({}) /\ Len(<< >>) = 0
  BY EmptySeq
<1> QED BY <1>1 DEF IsPlan

(* Without a plan, tables are sound that were with one whose last step was *)
(* not all that remained of a blob.                                        *)
LEMMA PlanGone ==
  ASSUME NEW P, NEW r, NEW d, NEW r2, NEW d2, Tables(r, d), Apart(r, d, P), Allotted(r, d, P),
         \A e : ~ToBeCovered(P, 0, e),
         d2.dir = d.dir, d2.next = d.next,
         (r2.dir = r.dir /\ r2.next = r.next) \/ (r2.dir = d.dir /\ r2.next = d.next)
  PROVE  Apart(r2, d2, << >>) /\ Allotted(r2, d2, << >>)
<1>1. \A i \in Rows, e \in DirEntry : IsClaim(r2, d2, << >>, i, e) => IsClaim(r, d, P, i, e)
  BY EmptyPlan DEF IsClaim
<1>2. Apart(r2, d2, << >>)
  BY <1>1 DEF Apart
<1>3. Allotted(r2, d2, << >>)
  BY EmptyPlan DEF Allotted, Tables
<1> QED BY <1>2, <1>3

LEMMA SectorFailsKeeps == ASSUME Platters, Sound, Body!SectorFails PROVE Sound'
<1>1. op # None /\ op.plan # << >> /\ Head(op.plan).kind = "data" /\ Remaining = op.plan
  BY DEF Body!SectorFails, Body!Step, Remaining
<1>2. PICK some : disk' = [disk EXCEPT !.sec = Body!Written(Head(op.plan).put, some)]
  BY DEF Body!SectorFails, Body!Step
<1>3. /\ op' = None /\ ram' = ram /\ exposed' = exposed /\ Remaining' = << >>
      /\ firm' = firm /\ unheeded' = unheeded
  BY DEF Body!SectorFails, Remaining
<1>4. /\ disk'.dir = disk.dir /\ disk'.next = disk.next
      /\ disk' = [dir |-> disk'.dir, next |-> disk'.next, sec |-> disk'.sec]
  BY <1>2 DEF Sound
<1>5. IsPlan(op.plan) /\ Tables(ram, disk) /\ Tables(ram, ram)
  BY <1>1 DEF Sound, Tables
<1>6. \A e : ~ToBeCovered(op.plan, 0, e)
  BY <1>1, <1>5, RestOfPlan DEF ToBeCovered
<1>7. Tables(ram', disk') /\ Tables(ram', firm')
  BY <1>3, <1>4, <1>5 DEF Sound, Tables
<1>8. ~exposed => Apart(ram', ram', << >>) /\ Allotted(ram', ram', << >>)
  BY <1>1, <1>3, <1>5, <1>6, PlanGone DEF Sound, Clean
<1>9. ~exposed /\ unheeded = 0 => Apart(ram', disk', << >>) /\ Allotted(ram', disk', << >>)
  BY <1>1, <1>3, <1>4, <1>5, <1>6, PlanGone DEF Sound, Clean
<1> QED BY <1>3, <1>4, <1>7, <1>8, <1>9, EmptyPlan DEF Sound, Clean

LEMMA AnswerKeeps == ASSUME Platters, Sound, Body!Answer PROVE Sound'
BY DEF Body!Answer, Sound, Remaining

LEMMA CrashKeeps == ASSUME Platters, Sound, Body!Crash PROVE Sound'
<1> DEFINE put == IF op # None /\ op.plan # << >> THEN Body!Step.put ELSE << >>
           loose == {s \in 1..Total : firm.sec[s] # disk.sec[s]}
           stale == {i \in Rows : firm.dir[i] # disk.dir[i]}
           Mixed(dirs) == [i \in Rows |-> IF i \div PerDir \in dirs THEN firm.dir[i] ELSE disk.dir[i]]
           Sec(some, lost) == [s \in 1..Total |-> IF s \in some THEN put[s]
                                                 ELSE IF s \in lost THEN firm.sec[s]
                                                 ELSE disk.sec[s]]
<1>0. \E some \in SUBSET DOMAIN put, lost \in SUBSET loose, next \in {firm.next, disk.next},
         dirs \in SUBSET {i \div PerDir : i \in stale} :
        disk' = [dir |-> Mixed(dirs), next |-> next, sec |-> Sec(some, lost)]
  BY DEF Body!Crash, Rows
<1> HIDE DEF Sec, put, loose, stale, Mixed
<1>1. PICK some \in SUBSET DOMAIN put, lost \in SUBSET loose, next \in {firm.next, disk.next},
           dirs \in SUBSET {i \div PerDir : i \in stale} :
        disk' = [dir |-> Mixed(dirs), next |-> next, sec |-> Sec(some, lost)]
  BY <1>0
<1>2. /\ op' = None /\ ram' = [dir |-> disk'.dir, next |-> disk'.next] /\ Remaining' = << >>
      /\ firm' = disk' /\ unheeded' = 0
      /\ exposed' = (exposed \/ unheeded > 0
                      \/ (op # None /\ Len(op.plan) = 1 /\ Head(op.plan).kind = "super"))
  BY DEF Body!Crash, Body!Mounted, Body!Step, Remaining
<1>3. /\ disk'.next = next
      /\ disk'.dir = Mixed(dirs)
      /\ disk' = [dir |-> disk'.dir, next |-> disk'.next, sec |-> disk'.sec]
      /\ ram'.dir = disk'.dir /\ ram'.next = disk'.next
      /\ ram' = [dir |-> ram'.dir, next |-> ram'.next]
  BY <1>1, <1>2
<1>4. IsPlan(Remaining) /\ Tables(ram, disk) /\ Tables(ram, firm) /\ exposed' \in BOOLEAN
  BY <1>2 DEF Sound
<1>5. ~exposed' => ~exposed /\ unheeded = 0 /\ \A e : ~ToBeCovered(Remaining, 0, e)
  <2>1. ~exposed' => ~exposed /\ unheeded = 0
    <3>1. ~exposed' => ~exposed /\ ~(unheeded > 0)
      BY <1>2, Zenon
    <3>2. unheeded \in Nat
      BY DEF Sound
    <3> QED BY <3>1, <3>2
  <2> SUFFICES ASSUME ~exposed', NEW e, ToBeCovered(Remaining, 0, e) PROVE FALSE
    BY <2>1
  <2>2. Len(Remaining) = 1 /\ Remaining[1].kind = "super"
    BY DEF ToBeCovered
  <2>3. Remaining # << >> /\ op # None /\ Remaining = op.plan
    BY <2>2, EmptyPlan DEF Remaining
  <2>4. Head(Remaining) = Remaining[1]
    BY <1>4, <2>3, RestOfPlan
  <2> QED BY <1>2, <2>2, <2>3, <2>4
<1>6. Tables(ram', disk') /\ Tables(ram', firm') /\ Tables(ram', ram')
  <2>1. \A i \in Rows : disk'.dir[i] \in {firm.dir[i], disk.dir[i]}
    BY <1>3 DEF Mixed
  <2>2. 0 \in Rows
    BY DEF Platters, Rows
  <2>4. /\ disk.dir \in [Rows -> DirEntry] /\ firm.dir \in [Rows -> DirEntry]
        /\ IsRecord(disk.dir[0]) /\ IsRecord(firm.dir[0]) /\ disk.next \in Nat /\ firm.next \in Nat
        /\ ram.dir \in [Rows -> DirEntry]
    BY <1>4 DEF Tables
  <2>5. \A i \in Rows : disk'.dir[i] \in DirEntry
    BY <2>1, <2>4
  <2>6. IsRecord(disk'.dir[0])
    BY <2>1, <2>2, <2>4
  <2>7. disk'.next \in Nat
    BY <1>1, <1>3, <2>4
  <2>3. disk'.dir \in [Rows -> DirEntry] /\ IsRecord(disk'.dir[0]) /\ disk'.next \in Nat
    BY <1>3, <2>5, <2>6, <2>7 DEF Mixed
  <2> QED BY <1>2, <1>3, <2>3 DEF Tables
<1>7. ~exposed' => Apart(ram', disk', << >>) /\ Allotted(ram', disk', << >>)
  <2> SUFFICES ASSUME ~exposed' PROVE Apart(ram', disk', << >>) /\ Allotted(ram', disk', << >>)
    OBVIOUS
  <2>1. ~exposed /\ unheeded = 0 /\ \A e : ~ToBeCovered(Remaining, 0, e)
    BY <1>5
  <2>2. firm.dir = disk.dir /\ firm.next = disk.next
        /\ Apart(ram, disk, Remaining) /\ Allotted(ram, disk, Remaining)
    BY <2>1 DEF Sound, Clean
  <2>3. disk'.dir = [i \in Rows |-> disk.dir[i]] /\ disk'.next = disk.next
    BY <1>1, <1>3, <2>2 DEF Mixed
  <2>4. disk'.dir = disk.dir
    BY <1>4, <2>3 DEF Tables
  <2> QED BY <1>3, <1>4, <2>1, <2>2, <2>3, <2>4, PlanGone
<1>8. ~exposed' => Clean(ram', disk', << >>) /\ Clean(ram', ram', << >>)
  BY <1>3, <1>6, <1>7, MountedAlone DEF Clean
<1> QED BY <1>2, <1>3, <1>4, <1>6, <1>8, EmptyPlan DEF Sound

(***************************************************************************)
(* Plans, and the slots they are made for.                                 *)
(***************************************************************************)
LEMMA DivIsNat == \A a \in Nat, b \in Nat \ {0} : a \div b \in Nat
OBVIOUS

LEMMA SlotFound ==
  ASSUME Platters, NEW r, NEW d, Tables(r, d), NEW n, Body!Found(r.dir, n) # {}
  PROVE  /\ Body!Slot(r.dir, n) \in Rows
         /\ r.dir[Body!Slot(r.dir, n)].present /\ r.dir[Body!Slot(r.dir, n)].name = n
<1>1. Body!Found(r.dir, n) \subseteq Rows /\ Rows \subseteq Nat
  BY DEF Body!Found, Tables, Rows, Platters
<1>2. \E i \in Body!Found(r.dir, n) : \A j \in Body!Found(r.dir, n) : i <= j
  BY <1>1, LeastExists
<1>3. Body!Slot(r.dir, n) \in Body!Found(r.dir, n)
  BY <1>2 DEF Body!Slot
<1> QED BY <1>1, <1>3 DEF Body!Found

LEMMA FreeFound ==
  ASSUME Platters, NEW f \in [Rows -> DirEntry], IsRecord(f[0]), Body!FreeSlots(f) # {}
  PROVE  /\ Body!FirstFree(f) \in Rows \ {0} /\ ~f[Body!FirstFree(f)].present
<1>1. Body!FreeSlots(f) \subseteq Rows /\ Rows \subseteq Nat
  BY DEF Body!FreeSlots, Rows, Platters
<1>2. \E i \in Body!FreeSlots(f) : \A j \in Body!FreeSlots(f) : i <= j
  BY <1>1, LeastExists
<1>3. Body!FirstFree(f) \in Body!FreeSlots(f)
  BY <1>2 DEF Body!FirstFree
<1> QED BY <1>1, <1>3 DEF Body!FreeSlots, IsRecord

(* A file of a type that is not the record's is not in the record's slot. *)
LEMMA FileFound ==
  ASSUME Platters, Tables(ram, disk), NEW n, Body!TypeAt(n) # "absent"
  PROVE  /\ Body!Found(ram.dir, n) # {}
         /\ Body!Slot(ram.dir, n) \in Rows
         /\ ram.dir[Body!Slot(ram.dir, n)] \in DirEntry
         /\ ram.dir[Body!Slot(ram.dir, n)].present
         /\ ram.dir[Body!Slot(ram.dir, n)].name = n
         /\ ram.dir[Body!Slot(ram.dir, n)].type = Body!TypeAt(n)
         /\ Body!TypeAt(n) # "record" => Body!Slot(ram.dir, n) # 0
<1>1. Body!Found(ram.dir, n) # {} /\ ram.dir[Body!Slot(ram.dir, n)].type = Body!TypeAt(n)
  BY DEF Body!TypeAt
<1>2. Body!Slot(ram.dir, n) \in Rows
  BY <1>1, SlotFound
<1> QED BY <1>1, <1>2, SlotFound DEF Tables, IsRecord

LEMMA NothingFound ==
  ASSUME Platters, Tables(ram, disk), NEW n, Body!TypeAt(n) = "absent"
  PROVE  Body!Found(ram.dir, n) = {}
<1> SUFFICES ASSUME Body!Found(ram.dir, n) # {} PROVE FALSE
  OBVIOUS
<1>1. ram.dir[Body!Slot(ram.dir, n)] \in DirEntry
  BY SlotFound DEF Tables
<1>2. ram.dir[Body!Slot(ram.dir, n)].type = "absent"
  BY DEF Body!TypeAt
<1> QED BY <1>1, <1>2 DEF DirEntry

LEMMA StepsAre ==
  /\ \A x : Body!Put(x).kind = "data" /\ IsStep(Body!Put(x))
  /\ \A i \in Rows, e \in DirEntry : (i = 0 => IsRecord(e)) =>
       /\ Body!Dir(i, e).kind = "dir" /\ Body!Dir(i, e).slot = i /\ Body!Dir(i, e).entry = e
       /\ IsStep(Body!Dir(i, e))
  /\ \A i \in Rows, e \in DirEntry, n \in Nat : (i = 0 => IsRecord(e)) =>
       /\ Body!Super(i, e, n).kind = "super" /\ Body!Super(i, e, n).slot = i
       /\ Body!Super(i, e, n).entry = e /\ Body!Super(i, e, n).next = n
       /\ IsStep(Body!Super(i, e, n))
BY DEF Body!Put, Body!Dir, Body!Super, IsStep

LEMMA OneStep ==
  ASSUME NEW x, IsStep(x)
  PROVE  IsPlan(<<x>>) /\ Len(<<x>>) = 1 /\ <<x>>[1] = x
<1>1. <<x>> \in Seq({x}) /\ Len(<<x>>) = 1 /\ <<x>>[1] = x
  OBVIOUS
<1>2. \A k \in 1..Len(<<x>>) : k = 1
  BY <1>1
<1> QED BY <1>1, <1>2 DEF IsPlan

LEMMA TwoSteps ==
  ASSUME NEW x, NEW y, IsStep(x), IsStep(y), x.kind # "super"
  PROVE  /\ IsPlan(<<x, y>>) /\ Len(<<x, y>>) = 2
         /\ <<x, y>>[1] = x /\ <<x, y>>[2] = y
<1>1. /\ <<x, y>> \in Seq({x, y}) /\ Len(<<x, y>>) = 2
      /\ <<x, y>>[1] = x /\ <<x, y>>[2] = y
  OBVIOUS
<1>2. \A k \in 1..Len(<<x, y>>) : k = 1 \/ k = 2
  BY <1>1
<1> QED BY <1>1, <1>2 DEF IsPlan

LEMMA ThreeSteps ==
  ASSUME NEW x, NEW y, NEW z, IsStep(x), IsStep(y), IsStep(z),
         x.kind # "super", y.kind # "super"
  PROVE  /\ IsPlan(<<x, y, z>>) /\ Len(<<x, y, z>>) = 3
         /\ <<x, y, z>>[1] = x /\ <<x, y, z>>[2] = y /\ <<x, y, z>>[3] = z
<1>1. /\ <<x, y, z>> \in Seq({x, y, z}) /\ Len(<<x, y, z>>) = 3
      /\ <<x, y, z>>[1] = x /\ <<x, y, z>>[2] = y /\ <<x, y, z>>[3] = z
  OBVIOUS
<1>2. \A k \in 1..Len(<<x, y, z>>) : k = 1 \/ k = 2 \/ k = 3
  BY <1>1
<1> QED BY <1>1, <1>2 DEF IsPlan

LEMMA Joined ==
  ASSUME NEW A, NEW B, IsPlan(A), IsPlan(B),
         \/ \A k \in 1..Len(A) : A[k].kind # "super"
         \/ \A k \in 1..Len(B) : B[k].kind # "super"
  PROVE  /\ IsPlan(A \o B) /\ Len(A) \in Nat /\ Len(B) \in Nat
         /\ Len(A \o B) = Len(A) + Len(B)
         /\ \A k \in 1..Len(A) : k \in 1..Len(A \o B) /\ (A \o B)[k] = A[k]
         /\ \A k \in 1..Len(A \o B) : k \notin 1..Len(A) =>
              k - Len(A) \in 1..Len(B) /\ (A \o B)[k] = B[k - Len(A)]
<1>1. PICK S : A \in Seq(S)
  BY DEF IsPlan
<1>2. PICK T : B \in Seq(T)
  BY DEF IsPlan
<1>3. A \in Seq(S \cup T) /\ B \in Seq(S \cup T)
  BY <1>1, <1>2, SeqMonotonic
<1>4. /\ A \o B \in Seq(S \cup T) /\ Len(A \o B) = Len(A) + Len(B)
      /\ \A k \in 1..Len(A) + Len(B) : (A \o B)[k] = IF k <= Len(A) THEN A[k] ELSE B[k - Len(A)]
      /\ Len(A) \in Nat /\ Len(B) \in Nat
  BY <1>3, ConcatProperties, LenProperties
<1>5. /\ \A k \in 1..Len(A) : k \in 1..Len(A \o B) /\ (A \o B)[k] = A[k]
      /\ \A k \in 1..Len(A \o B) : k \notin 1..Len(A) =>
           k - Len(A) \in 1..Len(B) /\ (A \o B)[k] = B[k - Len(A)]
  BY <1>4
<1>6. \A k \in 1..Len(A \o B) : IsStep((A \o B)[k])
  BY <1>5 DEF IsPlan
<1>7. \A k, l \in 1..Len(A \o B) :
        (A \o B)[k].kind = "super" /\ (A \o B)[l].kind = "super" => k = l
  <2> SUFFICES ASSUME NEW k \in 1..Len(A \o B), NEW l \in 1..Len(A \o B),
                      (A \o B)[k].kind = "super", (A \o B)[l].kind = "super"
               PROVE  k = l
    OBVIOUS
  <2>1. CASE k \in 1..Len(A) /\ l \in 1..Len(A)
    BY <1>5, <2>1 DEF IsPlan
  <2>2. CASE k \notin 1..Len(A) /\ l \notin 1..Len(A)
    <3>1. k - Len(A) = l - Len(A)
      BY <1>5, <2>2 DEF IsPlan
    <3> QED BY <1>4, <3>1
  <2>3. CASE (k \in 1..Len(A) /\ l \notin 1..Len(A)) \/ (l \in 1..Len(A) /\ k \notin 1..Len(A))
    BY <1>5, <2>3
  <2> QED BY <2>1, <2>2, <2>3
<1> QED BY <1>4, <1>5, <1>6, <1>7 DEF IsPlan

(* Every step keeps an extent or lays a fresh one the allocator has left   *)
(* behind.                                                                 *)
Settles(r, n, f, P) ==
  \A k \in 1..Len(P) : P[k].kind # "data" =>
    /\ \/ Kin(P[k].entry, r.dir[P[k].slot])
       \/ P[k].slot = f /\ Fresh(r, f, P[k].entry) /\ Covered(P, k, P[k].entry)
    /\ P[k].kind = "super" => P[k].next >= n

LEMMA SettlesProposes ==
  ASSUME NEW r, NEW d, NEW n, NEW f, NEW P, Settles(r, n, f, P)
  PROVE  Proposes(r, d, n, f, P)
BY DEF Settles, Proposes

LEMMA JoinedSettles ==
  ASSUME NEW A, NEW B, IsPlan(A), IsPlan(B), NEW r, NEW n, NEW f, Settles(r, n, f, A),
         \/ \A k \in 1..Len(A) : A[k].kind # "super"
         \/ \A k \in 1..Len(B) : B[k].kind # "super",
         \A k \in 1..Len(B) : B[k].kind # "data" =>
           /\ \/ Kin(B[k].entry, r.dir[B[k].slot])
              \/ /\ B[k].slot = f /\ Fresh(r, f, B[k].entry)
                 /\ Covered(B, k, B[k].entry) \/ Covered(A, Len(A), B[k].entry)
           /\ B[k].kind = "super" => B[k].next >= n
  PROVE  Settles(r, n, f, A \o B)
<1> SUFFICES ASSUME NEW k \in 1..Len(A \o B), (A \o B)[k].kind # "data"
             PROVE  /\ \/ Kin((A \o B)[k].entry, r.dir[(A \o B)[k].slot])
                       \/ /\ (A \o B)[k].slot = f /\ Fresh(r, f, (A \o B)[k].entry)
                          /\ Covered(A \o B, k, (A \o B)[k].entry)
                    /\ (A \o B)[k].kind = "super" => (A \o B)[k].next >= n
  BY DEF Settles
<1>1. /\ Len(A) \in Nat /\ Len(B) \in Nat /\ Len(A \o B) = Len(A) + Len(B)
      /\ \A l \in 1..Len(A) : l \in 1..Len(A \o B) /\ (A \o B)[l] = A[l]
      /\ \A l \in 1..Len(A \o B) : l \notin 1..Len(A) =>
           l - Len(A) \in 1..Len(B) /\ (A \o B)[l] = B[l - Len(A)]
  BY Joined
<1>2. CASE k \in 1..Len(A)
  <2>1. \A e : Covered(A, k, e) => Covered(A \o B, k, e)
    BY <1>1, <1>2 DEF Covered
  <2> QED BY <1>1, <1>2, <2>1 DEF Settles
<1>3. CASE k \notin 1..Len(A)
  <2>1. PICK m \in 1..Len(B) : m = k - Len(A) /\ (A \o B)[k] = B[m]
    BY <1>1, <1>3
  <2>2. ASSUME NEW e, Covered(A, Len(A), e) PROVE Covered(A \o B, k, e)
    <3>1. PICK l \in 1..Len(A) : A[l].kind = "super" /\ Below(e, A[l].next)
      BY <2>2 DEF Covered
    <3>2. l \in 1..k /\ (A \o B)[l] = A[l]
      BY <1>1, <1>3
    <3> QED BY <3>1, <3>2 DEF Covered
  <2>3. ASSUME NEW e, Covered(B, m, e) PROVE Covered(A \o B, k, e)
    <3>1. PICK l \in 1..m : B[l].kind = "super" /\ Below(e, B[l].next)
      BY <2>3 DEF Covered
    <3>2. PICK h \in 1..k : h = l + Len(A)
      BY <1>1, <2>1
    <3>3. h \in 1..Len(A \o B) /\ h \notin 1..Len(A) /\ h - Len(A) = l
      BY <1>1, <3>2
    <3>4. (A \o B)[h] = B[l]
      BY <1>1, <3>3
    <3> QED BY <3>1, <3>4 DEF Covered
  <2> QED BY <2>1, <2>2, <2>3
<1> QED BY <1>2, <1>3

(***************************************************************************)
(* The acts.                                                               *)
(***************************************************************************)
LEMMA KinToItself == \A e : e.present => Kin(e, e)
BY DEF Kin

LEMMA AllKin ==
  ASSUME NEW r, NEW d, Tables(r, d)
  PROVE  \A i \in Rows : Kin(r.dir[i], r.dir[i])
BY DEF Kin, Tables, DirEntry

(* The acts begin in RAM. *)
OnlyRam == UNCHANGED <<disk, firm, unheeded, exposed>>

LEMMA BeginsKeep ==
  ASSUME Platters, Sound, op = None, NEW P, NEW A, NEW B,
         op' = [plan |-> P, at |-> A, bytes |-> B], IsPlan(P),
         ram' = [dir |-> ram'.dir, next |-> ram'.next], Tables(ram', disk), OnlyRam,
         ram'.next >= ram.next,
         \A i \in Rows : Kin(ram'.dir[i], ram.dir[i]),
         NEW f \in Rows, Proposes(ram, disk, ram'.next, f, P)
  PROVE  Sound'
<1>1. op' # None /\ Remaining' = P /\ op' = [plan |-> op'.plan, at |-> op'.at, bytes |-> op'.bytes]
  BY DEF Platters, Remaining
<1>2. Remaining = << >>
  BY DEF Remaining
<1>3. disk' = disk /\ firm' = firm /\ unheeded' = unheeded /\ exposed' = exposed
  BY DEF OnlyRam
<1>4. ~exposed /\ unheeded = 0 => Apart(ram', disk, P) /\ Allotted(ram', disk, P)
  BY <1>2, StartIsSound DEF Sound, Clean
<1>5. Tables(ram, ram) /\ Tables(ram', firm)
  BY DEF Sound, Tables
<1>6. ~exposed => Clean(ram', ram', P)
  <2> DEFINE old == [dir |-> ram'.dir, next |-> ram.next]
  <2>1. old.dir = ram'.dir /\ old.next = ram.next
    OBVIOUS
  <2> HIDE DEF old
  <2>2. Tables(ram', old)
    BY <1>5, <2>1 DEF Tables
  <2>3. Proposes(ram, ram, ram'.next, f, P)
    BY DEF Proposes
  <2>4. ~exposed => Apart(ram', old, P) /\ Allotted(ram', old, P)
    BY <1>2, <1>5, <2>1, <2>2, <2>3, StartIsSound DEF Sound, Clean
  <2> QED BY <2>2, <2>4, MountedAlone DEF Clean
<1> QED BY <1>1, <1>3, <1>4, <1>5, <1>6 DEF Sound, Clean

LEMMA ShortSequences ==
  /\ \A x : Append(<< >>, x) = <<x>> /\ << >> \o <<x>> = <<x>>
  /\ \A x, y : Append(<<x>>, y) = <<x, y>> /\ <<x>> \o <<y>> = <<x, y>>
<1>1. ASSUME NEW x PROVE Append(<< >>, x) = <<x>> /\ << >> \o <<x>> = <<x>>
  OBVIOUS
<1>2. ASSUME NEW x, NEW y PROVE Append(<<x>>, y) = <<x, y>>
  <2>1. <<x>> \in Seq({x, y}) /\ <<x, y>> \in Seq({x, y})
        /\ Len(<<x>>) = 1 /\ Len(<<x, y>>) = 2 /\ <<x>>[1] = x /\ <<x, y>>[1] = x /\ <<x, y>>[2] = y
    OBVIOUS
  <2>2. Append(<<x>>, y) \in Seq({x, y}) /\ Len(Append(<<x>>, y)) = 2
        /\ Append(<<x>>, y)[1] = x /\ Append(<<x>>, y)[2] = y
    BY <2>1, AppendProperties
  <2>3. \A k \in 1..2 : k = 1 \/ k = 2
    OBVIOUS
  <2> QED BY <2>1, <2>2, <2>3, SeqEqual
<1>3. ASSUME NEW x, NEW y PROVE <<x>> \o <<y>> = <<x, y>>
  <2>1. <<x>> \in Seq({x, y}) /\ <<y>> \in Seq({x, y}) /\ <<x, y>> \in Seq({x, y})
        /\ Len(<<x>>) = 1 /\ Len(<<y>>) = 1 /\ Len(<<x, y>>) = 2
    OBVIOUS
  <2>2. <<x>> \o <<y>> \in Seq({x, y}) /\ Len(<<x>> \o <<y>>) = 2
        /\ \A k \in 1..2 : (<<x>> \o <<y>>)[k] = <<x, y>>[k]
    BY <2>1, ConcatProperties
  <2> QED BY <2>1, <2>2, SeqEqual
<1> QED BY <1>1, <1>2, <1>3

(* A plan of entries that hold no more than the table's.                   *)
LEMMA KinPlanKeeps ==
  ASSUME Platters, Sound, op = None, NEW P, NEW A, NEW B,
         op' = [plan |-> P, at |-> A, bytes |-> B], OnlyRam, IsPlan(P),
         ram' = [dir |-> ram'.dir, next |-> ram.next], Tables(ram', disk),
         \A i \in Rows : Kin(ram'.dir[i], ram.dir[i]),
         \A k \in 1..Len(P) : /\ P[k].kind # "super"
                              /\ P[k].kind = "dir" => Kin(P[k].entry, ram.dir[P[k].slot])
  PROVE  Sound'
<1>1. \A k \in 1..Len(P) : P[k].kind \in {"data", "super", "dir"}
  BY DEF IsPlan, IsStep
<1>2. 0 \in Rows
  BY DEF Platters, Rows
<1>3. Proposes(ram, disk, ram'.next, 0, P)
  BY <1>1 DEF Proposes
<1>4. ram'.next = ram.next /\ ram.next \in Nat /\ ram' = [dir |-> ram'.dir, next |-> ram'.next]
  BY DEF Sound, Tables
<1>5. ram'.next >= ram.next
  BY <1>4
<1> QED BY <1>2, <1>3, <1>4, <1>5, BeginsKeep

Keeps(x) == /\ IsStep(x) /\ x.kind # "super"
            /\ x.kind = "dir" => Kin(x.entry, ram.dir[x.slot])

LEMMA OneKeeps ==
  ASSUME Platters, Sound, op = None, NEW x, NEW A, NEW B, Keeps(x),
         op' = [plan |-> <<x>>, at |-> A, bytes |-> B], OnlyRam,
         ram' = [dir |-> ram'.dir, next |-> ram.next], Tables(ram', disk),
         \A i \in Rows : Kin(ram'.dir[i], ram.dir[i])
  PROVE  Sound'
<1> DEFINE P == <<x>>
<1>1. IsPlan(P) /\ Len(P) = 1 /\ P[1] = x
  BY OneStep DEF Keeps
<1>2. op' = [plan |-> P, at |-> A, bytes |-> B]
  OBVIOUS
<1> HIDE DEF P
<1>3. \A k \in 1..Len(P) : /\ P[k].kind # "super"
                           /\ P[k].kind = "dir" => Kin(P[k].entry, ram.dir[P[k].slot])
  BY <1>1 DEF Keeps
<1> QED BY <1>1, <1>2, <1>3, KinPlanKeeps

LEMMA TwoKeep ==
  ASSUME Platters, Sound, op = None, NEW x, NEW y, NEW A, NEW B, Keeps(x), Keeps(y),
         op' = [plan |-> <<x, y>>, at |-> A, bytes |-> B], OnlyRam,
         ram' = [dir |-> ram'.dir, next |-> ram.next], Tables(ram', disk),
         \A i \in Rows : Kin(ram'.dir[i], ram.dir[i])
  PROVE  Sound'
<1> DEFINE P == <<x, y>>
<1>1. IsPlan(P) /\ Len(P) = 2 /\ P[1] = x /\ P[2] = y
  BY TwoSteps DEF Keeps
<1>2. op' = [plan |-> P, at |-> A, bytes |-> B]
  OBVIOUS
<1> HIDE DEF P
<1>3. \A k \in 1..Len(P) : k = 1 \/ k = 2
  BY <1>1
<1>4. \A k \in 1..Len(P) : /\ P[k].kind # "super"
                           /\ P[k].kind = "dir" => Kin(P[k].entry, ram.dir[P[k].slot])
  BY <1>1, <1>3 DEF Keeps
<1> QED BY <1>1, <1>2, <1>4, KinPlanKeeps

LEMMA DataKeeps == \A x : Keeps(Body!Put(x))
BY StepsAre DEF Keeps

LEMMA DirKeeps ==
  ASSUME NEW i \in Rows, NEW e \in DirEntry, i = 0 => IsRecord(e), Kin(e, ram.dir[i])
  PROVE  Keeps(Body!Dir(i, e))
BY StepsAre DEF Keeps

LEMMA Holding ==
  ASSUME Sound
  PROVE  /\ Tables(ram, disk) /\ ram = [dir |-> ram.dir, next |-> ram.next]
         /\ \A i \in Rows : Kin(ram.dir[i], ram.dir[i]) /\ ram.dir[i] \in DirEntry
BY AllKin DEF Sound, Tables

LEMMA RecordStrokeKeeps == ASSUME Platters, Sound, Body!RecordStroke PROVE Sound'
<1> DEFINE i == Body!Slot(ram.dir, FixedRecord)
           e == [ram.dir[i] EXCEPT !.len = @ + PerSector]
<1>1. i \in Rows /\ ram.dir[i].present /\ ram.dir[i] \in DirEntry
  <2>1. 0 \in Body!Found(ram.dir, FixedRecord)
    BY DEF Body!Found, Sound, Tables, IsRecord, Rows, Platters
  <2> QED BY <2>1, SlotFound, Holding
<1>2. e \in DirEntry /\ Kin(e, ram.dir[i]) /\ (i = 0 => IsRecord(e))
  BY <1>1 DEF DirEntry, Kin, Platters, Sound, Tables, IsRecord
<1>3. /\ op = None /\ ram' = ram
      /\ \E x, A, B, D : Body!Begin(<<Body!Put(x), Body!Dir(i, e)>>, A, B, D)
  BY DEF Body!RecordStroke, Body!Idle
<1>4. PICK x, A, B : /\ op' = [plan |-> <<Body!Put(x), Body!Dir(i, e)>>, at |-> A, bytes |-> B]
                     /\ OnlyRam
  BY <1>3 DEF Body!Begin, OnlyRam
<1>5. Keeps(Body!Put(x)) /\ Keeps(Body!Dir(i, e))
  BY <1>1, <1>2, DataKeeps, DirKeeps
<1> HIDE DEF i, e
<1> QED BY <1>3, <1>4, <1>5, Holding, TwoKeep

LEMMA RemoveFileKeeps ==
  ASSUME Platters, Sound, NEW n \in Names, Body!RemoveFile(n) PROVE Sound'
<1> DEFINE i == Body!Slot(ram.dir, n)
           e == [ram.dir[i] EXCEPT !.present = FALSE]
<1>1. i \in Rows \ {0} /\ ram.dir[i] \in DirEntry
  BY FileFound, Holding DEF Body!RemoveFile
<1>2. e \in DirEntry /\ Kin(e, ram.dir[i])
  BY <1>1 DEF DirEntry, Kin
<1>3. op = None /\ ram' = ram /\ Body!Begin(<<Body!Dir(i, e)>>, {}, << >>, {n})
  BY DEF Body!RemoveFile, Body!Idle
<1>4. /\ op' = [plan |-> <<Body!Dir(i, e)>>, at |-> {}, bytes |-> << >>]
      /\ OnlyRam
  BY <1>3 DEF Body!Begin, OnlyRam
<1>5. Keeps(Body!Dir(i, e))
  BY <1>1, <1>2, DirKeeps
<1> HIDE DEF i, e
<1> QED BY <1>3, <1>4, <1>5, Holding, OneKeeps

LEMMA WriteBlobAgainKeeps ==
  ASSUME Platters, Sound, NEW n \in Names, Body!WriteBlobAgain(n) PROVE Sound'
<1>1. op = None /\ ram' = ram /\ Body!Begin(<< >>, {n}, <<n>>, {})
  BY DEF Body!WriteBlobAgain, Body!Idle
<1>2. op' = [plan |-> << >>, at |-> {n}, bytes |-> <<n>>] /\ OnlyRam
  BY <1>1 DEF Body!Begin, OnlyRam
<1>3. \A k \in 1..Len(<< >>) : FALSE
  BY EmptyPlan
<1> QED BY <1>1, <1>2, <1>3, Holding, EmptyPlan, KinPlanKeeps

(* A file's entry under another name, its predecessor's taken out first.   *)
LEMMA RenamedKeeps ==
  ASSUME Platters, Sound, NEW o \in Names, NEW n \in Names,
         Body!Rename(o, n) \/ Body!SwapRename(o, n)
  PROVE  Sound'
<1> DEFINE i == Body!Slot(ram.dir, o)
           e == [ram.dir[i] EXCEPT !.name = n]
           j == Body!Slot(ram.dir, n)
           g == [ram.dir[j] EXCEPT !.present = FALSE]
<1>1. Body!TypeAt(o) \notin {"absent", "record"}
  BY DEF Body!Rename, Body!SwapRename
<1>2. i \in Rows \ {0} /\ ram.dir[i] \in DirEntry /\ ram.dir[i].present
  BY <1>1, FileFound, Holding
<1>3. Keeps(Body!Dir(i, e))
  <2>1. e \in DirEntry /\ Kin(e, ram.dir[i])
    BY <1>2 DEF DirEntry, Kin
  <2> QED BY <1>2, <2>1, DirKeeps
<1>4. op = None /\ ram' = ram /\ OnlyRam
  BY DEF Body!Rename, Body!SwapRename, Body!NamedAnew, Body!Idle, OnlyRam
<1>5. CASE \E A, B : op' = [plan |-> Append(<< >>, Body!Dir(i, e)), at |-> A, bytes |-> B]
  <2>1. PICK A, B : op' = [plan |-> Append(<< >>, Body!Dir(i, e)), at |-> A, bytes |-> B]
    BY <1>5
  <2>2. Append(<< >>, Body!Dir(i, e)) = <<Body!Dir(i, e)>>
    BY ShortSequences
  <2> HIDE DEF i, e
  <2> QED BY <1>3, <1>4, <2>1, <2>2, Holding, OneKeeps
<1>6. CASE /\ Body!SwapRename(o, n) /\ Body!TypeAt(n) # "absent"
           /\ \E A, B : op' = [plan |-> Append(<<Body!Dir(j, g)>>, Body!Dir(i, e)), at |-> A, bytes |-> B]
  <2>1. PICK A, B : op' = [plan |-> Append(<<Body!Dir(j, g)>>, Body!Dir(i, e)), at |-> A, bytes |-> B]
    BY <1>6
  <2>2. Append(<<Body!Dir(j, g)>>, Body!Dir(i, e)) = <<Body!Dir(j, g), Body!Dir(i, e)>>
    BY ShortSequences
  <2>3. j \in Rows \ {0} /\ ram.dir[j] \in DirEntry
    BY <1>6, FileFound, Holding DEF Body!SwapRename
  <2>4. Keeps(Body!Dir(j, g))
    <3>1. g \in DirEntry /\ Kin(g, ram.dir[j])
      BY <2>3 DEF DirEntry, Kin
    <3> QED BY <2>3, <3>1, DirKeeps
  <2> HIDE DEF i, e, j, g
  <2> QED BY <1>3, <1>4, <2>1, <2>2, <2>4, Holding, TwoKeep
<1> QED
  <2>1. Body!Rename(o, n) => 
          \E A, B : op' = [plan |-> Append(<< >>, Body!Dir(i, e)), at |-> A, bytes |-> B]
    BY DEF Body!Rename, Body!NamedAnew
  <2>2. Body!SwapRename(o, n) /\ Body!TypeAt(n) = "absent" => 
          \E A, B : op' = [plan |-> Append(<< >>, Body!Dir(i, e)), at |-> A, bytes |-> B]
    BY DEF Body!SwapRename, Body!NamedAnew
  <2>3. Body!SwapRename(o, n) /\ Body!TypeAt(n) # "absent" => 
          \E A, B : op' = [plan |-> Append(<<Body!Dir(j, g)>>, Body!Dir(i, e)), at |-> A, bytes |-> B]
    BY DEF Body!SwapRename, Body!NamedAnew
  <2> QED BY <1>5, <1>6, <2>1, <2>2, <2>3

LEMMA OpenTruncKeeps ==
  ASSUME Platters, Sound, NEW n \in Names, Body!OpenTrunc(n) PROVE Sound'
<1> DEFINE h == Body!Slot(ram.dir, n)
           gone == IF Body!TypeAt(n) = "durable"
                   THEN [ram.dir EXCEPT ![h].present = FALSE] ELSE ram.dir
           i == Body!FirstFree(gone)
           e == Body!Entry(n, "durable", ram.next, 0, 0)
<1>1. /\ op = None /\ ram' = [ram EXCEPT !.dir = gone] /\ Body!FreeSlots(gone) # {}
      /\ Body!TypeAt(n) \in {"absent", "durable"}
      /\ Body!Begin((IF Body!TypeAt(n) = "durable" THEN <<Body!Dir(h, gone[h])>> ELSE << >>)
                    \o <<Body!Dir(i, e)>>, {n}, << >>, {n})
  BY DEF Body!OpenTrunc, Body!Idle
<1>2. /\ Tables(ram, disk) /\ ram = [dir |-> ram.dir, next |-> ram.next]
      /\ \A k \in Rows : Kin(ram.dir[k], ram.dir[k]) /\ ram.dir[k] \in DirEntry
  BY Holding
<1>3. Body!TypeAt(n) = "durable" =>
        h \in Rows \ {0} /\ gone \in [Rows -> DirEntry] /\ ~gone[h].present
        /\ \A k \in Rows : k # h => gone[k] = ram.dir[k]
  <2> SUFFICES ASSUME Body!TypeAt(n) = "durable"
               PROVE  h \in Rows \ {0} /\ gone \in [Rows -> DirEntry] /\ ~gone[h].present
                      /\ \A k \in Rows : k # h => gone[k] = ram.dir[k]
    OBVIOUS
  <2>1. h \in Rows \ {0} /\ ram.dir[h] \in DirEntry
    BY <1>2, FileFound
  <2>2. gone = [ram.dir EXCEPT ![h] = [ram.dir[h] EXCEPT !.present = FALSE]]
    BY <1>2 DEF Tables
  <2>3. [ram.dir[h] EXCEPT !.present = FALSE] \in DirEntry
        /\ ~[ram.dir[h] EXCEPT !.present = FALSE].present
    BY <2>1 DEF DirEntry
  <2> HIDE DEF h, gone
  <2> QED BY <1>2, <2>1, <2>2, <2>3 DEF Tables
<1>4. /\ gone \in [Rows -> DirEntry] /\ IsRecord(gone[0])
      /\ \A k \in Rows : Kin(gone[k], ram.dir[k])
  <2>1. CASE Body!TypeAt(n) = "durable"
    BY <1>2, <1>3, <2>1 DEF Kin, Tables, IsRecord, Rows, Platters
  <2>2. CASE Body!TypeAt(n) # "durable"
    BY <1>2, <2>2 DEF Tables
  <2> QED BY <2>1, <2>2
<1>5. i \in Rows \ {0}
  BY <1>1, <1>4, FreeFound
<1>6. Keeps(Body!Dir(i, e))
  <2>1. e \in DirEntry /\ Kin(e, ram.dir[i])
    BY <1>2 DEF Body!Entry, DirEntry, Kin, Tables
  <2> QED BY <1>5, <2>1, DirKeeps
<1>7. /\ Tables(ram', disk) /\ ram' = [dir |-> ram'.dir, next |-> ram.next]
      /\ \A k \in Rows : Kin(ram'.dir[k], ram.dir[k])
  <2>1. ram' = [dir |-> gone, next |-> ram.next]
    BY <1>1, <1>2
  <2> HIDE DEF gone
  <2> QED BY <1>2, <1>4, <2>1 DEF Tables
<1>8. CASE Body!TypeAt(n) = "durable"
  <2>1. Keeps(Body!Dir(h, gone[h]))
    <3>1. gone[h] \in DirEntry /\ Kin(gone[h], ram.dir[h]) /\ h \in Rows \ {0}
      BY <1>3, <1>4, <1>8
    <3> QED BY <3>1, DirKeeps
  <2>2. Body!Begin(<<Body!Dir(h, gone[h])>> \o <<Body!Dir(i, e)>>, {n}, << >>, {n})
    BY <1>1, <1>8
  <2> HIDE DEF h, gone, i, e
  <2>3. <<Body!Dir(h, gone[h])>> \o <<Body!Dir(i, e)>> = <<Body!Dir(h, gone[h]), Body!Dir(i, e)>>
    BY ShortSequences
  <2>4. op' = [plan |-> <<Body!Dir(h, gone[h]), Body!Dir(i, e)>>, at |-> {n}, bytes |-> << >>]
        /\ OnlyRam
    BY <2>2, <2>3 DEF Body!Begin, OnlyRam
  <2> QED BY <1>1, <1>6, <1>7, <2>1, <2>4, TwoKeep
<1>9. CASE Body!TypeAt(n) # "durable"
  <2>1. Body!Begin(<< >> \o <<Body!Dir(i, e)>>, {n}, << >>, {n})
    BY <1>1, <1>9
  <2> HIDE DEF h, gone, i, e
  <2>2. << >> \o <<Body!Dir(i, e)>> = <<Body!Dir(i, e)>>
    BY ShortSequences
  <2>3. op' = [plan |-> <<Body!Dir(i, e)>>, at |-> {n}, bytes |-> << >>]
        /\ OnlyRam
    BY <2>1, <2>2 DEF Body!Begin, OnlyRam
  <2> QED BY <1>1, <1>6, <1>7, <2>3, OneKeeps
<1> QED BY <1>8, <1>9

(* A blob's bytes, its name, then the allocator past it. *)
LEMMA BlobKeeps ==
  ASSUME Platters, Sound, op = None, NEW i \in Rows \ {0}, NEW n \in Names, NEW bytes, NEW A, NEW B,
         NEW D, ram' = [ram EXCEPT !.next = @ + 1],
         Body!Begin(Body!BlobPlan(i, Body!Entry(n, "blob", ram.next, 1, 1), bytes), A, B, D)
  PROVE  Sound'
<1> DEFINE e == Body!Entry(n, "blob", ram.next, 1, 1)
           x == Body!Put([s \in {e.start} |-> bytes])
           y == Body!Dir(i, e)
           z == Body!Super(i, e, ram.next + 1)
           P == <<x, y, z>>
<1>1. Tables(ram, disk) /\ ram = [dir |-> ram.dir, next |-> ram.next]
      /\ \A k \in Rows : Kin(ram.dir[k], ram.dir[k])
  BY Holding
<1>2. ram.next \in Nat
  BY <1>1 DEF Tables
<1>3. e \in DirEntry /\ e.start = ram.next /\ e.cap = 1
  BY <1>2 DEF Body!Entry, DirEntry
<1>4. op' = [plan |-> P, at |-> A, bytes |-> B] /\ OnlyRam
  BY DEF Body!Begin, OnlyRam, Body!BlobPlan
<1>5. /\ ram'.dir = ram.dir /\ ram'.next = ram.next + 1
      /\ ram' = [dir |-> ram'.dir, next |-> ram'.next] /\ ram'.next >= ram.next
      /\ Tables(ram', disk)
  BY <1>1, <1>2 DEF Tables
<1> HIDE DEF e
<1>6. /\ IsStep(x) /\ x.kind = "data"
      /\ IsStep(y) /\ y.kind = "dir" /\ y.slot = i /\ y.entry = e
      /\ IsStep(z) /\ z.kind = "super" /\ z.slot = i /\ z.entry = e /\ z.next = ram.next + 1
  BY <1>2, <1>3, StepsAre
<1> HIDE DEF x, y, z
<1>7. IsPlan(P) /\ Len(P) = 3 /\ P[1] = x /\ P[2] = y /\ P[3] = z
  BY <1>6, ThreeSteps
<1> HIDE DEF P
<1>8. \A k \in 1..Len(P) : k = 1 \/ k = 2 \/ k = 3
  BY <1>7
<1>9. Below(e, ram.next + 1) /\ Fresh(ram, i, e)
  BY <1>2, <1>3 DEF Below, Fresh, End
<1>10. ToBeCovered(P, 2, e)
  BY <1>6, <1>7, <1>9 DEF ToBeCovered
<1>11. Covered(P, 3, e)
  <2>1. 3 \in 1..3
    OBVIOUS
  <2> QED BY <1>6, <1>7, <1>9, <2>1 DEF Covered
<1>12. Proposes(ram, disk, ram'.next, i, P)
  <2> SUFFICES ASSUME NEW k \in 1..Len(P), P[k].kind # "data"
               PROVE  /\ P[k].slot = i /\ Fresh(ram, i, P[k].entry)
                      /\ Below(P[k].entry, ram'.next)
                      /\ Covered(P, k, P[k].entry) \/ ToBeCovered(P, k, P[k].entry)
                      /\ P[k].kind = "super" => P[k].next >= ram'.next
    BY DEF Proposes
  <2>1. CASE k = 2
    BY <1>5, <1>6, <1>7, <1>9, <1>10, <2>1
  <2>2. CASE k = 3
    BY <1>2, <1>5, <1>6, <1>7, <1>9, <1>11, <2>2
  <2> QED BY <1>6, <1>7, <1>8, <2>1, <2>2
<1>13. \A k \in Rows : Kin(ram'.dir[k], ram.dir[k])
  BY <1>1, <1>5
<1> QED BY <1>4, <1>5, <1>7, <1>12, <1>13, BeginsKeep

LEMMA WriteBlobKeeps ==
  ASSUME Platters, Sound, NEW n \in Names, Body!WriteBlob(n) PROVE Sound'
<1>1. op = None /\ Body!FreeSlots(ram.dir) # {} /\ ram' = [ram EXCEPT !.next = @ + 1]
  BY DEF Body!WriteBlob, Body!Idle
<1>2. Body!FirstFree(ram.dir) \in Rows \ {0}
  BY <1>1, Holding, FreeFound DEF Tables
<1>3. \E A, B, D : Body!Begin(Body!BlobPlan(Body!FirstFree(ram.dir), Body!Entry(n, "blob", ram.next, 1, 1), <<n>>),
                            A, B, D)
  BY DEF Body!WriteBlob
<1> QED BY <1>1, <1>2, <1>3, BlobKeeps

LEMMA WriteMarkerKeeps ==
  ASSUME Platters, Sound, NEW n \in Names, Body!WriteMarker(n) PROVE Sound'
<1>1. CASE Body!TypeAt(n) = "absent"
  <2>1. op = None /\ Body!FreeSlots(ram.dir) # {} /\ ram' = [ram EXCEPT !.next = @ + 1]
    BY <1>1 DEF Body!WriteMarker, Body!Idle
  <2>2. Body!FirstFree(ram.dir) \in Rows \ {0}
    BY <2>1, Holding, FreeFound DEF Tables
  <2>3. \E b, A, B, D : Body!Begin(Body!BlobPlan(Body!FirstFree(ram.dir), Body!Entry(n, "blob", ram.next, 1, 1), b),
                              A, B, D)
    BY <1>1 DEF Body!WriteMarker
  <2> QED BY <2>1, <2>2, <2>3, BlobKeeps
<1>2. CASE Body!TypeAt(n) # "absent"
  <2> DEFINE i == Body!Slot(ram.dir, n)
             e == [ram.dir[i] EXCEPT !.len = 1]
  <2>1. i \in Rows /\ ram.dir[i] \in DirEntry /\ ram.dir[i].present
    BY <1>2, Holding, FileFound
  <2>2. e \in DirEntry /\ Kin(e, ram.dir[i]) /\ (i = 0 => IsRecord(e))
    BY <2>1, Holding DEF DirEntry, Kin, Tables, IsRecord
  <2>3. /\ op = None /\ ram' = ram
        /\ \E x, A, B, D : Body!Begin(<<Body!Put(x), Body!Dir(i, e)>>, A, B, D)
    BY <1>2 DEF Body!WriteMarker, Body!Idle
  <2>4. PICK x, A, B : /\ op' = [plan |-> <<Body!Put(x), Body!Dir(i, e)>>, at |-> A, bytes |-> B]
                       /\ OnlyRam
    BY <2>3 DEF Body!Begin, OnlyRam
  <2>5. Keeps(Body!Put(x)) /\ Keeps(Body!Dir(i, e))
    BY <2>1, <2>2, DataKeeps, DirKeeps
  <2> HIDE DEF i, e
  <2> QED BY <2>3, <2>4, <2>5, Holding, TwoKeep
<1> QED BY <1>1, <1>2

(* A stroke's plan keeps the file's extent, or carries the allocator past  *)
(* the extent it takes before anything names it.                           *)
LEMMA TailPlanSettles ==
  ASSUME Platters, Sound, NEW i \in Rows \ {0}, NEW e \in DirEntry, e.present, Kin(e, ram.dir[i]),
         NEW bytes, Len(bytes) \in Nat
  PROVE  /\ IsPlan(Body!TailPlan(i, e, bytes).plan)
         /\ Settles(ram, ram.next, i, Body!TailPlan(i, e, bytes).plan)
<1> DEFINE need  == Body!Sectors(e.len + Len(bytes))
           tail  == Body!AtTail(e)
           grown == IF need <= e.cap THEN e
                    ELSE IF tail THEN [e EXCEPT !.cap = need]
                    ELSE [e EXCEPT !.start = ram.next, !.cap = need]
           next  == IF need <= e.cap THEN ram.next
                    ELSE IF tail THEN ram.next + need - e.cap ELSE ram.next + need
           last  == [grown EXCEPT !.len = e.len + Len(bytes)]
           x == Body!Super(i, grown, next)
           y == Body!Dir(i, last)
<1>1. PICK p, q :
        Body!TailPlan(i, e, bytes).plan =
          (((IF need > e.cap /\ ~tail /\ e.len > 0 THEN <<Body!Put(p)>> ELSE << >>)
            \o (IF need > e.cap THEN <<x>> ELSE << >>))
           \o (IF bytes = << >> THEN << >> ELSE <<Body!Put(q)>>))
          \o <<y>>
  <2> DEFINE moved == [s \in grown.start..(grown.start + Body!Sectors(e.len) - 1) |->
                         disk.sec[e.start + (s - grown.start)]]
             kept  == IF e.len % PerSector = 0 THEN << >>
                      ELSE SubSeq(disk.sec[e.start + Body!Sectors(e.len) - 1], 1, e.len % PerSector)
             laid2 == Body!Laid(grown.start + (e.len \div PerSector), kept \o bytes)
  <2>1. Body!TailPlan(i, e, bytes).plan =
          (((IF need > e.cap /\ ~tail /\ e.len > 0 THEN <<Body!Put(moved)>> ELSE << >>)
            \o (IF need > e.cap THEN <<x>> ELSE << >>))
           \o (IF bytes = << >> THEN << >> ELSE <<Body!Put(laid2)>>))
          \o <<y>>
    BY DEF Body!TailPlan
  <2> HIDE DEF moved, laid2, x, y, need, tail
  <2> QED BY <2>1
<1>2. need \in Nat /\ ram.next \in Nat /\ e.len \in Nat /\ e.cap \in Nat /\ e.start \in Nat
  <2>1. e.len \in Nat /\ e.cap \in Nat /\ e.start \in Nat
    BY DEF DirEntry
  <2>2. (e.len + Len(bytes) + PerSector - 1) \in Nat /\ PerSector \in Nat \ {0}
    BY <2>1 DEF Platters
  <2> QED BY <2>1, <2>2, DivIsNat DEF Body!Sectors, Sound, Tables
<1>3. tail <=> e.start + e.cap = ram.next
  BY DEF Body!AtTail
<1> HIDE DEF need, tail
<1>4. /\ grown \in DirEntry /\ grown.present /\ last \in DirEntry
      /\ last.present /\ last.start = grown.start /\ last.cap = grown.cap
  <2>1. grown \in DirEntry /\ grown.present
    <3>1. /\ [e EXCEPT !.cap = need] \in DirEntry /\ [e EXCEPT !.cap = need].present
          /\ [e EXCEPT !.start = ram.next, !.cap = need] \in DirEntry
          /\ [e EXCEPT !.start = ram.next, !.cap = need].present
      BY <1>2 DEF DirEntry
    <3> QED BY <3>1
  <2> HIDE DEF grown
  <2> QED BY <1>2, <2>1 DEF DirEntry
<1>5. next \in Nat /\ next >= ram.next
  BY <1>2
<1>6. CASE need <= e.cap
  <2>1. Kin(last, ram.dir[i])
    BY <1>4, <1>6 DEF Kin
  <2>2. ~(need > e.cap)
    BY <1>2, <1>6
  <2> DEFINE C == IF bytes = << >> THEN << >> ELSE <<Body!Put(q)>>
  <2>3. Body!TailPlan(i, e, bytes).plan = ((<< >> \o << >>) \o C) \o <<y>>
    BY <1>1, <2>2
  <2>4. /\ IsPlan(C) /\ \A k \in 1..Len(C) : C[k].kind = "data"
    <3>1. CASE bytes = << >>
      BY <3>1, EmptyPlan
    <3>2. CASE bytes # << >>
      <4>1. \A k \in 1..Len(C) : k = 1
        BY <3>2
      <4> QED BY <3>2, <4>1, StepsAre, OneStep
    <3> QED BY <3>1, <3>2
  <2> HIDE DEF last
  <2>5. IsStep(y) /\ y.kind = "dir" /\ y.slot = i /\ y.entry = last
    BY <1>4, StepsAre
  <2> HIDE DEF C, y
  <2>6. (<< >> \o << >>) \o C = C
    <3>1. PICK S : C \in Seq(S)
      BY <2>4 DEF IsPlan
    <3>2. << >> \o << >> = << >>
      BY EmptySeq, ConcatEmptySeq
    <3> QED BY <3>1, <3>2, ConcatEmptySeq
  <2>7. IsPlan(<<y>>) /\ Len(<<y>>) = 1 /\ <<y>>[1] = y /\ \A k \in 1..Len(<<y>>) : k = 1
    BY <2>5, OneStep
  <2>8. Settles(ram, ram.next, i, C)
    BY <2>4 DEF Settles
  <2>9. IsPlan(C \o <<y>>) /\ Settles(ram, ram.next, i, C \o <<y>>)
    BY <2>1, <2>4, <2>5, <2>7, <2>8, Joined, JoinedSettles
  <2> QED BY <2>3, <2>6, <2>9
<1>7. CASE need > e.cap
  <2>1. Fresh(ram, i, grown) /\ Below(grown, next)
    <3>1. CASE tail
      <4>1. grown.start = e.start /\ grown.cap = need /\ next = ram.next + need - e.cap
        BY <1>2, <1>7, <3>1 DEF DirEntry
      <4>2. Below(grown, next)
        BY <1>2, <1>3, <3>1, <4>1 DEF Below, End
      <4>3. Fresh(ram, i, grown)
        <5>1. CASE e.cap = 0
          BY <1>2, <1>3, <3>1, <4>1, <5>1 DEF Fresh
        <5>2. CASE e.cap # 0
          <6>1. ram.dir[i].present /\ ram.dir[i].start = e.start /\ ram.dir[i].cap = e.cap
            BY <5>2 DEF Kin
          <6> QED BY <1>2, <1>3, <1>7, <3>1, <4>1, <6>1 DEF Fresh, End
        <5> QED BY <5>1, <5>2
      <4> QED BY <4>2, <4>3
    <3>2. CASE ~tail
      <4>1. grown.start = ram.next /\ grown.cap = need /\ next = ram.next + need
        BY <1>2, <1>7, <3>2 DEF DirEntry
      <4> QED BY <1>2, <4>1 DEF Fresh, Below, End
    <3> QED BY <3>1, <3>2
  <2>2. Fresh(ram, i, last) /\ Below(last, next)
    BY <1>4, <2>1 DEF Fresh, Below, End
  <2> DEFINE F == IF need > e.cap /\ ~tail /\ e.len > 0 THEN <<Body!Put(p)>> ELSE << >>
             C == IF bytes = << >> THEN << >> ELSE <<Body!Put(q)>>
  <2> HIDE DEF grown, next, last
  <2>3. Body!TailPlan(i, e, bytes).plan = ((F \o <<x>>) \o C) \o <<y>>
    BY <1>1, <1>7
  <2>4. /\ IsPlan(C) /\ \A k \in 1..Len(C) : C[k].kind = "data"
    <3>1. CASE bytes = << >>
      BY <3>1, EmptyPlan
    <3>2. CASE bytes # << >>
      <4>1. \A k \in 1..Len(C) : k = 1
        BY <3>2
      <4> QED BY <3>2, <4>1, StepsAre, OneStep
    <3> QED BY <3>1, <3>2
  <2>5. /\ IsPlan(F) /\ \A k \in 1..Len(F) : F[k].kind = "data"
    <3>1. CASE need > e.cap /\ ~tail /\ e.len > 0
      <4>1. \A k \in 1..Len(F) : k = 1
        BY <3>1
      <4> QED BY <3>1, <4>1, StepsAre, OneStep
    <3>2. CASE ~(need > e.cap /\ ~tail /\ e.len > 0)
      BY <3>2, EmptyPlan
    <3> QED BY <3>1, <3>2
  <2>6. /\ IsStep(x) /\ x.kind = "super" /\ x.slot = i /\ x.entry = grown /\ x.next = next
        /\ IsStep(y) /\ y.kind = "dir" /\ y.slot = i /\ y.entry = last
    BY <1>4, <1>5, StepsAre
  <2> HIDE DEF F, C, x, y
  <2>7. /\ IsPlan(<<x>>) /\ Len(<<x>>) = 1 /\ <<x>>[1] = x /\ \A k \in 1..Len(<<x>>) : k = 1
        /\ IsPlan(<<y>>) /\ Len(<<y>>) = 1 /\ <<y>>[1] = y /\ \A k \in 1..Len(<<y>>) : k = 1
    BY <2>6, OneStep
  <2>8. Settles(ram, ram.next, i, F)
    BY <2>5 DEF Settles
  <2>9. Covered(<<x>>, 1, grown)
    BY <2>1, <2>6, <2>7 DEF Covered
  <2>10. IsPlan(F \o <<x>>) /\ Settles(ram, ram.next, i, F \o <<x>>)
    BY <1>5, <2>1, <2>5, <2>6, <2>7, <2>8, <2>9, Joined, JoinedSettles
  <2>11. IsPlan((F \o <<x>>) \o C) /\ Settles(ram, ram.next, i, (F \o <<x>>) \o C)
    BY <2>4, <2>10, Joined, JoinedSettles
  <2>12. Covered((F \o <<x>>) \o C, Len((F \o <<x>>) \o C), last)
    <3>1. PICK m \in 1..Len(F \o <<x>>) : (F \o <<x>>)[m] = x
      <4>1. /\ Len(F) \in Nat /\ Len(F \o <<x>>) = Len(F) + 1
            /\ Len(F) + 1 \notin 1..Len(F) => (F \o <<x>>)[Len(F) + 1] = <<x>>[Len(F) + 1 - Len(F)]
        BY <2>5, <2>7, Joined
      <4> QED BY <2>7, <4>1
    <3>2. m \in 1..Len((F \o <<x>>) \o C) /\ ((F \o <<x>>) \o C)[m] = x
      BY <2>4, <2>10, <3>1, Joined
    <3> QED BY <2>2, <2>6, <3>2 DEF Covered
  <2>13. \A k \in 1..Len(<<y>>) : <<y>>[k].kind # "super"
    BY <2>6, <2>7
  <2> DEFINE G == (F \o <<x>>) \o C
  <2>15. IsPlan(G) /\ Settles(ram, ram.next, i, G) /\ Covered(G, Len(G), last)
    BY <2>11, <2>12
  <2> HIDE DEF G
  <2>16. IsPlan(G \o <<y>>)
    BY <2>7, <2>13, <2>15, Joined
  <2>17. \A k \in 1..Len(<<y>>) :
           /\ <<y>>[k].slot = i /\ Fresh(ram, i, <<y>>[k].entry) /\ Covered(G, Len(G), <<y>>[k].entry)
           /\ <<y>>[k].kind # "super"
    BY <2>2, <2>6, <2>7, <2>15
  <2>18. Settles(ram, ram.next, i, G \o <<y>>)
    BY <2>7, <2>15, <2>17, JoinedSettles
  <2>14. IsPlan(((F \o <<x>>) \o C) \o <<y>>) /\ Settles(ram, ram.next, i, ((F \o <<x>>) \o C) \o <<y>>)
    BY <2>16, <2>18 DEF G
  <2> QED BY <2>3, <2>14
<1> QED BY <1>2, <1>6, <1>7

LEMMA StrokeKeeps ==
  ASSUME Platters, Sound, op = None, NEW n \in Names, NEW t \in {"nrec", "durable"},
         Body!TypeAt(n) \in {"absent", "nrec", "durable"}, NEW bytes, Len(bytes) \in Nat,
         Body!Stroke(n, t, bytes)
  PROVE  Sound'
<1> DEFINE found == Body!Found(ram.dir, n) # {}
           i == IF found THEN Body!Slot(ram.dir, n) ELSE Body!FirstFree(ram.dir)
           e == IF found THEN [ram.dir[i] EXCEPT !.type = t] ELSE Body!Entry(n, t, ram.next, 0, 0)
           adopts == found /\ ram.dir[i].type # t
           T == Body!TailPlan(i, e, bytes)
           X == IF adopts THEN <<Body!Dir(i, e)>> ELSE << >>
           P == IF T.fits THEN X \o T.plan ELSE X
<1>1. /\ Tables(ram, disk) /\ ram = [dir |-> ram.dir, next |-> ram.next]
      /\ \A k \in Rows : Kin(ram.dir[k], ram.dir[k]) /\ ram.dir[k] \in DirEntry
  BY Holding
<1>2. /\ ~found => Body!FreeSlots(ram.dir) # {}
      /\ ram' = [ram EXCEPT !.dir[i] = e]
      /\ \E A, B : Body!Begin(P, A, B, {})
  BY DEF Body!Stroke
<1>3. i \in Rows \ {0} /\ e \in DirEntry /\ e.present /\ Kin(e, ram.dir[i])
  <2>1. CASE found
    <3>1. Body!TypeAt(n) # "absent" /\ Body!TypeAt(n) # "record"
      BY <1>1, <2>1, NothingFound
    <3>2. i \in Rows \ {0} /\ ram.dir[i] \in DirEntry /\ ram.dir[i].present
      BY <1>1, <2>1, <3>1, FileFound
    <3>3. e = [ram.dir[i] EXCEPT !.type = t]
      BY <2>1
    <3> HIDE DEF i, e
    <3> QED BY <3>2, <3>3 DEF DirEntry, Kin
  <2>2. CASE ~found
    <3>1. i \in Rows \ {0}
      BY <1>1, <1>2, <2>2, FreeFound DEF Tables
    <3>2. e \in DirEntry /\ e.present /\ e.cap = 0
      BY <1>1, <2>2 DEF Body!Entry, DirEntry, Tables
    <3> QED BY <3>1, <3>2 DEF Kin
  <2> QED BY <2>1, <2>2
<1> HIDE DEF i, e, found
<1>4. /\ ram'.dir = [ram.dir EXCEPT ![i] = e] /\ ram'.next = ram.next
      /\ ram' = [dir |-> ram'.dir, next |-> ram'.next]
  BY <1>1, <1>2
<1>5. ram'.dir \in [Rows -> DirEntry] /\ IsRecord(ram'.dir[0])
      /\ \A k \in Rows : Kin(ram'.dir[k], ram.dir[k])
  BY <1>1, <1>3, <1>4 DEF Tables
<1>6. IsPlan(X) /\ Settles(ram, ram.next, i, X) /\ \A k \in 1..Len(X) : X[k].kind # "super"
  <2>1. CASE adopts
    <3>1. IsStep(Body!Dir(i, e)) /\ Body!Dir(i, e).kind = "dir" /\ Body!Dir(i, e).slot = i
          /\ Body!Dir(i, e).entry = e
      BY <1>3, StepsAre
    <3>2. IsPlan(X) /\ Len(X) = 1 /\ X[1] = Body!Dir(i, e)
      BY <2>1, <3>1, OneStep
    <3>3. \A k \in 1..Len(X) : k = 1
      BY <3>2
    <3> QED BY <1>3, <3>1, <3>2, <3>3 DEF Settles
  <2>2. CASE ~adopts
    BY <2>2, EmptyPlan DEF Settles
  <2> QED BY <2>1, <2>2
<1>7. IsPlan(T.plan) /\ Settles(ram, ram.next, i, T.plan)
  BY <1>3, TailPlanSettles
<1>8. PICK A, B : op' = [plan |-> P, at |-> A, bytes |-> B] /\ OnlyRam
  BY <1>2 DEF Body!Begin, OnlyRam
<1> HIDE DEF X, T
<1>9. IsPlan(X \o T.plan) /\ Settles(ram, ram.next, i, X \o T.plan)
  <2>1. \A k \in 1..Len(T.plan) : T.plan[k].kind # "data" =>
          /\ \/ Kin(T.plan[k].entry, ram.dir[T.plan[k].slot])
             \/ /\ T.plan[k].slot = i /\ Fresh(ram, i, T.plan[k].entry)
                /\ \/ Covered(T.plan, k, T.plan[k].entry)
                   \/ Covered(X, Len(X), T.plan[k].entry)
          /\ T.plan[k].kind = "super" => T.plan[k].next >= ram.next
    BY <1>7 DEF Settles
  <2> QED BY <1>6, <1>7, <2>1, Joined, JoinedSettles
<1>10. IsPlan(P) /\ Settles(ram, ram.next, i, P)
  BY <1>6, <1>9
<1> HIDE DEF P
<1>11. Proposes(ram, disk, ram'.next, i, P)
  BY <1>4, <1>10, SettlesProposes
<1>12. Tables(ram', disk)
  BY <1>1, <1>4, <1>5 DEF Tables
<1>13. ram'.next >= ram.next
  BY <1>1, <1>4 DEF Tables
<1> QED BY <1>3, <1>4, <1>5, <1>8, <1>10, <1>11, <1>12, <1>13, BeginsKeep

LEMMA AppendsKeep ==
  ASSUME Platters, Sound, NEW n \in Names,
         Body!OpenAppend(n) \/ Body!AppendStroke(n) \/ Body!WriteStaged(n)
  PROVE  Sound'
<1>1. CASE Body!OpenAppend(n)
  <2>1. /\ op = None /\ Body!TypeAt(n) \in {"absent", "nrec", "durable"}
        /\ Body!Stroke(n, "nrec", << >>)
    BY <1>1 DEF Body!OpenAppend, Body!Idle
  <2> QED BY <2>1, EmptyPlan, StrokeKeeps
<1>2. CASE Body!AppendStroke(n)
  <2>1. PICK k \in Lengths : /\ op = None /\ Body!TypeAt(n) = "nrec"
                             /\ Body!Stroke(n, "nrec", [x \in 1..k |-> Body!Mark])
    BY <1>2 DEF Body!AppendStroke, Body!Idle
  <2>2. Len([x \in 1..k |-> Body!Mark]) \in Nat
    BY DEF Platters
  <2> QED BY <2>1, <2>2, StrokeKeeps
<1>3. CASE Body!WriteStaged(n)
  <2>1. PICK k \in Lengths : /\ op = None /\ Body!TypeAt(n) = "durable"
                             /\ Body!Stroke(n, "durable", [x \in 1..k |-> Body!Mark])
    BY <1>3 DEF Body!WriteStaged, Body!Idle
  <2>2. Len([x \in 1..k |-> Body!Mark]) \in Nat
    BY DEF Platters
  <2> QED BY <2>1, <2>2, StrokeKeeps
<1> QED BY <1>1, <1>2, <1>3

LEMMA PlatterInit == ASSUME Platters, Body!Init PROVE Sound
<1> DEFINE rec == Body!Entry(FixedRecord, "record", 1, 0, RecCap)
<1>1. /\ disk = [dir |-> [i \in Rows |-> IF i = 0 THEN rec ELSE Body!FreeEntry],
                 next |-> RecCap + 1, sec |-> [s \in 1..Total |-> << >>]]
      /\ ram = [dir |-> disk.dir, next |-> disk.next] /\ op = None /\ exposed = FALSE
      /\ firm = disk /\ unheeded = 0
  BY DEF Body!Init, Body!Mounted, Rows
<1>2. /\ disk = [dir |-> disk.dir, next |-> disk.next, sec |-> disk.sec]
      /\ ram = [dir |-> ram.dir, next |-> ram.next] /\ ram.dir = disk.dir /\ ram.next = disk.next
      /\ disk.next = RecCap + 1
      /\ \A i \in Rows : disk.dir[i] = IF i = 0 THEN rec ELSE Body!FreeEntry
  BY <1>1
<1>3. /\ rec \in DirEntry /\ IsRecord(rec) /\ rec.start = 1 /\ rec.cap = RecCap
      /\ Body!FreeEntry \in DirEntry /\ ~Body!FreeEntry.present
  BY DEF Body!Entry, Body!FreeEntry, DirEntry, IsRecord, Platters
<1>4. disk.dir \in [Rows -> DirEntry] /\ 0 \in Rows
  BY <1>1, <1>3 DEF Rows, Platters
<1>5. Tables(ram, disk) /\ Tables(ram, ram)
  BY <1>2, <1>3, <1>4 DEF Tables, Platters
<1> HIDE DEF rec
<1>6. Apart(ram, disk, << >>)
  BY <1>2, <1>3, EmptyPlan DEF Apart, IsClaim, Clear
<1>7. Below(rec, RecCap + 1) /\ Below(Body!FreeEntry, RecCap + 1)
  BY <1>3 DEF Below, End, Platters
<1>8. Allotted(ram, disk, << >>)
  BY <1>2, <1>7, EmptyPlan DEF Allotted, Platters
<1>9. Clean(ram, ram, << >>)
  BY <1>2, <1>5, <1>6, <1>8, MountedAlone DEF Clean
<1> QED BY <1>1, <1>2, <1>5, <1>6, <1>8, <1>9, EmptyPlan DEF Sound, Clean, Remaining

LEMMA PlatterInductive == ASSUME Platters, Sound, [Body!Next]_(Body!vars) PROVE Sound'
<1>1. ASSUME NEW n \in Names, Body!OpenAppend(n) \/ Body!AppendStroke(n) \/ Body!WriteStaged(n)
      PROVE  Sound'
  BY <1>1, AppendsKeep
<1>2. ASSUME NEW n \in Names, Body!OpenTrunc(n) PROVE Sound'
  BY <1>2, OpenTruncKeeps
<1>3. ASSUME NEW n \in Names, Body!WriteBlob(n) PROVE Sound'
  BY <1>3, WriteBlobKeeps
<1>4. ASSUME NEW n \in Names, Body!WriteBlobAgain(n) PROVE Sound'
  BY <1>4, WriteBlobAgainKeeps
<1>5. ASSUME NEW n \in Names, Body!WriteMarker(n) PROVE Sound'
  BY <1>5, WriteMarkerKeeps
<1>6. ASSUME NEW n \in Names, Body!RemoveFile(n) PROVE Sound'
  BY <1>6, RemoveFileKeeps
<1>7. ASSUME NEW o \in Names, NEW n \in Names, Body!Rename(o, n) \/ Body!SwapRename(o, n) PROVE Sound'
  BY <1>7, RenamedKeeps
<1>8. CASE Body!RecordStroke BY <1>8, RecordStrokeKeeps
<1>9. CASE Body!Perform \/ Body!PerformUnheeded BY <1>9, PerformsKeep
<1>10. CASE Body!SectorFails BY <1>10, SectorFailsKeeps
<1>11. CASE Body!Answer BY <1>11, AnswerKeeps
<1>12. CASE Body!Crash BY <1>12, CrashKeeps
<1>13. CASE UNCHANGED Body!vars
  BY <1>13 DEF Body!vars, Sound, Remaining
<1> QED
  BY <1>1, <1>2, <1>3, <1>4, <1>5, <1>6, <1>7, <1>8, <1>9, <1>10, <1>11, <1>12, <1>13 DEF Body!Next

LEMMA SoundIsApart == ASSUME Platters, Sound, ~exposed PROVE Body!ExtentsAreApart
<1>1. /\ Tables(ram, disk) /\ Apart(ram, ram, Remaining) /\ Allotted(ram, ram, Remaining)
      /\ DOMAIN ram.dir = Rows /\ \A i \in Rows : ram.dir[i] \in DirEntry
  BY DEF Sound, Clean, Tables
<1>2. ASSUME NEW i \in Rows, NEW j \in Rows, ram.dir[i].present, ram.dir[j].present, i # j
      PROVE  Body!Extent(ram.dir[i]) \cap Body!Extent(ram.dir[j]) = {}
  <2>1. Clear(ram.dir[i], ram.dir[j])
    BY <1>1, <1>2 DEF Apart, IsClaim
  <2> QED BY <1>1, <1>2, <2>1 DEF Clear, End, Body!Extent, DirEntry
<1>3. \A i \in Rows : ram.dir[i].present /\ ram.dir[i].cap > 0 =>
                        ram.dir[i].start + ram.dir[i].cap <= ram.next
  BY <1>1 DEF Allotted, Below, End
<1> QED BY <1>1, <1>2, <1>3 DEF Body!ExtentsAreApart

(* No two files of the table share a sector and none lies past next_free:  *)
(* while the power stays, whatever sector or flush fails, heeded or not;   *)
(* and after any power cuts, unless one came after a failure the body took *)
(* no heed of or between a blob's name and the superblock (fs_nrec_append, *)
(* fs_blob_write_once, persist_entry, persist_super, fs_mount).            *)
THEOREM ExtentsStayApart ==
  Platters => (Body!Spec => [](~exposed => Body!ExtentsAreApart))
<1> SUFFICES ASSUME Platters PROVE Body!Spec => [](~exposed => Body!ExtentsAreApart)
  OBVIOUS
<1>1. Body!Init => Sound
  BY PlatterInit
<1>2. Sound /\ [Body!Next]_(Body!vars) => Sound'
  BY PlatterInductive
<1>3. Sound => (~exposed => Body!ExtentsAreApart)
  BY SoundIsApart
<1> QED BY <1>1, <1>2, <1>3, PTL DEF Body!Spec

(***************************************************************************)
(* The body's memory (Frames.tla), for any number of frames and pages, any *)
(* enclosures and any heap.  The three maps' entries are places, each with *)
(* a frame or none; the invariant is that a frame is in one place exactly  *)
(* if it is taken and not reserved.  A map, an unmap and the heap's sum    *)
(* are folds, walked place by place.                                       *)
(***************************************************************************)
CONSTANTS NFrames, Reserved, BrkPages, MapPages, PerTable, Enclosures, UnmapsActive, HeapSize
VARIABLES used, free, map, active, brk, nextMap, heap

Paged == INSTANCE Frames

(* There is a page to load, and the unmap act edits the running map.       *)
Paging ==
  /\ NFrames \in Nat /\ Reserved \subseteq 1..NFrames
  /\ BrkPages \in Nat \ {0} /\ MapPages \in Nat /\ PerTable \in Nat \ {0}
  /\ HeapSize \in Nat /\ HeapSize >= 2
  /\ UnmapsActive

LEMMA GreatestIs ==
  ASSUME NEW S, NEW n \in S, \A m \in S : m \in Nat /\ m <= n
  PROVE  Paged!Max(S) = n
<1> DEFINE top == CHOOSE x \in S : \A y \in S : x >= y
<1>1. n \in Nat /\ \A y \in S : n >= y
  OBVIOUS
<1>2. top \in S /\ \A y \in S : top >= y
  BY <1>1
<1> HIDE DEF top
<1>3. top \in Nat /\ top <= n /\ top >= n
  BY <1>2
<1>4. top = n
  BY <1>1, <1>3
<1> QED BY <1>4 DEF Paged!Max, top

(* One step of the three folds: to back an absent page of the map m0, to   *)
(* release a page of the running map, to add a block to the heap's sum.    *)
Passed(what, m0, acc, e) ==
  CASE what = "backs" -> IF acc.map[m0].pte[e] # 0 THEN acc ELSE Paged!Back(acc, m0, e, TRUE)
    [] what = "releases" -> Paged!ReleasePage(acc, e)
    [] OTHER -> acc + e.size + 1

PassIs(what, m0, base, es, n, f) ==
  f = [S \in SUBSET (1..n) |->
         IF S = {} THEN base
         ELSE Passed(what, m0, f[S \ {Paged!Max(S)}], es[Paged!Max(S)])]

LEMMA SomePass ==
  ASSUME NEW what, NEW m0, NEW base, NEW es, NEW n \in Nat
  PROVE  \E f : PassIs(what, m0, base, es, n, f)
<1> DEFINE D == {k \in 0..n : ~ \E f : PassIs(what, m0, base, es, k, f)}
<1> SUFFICES ASSUME D # {} PROVE FALSE
  OBVIOUS
<1>0. D \subseteq Nat
  OBVIOUS
<1>1. PICK k \in D : \A m \in D : k <= m
  BY <1>0, LeastExists
<1>2. CASE k = 0
  <2> DEFINE f == [S \in SUBSET (1..0) |-> base]
  <2>1. \A S \in SUBSET (1..0) : S = {}
    OBVIOUS
  <2>2. PassIs(what, m0, base, es, 0, f)
    BY <2>1 DEF PassIs
  <2> QED BY <1>1, <1>2, <2>2
<1>3. CASE k # 0
  <2>1. k \in 1..n /\ k - 1 \in 0..n /\ k - 1 \notin D
    BY <1>1, <1>3
  <2>2. PICK f : PassIs(what, m0, base, es, k - 1, f)
    BY <2>1
  <2> DEFINE g == [S \in SUBSET (1..k) |->
                     IF k \in S THEN Passed(what, m0, f[S \ {k}], es[k]) ELSE f[S]]
  <2>3. \A S \in SUBSET (1..k) : k \notin S => S \in SUBSET (1..(k-1))
    BY <2>1
  <2>4. \A S \in SUBSET (1..(k-1)) : S \in SUBSET (1..k) /\ k \notin S
    BY <2>1
  <2>5. \A S \in SUBSET (1..(k-1)) :
          f[S] = IF S = {} THEN base
                 ELSE Passed(what, m0, f[S \ {Paged!Max(S)}], es[Paged!Max(S)])
    BY <2>2 DEF PassIs
  <2>6. \A S \in SUBSET (1..(k-1)) : g[S] = f[S]
    BY <2>4
  <2>7. \A S \in SUBSET (1..k) : k \in S => g[S] = Passed(what, m0, f[S \ {k}], es[k])
    OBVIOUS
  <2>8. g = [S \in SUBSET (1..k) |-> g[S]]
    OBVIOUS
  <2> HIDE DEF g
  <2>9. \A S \in SUBSET (1..k) :
          g[S] = IF S = {} THEN base
                 ELSE Passed(what, m0, g[S \ {Paged!Max(S)}], es[Paged!Max(S)])
    <3> TAKE S \in SUBSET (1..k)
    <3>1. CASE k \in S
      <4>1. Paged!Max(S) = k
        <5>1. \A m \in S : m \in Nat /\ m <= k
          BY <2>1
        <5> QED BY <3>1, <5>1, GreatestIs
      <4>2. S \ {k} \in SUBSET (1..(k-1))
        BY <2>1
      <4>3. S # {} /\ g[S \ {k}] = f[S \ {k}]
        BY <2>6, <3>1, <4>2
      <4> QED BY <2>7, <3>1, <4>1, <4>3
    <3>2. CASE k \notin S
      <4>1. S \in SUBSET (1..(k-1)) /\ S \ {Paged!Max(S)} \in SUBSET (1..(k-1))
        BY <2>3, <3>2
      <4>2. g[S] = f[S] /\ g[S \ {Paged!Max(S)}] = f[S \ {Paged!Max(S)}]
        BY <2>6, <4>1
      <4> QED BY <2>5, <4>1, <4>2
    <3> QED BY <3>1, <3>2
  <2>10. PassIs(what, m0, base, es, k, g)
    BY <2>8, <2>9 DEF PassIs
  <2> QED BY <1>1, <2>10
<1> QED BY <1>2, <1>3

PassBy(what, m0, base, es, g) ==
  /\ g[0] = base
  /\ \A k \in 1..Len(es) : g[k] = Passed(what, m0, g[k - 1], es[k])

LEMMA PassSteps ==
  ASSUME NEW what, NEW m0, NEW base, NEW es, Len(es) \in Nat,
         NEW f, PassIs(what, m0, base, es, Len(es), f)
  PROVE  \E g : PassBy(what, m0, base, es, g) /\ g[Len(es)] = f[1..Len(es)]
<1> DEFINE n == Len(es)
           g == [k \in 0..n |-> f[1..k]]
<1>1. n \in Nat
  OBVIOUS
<1>4. \A S \in SUBSET (1..n) :
        f[S] = IF S = {} THEN base
               ELSE Passed(what, m0, f[S \ {Paged!Max(S)}], es[Paged!Max(S)])
  BY DEF PassIs
<1>5. f[1..0] = base
  <2>1. 1..0 = {} /\ 1..0 \in SUBSET (1..n)
    BY <1>1
  <2> QED BY <1>4, <2>1
<1> HIDE DEF n
<1>6. ASSUME NEW k \in 1..n PROVE f[1..k] = Passed(what, m0, f[1..(k - 1)], es[k])
  <2>1. 1..k \in SUBSET (1..n) /\ k \in 1..k /\ (1..k) \ {k} = 1..(k-1)
        /\ \A m \in 1..k : m \in Nat /\ m <= k
    BY <1>1
  <2>2. Paged!Max(1..k) = k
    BY <2>1, GreatestIs
  <2>3. 1..k # {}
    BY <2>1
  <2> QED BY <1>4, <2>1, <2>2, <2>3
<1>7. /\ 0 \in 0..n /\ n \in 0..n
      /\ \A k \in 1..n : k \in 0..n /\ k - 1 \in 0..n
  BY <1>1
<1>8. g[0] = base /\ g[n] = f[1..n]
  BY <1>5, <1>7
<1>9. \A k \in 1..n : g[k] = Passed(what, m0, g[k - 1], es[k])
  BY <1>6, <1>7
<1> HIDE DEF g
<1> QED BY <1>8, <1>9 DEF n, PassBy

LEMMA PageRangeIs ==
  ASSUME NEW from \in Nat, NEW to \in Nat
  PROVE  /\ Len(Paged!PageRange(from, to)) \in Nat
         /\ DOMAIN Paged!PageRange(from, to) = 1..Len(Paged!PageRange(from, to))
         /\ \A k \in 1..Len(Paged!PageRange(from, to)) :
              Paged!PageRange(from, to)[k] \in from..to
<1> DEFINE n == IF to < from THEN 0 ELSE to - from + 1
<1>1. n \in Nat
  OBVIOUS
<1>2. Paged!PageRange(from, to) = [k \in 1..n |-> from + k - 1]
  BY DEF Paged!PageRange
<1>3. \A k \in 1..n : from + k - 1 \in from..to
  OBVIOUS
<1> HIDE DEF n
<1>4. Len([k \in 1..n |-> from + k - 1]) = n
  BY <1>1
<1> QED BY <1>1, <1>2, <1>3, <1>4

LEMMA BackAbsentSteps ==
  ASSUME NEW s, NEW m, NEW from \in Nat, NEW to \in Nat
  PROVE  LET q == Paged!PageRange(from, to)
         IN  \E g : PassBy("backs", m, s, q, g) /\ Paged!BackAbsent(s, m, from, to) = g[Len(q)]
<1> DEFINE q == Paged!PageRange(from, to)
           n == Len(q)
           f == CHOOSE h : PassIs("backs", m, s, q, n, h)
<1>1. n \in Nat /\ DOMAIN q = 1..n
  BY PageRangeIs
<1>2. PassIs("backs", m, s, q, n, f)
  BY <1>1, SomePass
<1>3. Paged!BackAbsent(s, m, from, to) = f[1..n]
  BY <1>1 DEF Paged!BackAbsent, Passed, Paged!FoldLeft, Paged!MapThenFoldSet, PassIs
<1> HIDE DEF f
<1> QED BY <1>1, <1>2, <1>3, PassSteps

LEMMA ReleaseSteps ==
  ASSUME NEW s, NEW from \in Nat, NEW to \in Nat
  PROVE  LET q == Paged!PageRange(from, to)
         IN  \E g : PassBy("releases", 0, s, q, g) /\ Paged!Release(s, from, to) = g[Len(q)]
<1> DEFINE q == Paged!PageRange(from, to)
           n == Len(q)
           f == CHOOSE h : PassIs("releases", 0, s, q, n, h)
<1>1. n \in Nat /\ DOMAIN q = 1..n
  BY PageRangeIs
<1>2. PassIs("releases", 0, s, q, n, f)
  BY <1>1, SomePass
<1>3. Paged!Release(s, from, to) = f[1..n]
  BY <1>1 DEF Paged!Release, Passed, Paged!FoldLeft, Paged!MapThenFoldSet, PassIs
<1> HIDE DEF f
<1> QED BY <1>1, <1>2, <1>3, PassSteps

(* What the blocks of a heap take of its area.                             *)
Taken(h) == Paged!FoldLeft(LAMBDA n, b : n + b.size + 1, 0, h)

LEMMA SumSteps ==
  ASSUME NEW h, Len(h) \in Nat, DOMAIN h = 1..Len(h)
  PROVE  \E g : PassBy("sums", 0, 0, h, g) /\ Taken(h) = g[Len(h)]
<1> DEFINE n == Len(h)
           f == CHOOSE x : PassIs("sums", 0, 0, h, n, x)
<1>1. n \in Nat /\ DOMAIN h = 1..n
  OBVIOUS
<1>2. PassIs("sums", 0, 0, h, n, f)
  BY <1>1, SomePass
<1>3. Taken(h) = f[1..n]
  BY <1>1 DEF Taken, Passed, Paged!FoldLeft, Paged!MapThenFoldSet, PassIs
<1> HIDE DEF f
<1> QED BY <1>1, <1>2, <1>3, PassSteps

(* The entries of the maps: the root of each, its tables, its pages.       *)
TablesOf == {Paged!TableOf(p) : p \in Paged!Pages}
Hierarchy == [root : Nat, tables : [TablesOf -> Nat], pte : [Paged!Pages -> Nat]]
Entry3 ==
  ({"root"} \X Paged!Maps \X {0}) \cup ({"table"} \X Paged!Maps \X TablesOf)
    \cup ({"page"} \X Paged!Maps \X Paged!Pages)

FrameAt(M, x) ==
  CASE x[1] = "root" -> M[x[2]].root
    [] x[1] = "table" -> M[x[2]].tables[x[3]]
    [] OTHER -> M[x[2]].pte[x[3]]

(* A frame is in one entry exactly if it is taken and not reserved.        *)
Single(u, M) ==
  /\ \A x \in Entry3 : FrameAt(M, x) # 0 => FrameAt(M, x) \in u \ Reserved
  /\ \A x, y \in Entry3 : FrameAt(M, x) = FrameAt(M, y) /\ FrameAt(M, x) # 0 => x = y
  /\ \A f \in u \ Reserved : \E x \in Entry3 : FrameAt(M, x) = f

(* A map that is not built has nothing in it.                              *)
Unbuilt(M) ==
  \A m \in Paged!Maps : M[m].root = 0 =>
    (\A t \in TablesOf : M[m].tables[t] = 0) /\ (\A p \in Paged!Pages : M[m].pte[p] = 0)

Pooled(u, n) ==
  /\ Reserved \subseteq u /\ u \subseteq Paged!AllFrames
  /\ n = Cardinality(Paged!AllFrames \ u)

(* The allocator's state, as the acts pass it on.                          *)
Pool(s, u, n, M, o) ==
  /\ DOMAIN s = {"used", "free", "map", "ok"}
  /\ s.used = u /\ s.free = n /\ s.map = M /\ s.ok = o

Kept(s) ==
  /\ DOMAIN s = {"used", "free", "map", "ok"} /\ s.ok \in BOOLEAN
  /\ Pooled(s.used, s.free)
  /\ s.map \in [Paged!Maps -> Hierarchy]
  /\ Single(s.used, s.map) /\ Unbuilt(s.map)

Puts(M, M2, x, f) == \A y \in Entry3 : FrameAt(M2, y) = IF y = x THEN f ELSE FrameAt(M, y)

LEMMA EntryIs ==
  \A x \in Entry3 :
    \/ \E m \in Paged!Maps : x = <<"root", m, 0>>
    \/ \E m \in Paged!Maps, t \in TablesOf : x = <<"table", m, t>>
    \/ \E m \in Paged!Maps, p \in Paged!Pages : x = <<"page", m, p>>
  BY DEF Entry3

RootIn(M, m, f)     == [M EXCEPT ![m].root = f]
TableIn(M, m, t, f) == [M EXCEPT ![m].tables[t] = f]
PageIn(M, m, p, f)  == [M EXCEPT ![m].pte[p] = f]

LEMMA RootPut ==
  ASSUME NEW M \in [Paged!Maps -> Hierarchy], NEW m \in Paged!Maps, NEW f \in Nat
  PROVE  LET M2 == RootIn(M, m, f)
         IN  /\ M2 \in [Paged!Maps -> Hierarchy] /\ Puts(M, M2, <<"root", m, 0>>, f)
             /\ M2[m].root = f /\ M2[m].tables = M[m].tables /\ M2[m].pte = M[m].pte
             /\ \A k \in Paged!Maps : k # m => M2[k] = M[k]
<1> DEFINE M2 == [M EXCEPT ![m].root = f]
<1>1. M2 \in [Paged!Maps -> Hierarchy]
  BY DEF Hierarchy
<1>2. M2[m].root = f /\ M2[m].tables = M[m].tables /\ M2[m].pte = M[m].pte
  BY DEF Hierarchy
<1>3. \A k \in Paged!Maps : k # m => M2[k] = M[k]
  OBVIOUS
<1> HIDE DEF M2
<1>4. ASSUME NEW y \in Entry3
      PROVE  FrameAt(M2, y) = IF y = <<"root", m, 0>> THEN f ELSE FrameAt(M, y)
  <2>1. CASE \E k \in Paged!Maps : y = <<"root", k, 0>>
    BY <1>2, <1>3, <2>1 DEF FrameAt
  <2>2. CASE \E k \in Paged!Maps, t \in TablesOf : y = <<"table", k, t>>
    BY <1>2, <1>3, <2>2 DEF FrameAt
  <2>3. CASE \E k \in Paged!Maps, p \in Paged!Pages : y = <<"page", k, p>>
    BY <1>2, <1>3, <2>3 DEF FrameAt
  <2> QED BY <2>1, <2>2, <2>3, EntryIs
<1> QED BY <1>1, <1>2, <1>3, <1>4 DEF M2, Puts, RootIn

LEMMA TablePut ==
  ASSUME NEW M \in [Paged!Maps -> Hierarchy], NEW m \in Paged!Maps, NEW t \in TablesOf, NEW f \in Nat
  PROVE  LET M2 == TableIn(M, m, t, f)
         IN  /\ M2 \in [Paged!Maps -> Hierarchy] /\ Puts(M, M2, <<"table", m, t>>, f)
             /\ \A k \in Paged!Maps : M2[k].root = M[k].root /\ M2[k].pte = M[k].pte
             /\ \A k \in Paged!Maps : k # m => M2[k] = M[k]
             /\ \A j \in TablesOf : M2[m].tables[j] = IF j = t THEN f ELSE M[m].tables[j]
<1> DEFINE M2 == [M EXCEPT ![m].tables[t] = f]
<1>0. M[m] \in Hierarchy /\ \A k \in Paged!Maps : M[k] \in Hierarchy
  OBVIOUS
<1>1. M2 \in [Paged!Maps -> Hierarchy]
  BY DEF Hierarchy
<1>2. M2[m].tables = [M[m].tables EXCEPT ![t] = f] /\ M2[m].root = M[m].root /\ M2[m].pte = M[m].pte
  BY <1>0 DEF Hierarchy
<1>3. \A k \in Paged!Maps : k # m => M2[k] = M[k]
  OBVIOUS
<1> HIDE DEF M2
<1>5. \A k \in Paged!Maps : M2[k].root = M[k].root /\ M2[k].pte = M[k].pte
  BY <1>2, <1>3
<1>6. \A k \in Paged!Maps, j \in TablesOf :
        M2[k].tables[j] = IF k = m /\ j = t THEN f ELSE M[k].tables[j]
  BY <1>0, <1>2, <1>3 DEF Hierarchy
<1>4. ASSUME NEW y \in Entry3
      PROVE  FrameAt(M2, y) = IF y = <<"table", m, t>> THEN f ELSE FrameAt(M, y)
  <2>1. CASE \E k \in Paged!Maps : y = <<"root", k, 0>>
    BY <1>5, <2>1 DEF FrameAt
  <2>2. CASE \E k \in Paged!Maps, j \in TablesOf : y = <<"table", k, j>>
    BY <1>6, <2>2 DEF FrameAt
  <2>3. CASE \E k \in Paged!Maps, p \in Paged!Pages : y = <<"page", k, p>>
    BY <1>5, <2>3 DEF FrameAt
  <2> QED BY <2>1, <2>2, <2>3, EntryIs
<1>7. M2 = TableIn(M, m, t, f)
  BY DEF M2, TableIn
<1>8. \A j \in TablesOf : M2[m].tables[j] = IF j = t THEN f ELSE M[m].tables[j]
  BY <1>6
<1>9. Puts(M, M2, <<"table", m, t>>, f)
  BY <1>4 DEF Puts
<1> QED BY <1>1, <1>3, <1>5, <1>7, <1>8, <1>9

LEMMA PagePut ==
  ASSUME NEW M \in [Paged!Maps -> Hierarchy], NEW m \in Paged!Maps, NEW p \in Paged!Pages, NEW f \in Nat
  PROVE  LET M2 == PageIn(M, m, p, f)
         IN  /\ M2 \in [Paged!Maps -> Hierarchy] /\ Puts(M, M2, <<"page", m, p>>, f)
             /\ \A k \in Paged!Maps : M2[k].root = M[k].root /\ M2[k].tables = M[k].tables
             /\ \A k \in Paged!Maps : k # m => M2[k] = M[k]
             /\ \A j \in Paged!Pages : M2[m].pte[j] = IF j = p THEN f ELSE M[m].pte[j]
<1> DEFINE M2 == [M EXCEPT ![m].pte[p] = f]
<1>0. M[m] \in Hierarchy /\ \A k \in Paged!Maps : M[k] \in Hierarchy
  OBVIOUS
<1>1. M2 \in [Paged!Maps -> Hierarchy]
  BY DEF Hierarchy
<1>2. M2[m].pte = [M[m].pte EXCEPT ![p] = f] /\ M2[m].root = M[m].root /\ M2[m].tables = M[m].tables
  BY <1>0 DEF Hierarchy
<1>3. \A k \in Paged!Maps : k # m => M2[k] = M[k]
  OBVIOUS
<1> HIDE DEF M2
<1>5. \A k \in Paged!Maps : M2[k].root = M[k].root /\ M2[k].tables = M[k].tables
  BY <1>2, <1>3
<1>6. \A k \in Paged!Maps, j \in Paged!Pages :
        M2[k].pte[j] = IF k = m /\ j = p THEN f ELSE M[k].pte[j]
  BY <1>0, <1>2, <1>3 DEF Hierarchy
<1>4. ASSUME NEW y \in Entry3
      PROVE  FrameAt(M2, y) = IF y = <<"page", m, p>> THEN f ELSE FrameAt(M, y)
  <2>1. CASE \E k \in Paged!Maps : y = <<"root", k, 0>>
    BY <1>5, <2>1 DEF FrameAt
  <2>2. CASE \E k \in Paged!Maps, t \in TablesOf : y = <<"table", k, t>>
    BY <1>5, <2>2 DEF FrameAt
  <2>3. CASE \E k \in Paged!Maps, j \in Paged!Pages : y = <<"page", k, j>>
    BY <1>6, <2>3 DEF FrameAt
  <2> QED BY <2>1, <2>2, <2>3, EntryIs
<1>7. M2 = PageIn(M, m, p, f)
  BY DEF M2, PageIn
<1>8. \A j \in Paged!Pages : M2[m].pte[j] = IF j = p THEN f ELSE M[m].pte[j]
  BY <1>6
<1>9. Puts(M, M2, <<"page", m, p>>, f)
  BY <1>4 DEF Puts
<1> QED BY <1>1, <1>3, <1>5, <1>7, <1>8, <1>9

LEMMA Gains ==
  ASSUME NEW u, NEW M, NEW M2, NEW x \in Entry3, NEW f, Single(u, M), Puts(M, M2, x, f),
         FrameAt(M, x) = 0, f \notin u, f # 0, 0 \notin u, Reserved \subseteq u
  PROVE  Single(u \cup {f}, M2)
<1>1. \A y \in Entry3 : FrameAt(M2, y) = IF y = x THEN f ELSE FrameAt(M, y)
  BY DEF Puts
<1>2. \A y \in Entry3 : FrameAt(M2, y) # 0 => FrameAt(M2, y) \in (u \cup {f}) \ Reserved
  BY <1>1 DEF Single
<1>3. \A y, z \in Entry3 : FrameAt(M2, y) = FrameAt(M2, z) /\ FrameAt(M2, y) # 0 => y = z
  BY <1>1 DEF Single
<1>4. ASSUME NEW g \in (u \cup {f}) \ Reserved PROVE \E y \in Entry3 : FrameAt(M2, y) = g
  <2>1. CASE g = f
    BY <1>1, <2>1
  <2>2. CASE g # f
    <3>1. PICK y \in Entry3 : FrameAt(M, y) = g
      BY <2>2 DEF Single
    <3>2. CASE y # x
      BY <1>1, <3>1, <3>2
    <3>3. CASE y = x
      BY <3>1, <3>3, <2>2, <1>4 DEF Single
    <3> QED BY <3>2, <3>3
  <2> QED BY <2>1, <2>2
<1> QED BY <1>2, <1>3, <1>4 DEF Single

LEMMA Drops ==
  ASSUME NEW u, NEW M, NEW M2, NEW x \in Entry3, Single(u, M), Puts(M, M2, x, 0),
         0 \notin u
  PROVE  Single(IF FrameAt(M, x) # 0 THEN u \ {FrameAt(M, x)} ELSE u, M2)
<1> DEFINE f == FrameAt(M, x)
           v == IF f # 0 THEN u \ {f} ELSE u
<1>1. \A y \in Entry3 : FrameAt(M2, y) = IF y = x THEN 0 ELSE FrameAt(M, y)
  BY DEF Puts
<1>2. \A y \in Entry3 : FrameAt(M2, y) # 0 => FrameAt(M2, y) \in v \ Reserved
  BY <1>1 DEF Single
<1>3. \A y, z \in Entry3 : FrameAt(M2, y) = FrameAt(M2, z) /\ FrameAt(M2, y) # 0 => y = z
  BY <1>1 DEF Single
<1>4. ASSUME NEW g \in v \ Reserved PROVE \E y \in Entry3 : FrameAt(M2, y) = g
  <2>1. PICK y \in Entry3 : FrameAt(M, y) = g
    BY DEF Single
  <2>2. CASE y = x
    BY <1>1, <2>1, <2>2
  <2>3. CASE y # x
    BY <1>1, <2>1, <2>3
  <2> QED BY <2>2, <2>3
<1> QED BY <1>2, <1>3, <1>4 DEF Single

(* The allocator.                                                          *)
LEMMA PoolGains ==
  ASSUME Paging, NEW u, NEW n, Pooled(u, n), NEW f \in Paged!AllFrames \ u
  PROVE  Pooled(u \cup {f}, n - 1)
<1> DEFINE A == Paged!AllFrames \ u
<1>1. IsFiniteSet(Paged!AllFrames)
  BY FS_Interval DEF Paging, Paged!AllFrames
<1>2. IsFiniteSet(A)
  BY <1>1, FS_Difference
<1>3. Cardinality(A \ {f}) = Cardinality(A) - 1
  BY <1>2, FS_RemoveElement
<1>4. Paged!AllFrames \ (u \cup {f}) = A \ {f}
  OBVIOUS
<1> QED BY <1>3, <1>4 DEF Pooled

LEMMA PoolLoses ==
  ASSUME Paging, NEW u, NEW n, Pooled(u, n), NEW f \in u \ Reserved
  PROVE  Pooled(u \ {f}, n + 1)
<1> DEFINE A == Paged!AllFrames \ u
<1>1. IsFiniteSet(Paged!AllFrames)
  BY FS_Interval DEF Paging, Paged!AllFrames
<1>2. IsFiniteSet(A) /\ f \notin A
  BY <1>1, FS_Difference
<1>3. Cardinality(A \cup {f}) = Cardinality(A) + 1
  BY <1>2, FS_AddElement
<1>4. Paged!AllFrames \ (u \ {f}) = A \cup {f}
  BY DEF Pooled
<1> QED BY <1>3, <1>4 DEF Pooled

LEMMA PoolIsNat ==
  ASSUME Paging, NEW u, NEW n, Pooled(u, n)
  PROVE  n \in Nat /\ 0 \notin u
<1>0. IsFiniteSet(Paged!AllFrames)
  BY FS_Interval DEF Paging, Paged!AllFrames
<1>1. IsFiniteSet(Paged!AllFrames \ u)
  BY <1>0, FS_Difference
<1>2. 0 \notin Paged!AllFrames
  BY DEF Paging, Paged!AllFrames
<1> QED BY <1>1, <1>2, FS_CardinalityType DEF Pooled

LEMMA AllocIs ==
  ASSUME Paging, NEW s, s.used \subseteq Paged!AllFrames
  PROVE  \/ Paged!Alloc(s) = 0
         \/ /\ Paged!Alloc(s) \in Paged!AllFrames \ s.used
            /\ Paged!Alloc(s) # 0 /\ Paged!Alloc(s) \in Nat
<1>1. CASE s.used = Paged!AllFrames
  BY <1>1 DEF Paged!Alloc
<1>2. CASE s.used # Paged!AllFrames
  <2> DEFINE A == Paged!AllFrames \ s.used
             f == CHOOSE x \in A : \A y \in A : x <= y
  <2>1. A # {}
    BY <1>2
  <2>2. A \subseteq Nat /\ 0 \notin A
    BY DEF Paging, Paged!AllFrames
  <2>3. \E x \in A : \A y \in A : x <= y
    BY <2>1, <2>2, LeastExists
  <2>4. f \in A
    BY <2>3
  <2>5. Paged!Alloc(s) = f
    BY <1>2 DEF Paged!Alloc, Paged!Min
  <2> QED BY <2>2, <2>4, <2>5
<1> QED BY <1>1, <1>2

LEMMA PoolIs ==
  ASSUME NEW s, NEW u, NEW n, NEW M, NEW o, Pool(s, u, n, M, o), NEW f
  PROVE  /\ Pool(Paged!Take(s, f), u \cup {f}, n - 1, M, o)
         /\ f \in u => Pool(Paged!Give(s, f), u \ {f}, n + 1, M, o)
         /\ Pool([s EXCEPT !.ok = FALSE], u, n, M, FALSE)
         /\ \A m, p : Pool([s EXCEPT !.map[m].pte[p] = f], u, n, PageIn(M, m, p, f), o)
         /\ \A m, t, p, g : Pool([s EXCEPT !.map[m].tables[t] = g, !.map[m].pte[p] = f],
                                 u, n, PageIn(TableIn(M, m, t, g), m, p, f), o)
<1>2. Pool(Paged!Take(s, f), u \cup {f}, n - 1, M, o)
  BY DEF Pool, Paged!Take
<1>3. f \in u => Pool(Paged!Give(s, f), u \ {f}, n + 1, M, o)
  BY DEF Pool, Paged!Give
<1>4. Pool([s EXCEPT !.ok = FALSE], u, n, M, FALSE)
  BY DEF Pool
<1>5. \A m, p : Pool([s EXCEPT !.map[m].pte[p] = f], u, n, PageIn(M, m, p, f), o)
  BY DEF Pool, PageIn
<1>6. \A m, t, p, g :
        Pool([s EXCEPT !.map[m].tables[t] = g, !.map[m].pte[p] = f],
             u, n, PageIn(TableIn(M, m, t, g), m, p, f), o)
  BY DEF Pool, PageIn, TableIn
<1> QED BY <1>2, <1>3, <1>4, <1>5, <1>6

LEMMA KeptPool ==
  ASSUME NEW s, NEW u, NEW n, NEW M, NEW o \in BOOLEAN, Pool(s, u, n, M, o),
         Pooled(u, n), M \in [Paged!Maps -> Hierarchy], Single(u, M), Unbuilt(M)
  PROVE  Kept(s) /\ s.map = M /\ s.used = u
  BY DEF Kept, Pool

SameRoots(M, M2) == \A k \in Paged!Maps : M2[k].root = M[k].root

(* A frame put into an empty page of a map that has the table.             *)
LEMMA PageGains ==
  ASSUME Paging, NEW u, NEW n, NEW M \in [Paged!Maps -> Hierarchy],
         Pooled(u, n), Single(u, M), Unbuilt(M),
         NEW m \in Paged!Maps, NEW p \in Paged!Pages, M[m].pte[p] = 0, M[m].root # 0,
         NEW f \in Paged!AllFrames \ u, f \in Nat, f # 0
  PROVE  LET M2 == PageIn(M, m, p, f)
         IN  /\ Pooled(u \cup {f}, n - 1) /\ M2 \in [Paged!Maps -> Hierarchy]
             /\ Single(u \cup {f}, M2) /\ Unbuilt(M2) /\ SameRoots(M, M2)
<1> DEFINE M2 == PageIn(M, m, p, f)
           x == <<"page", m, p>>
<1>1. /\ M2 \in [Paged!Maps -> Hierarchy] /\ Puts(M, M2, x, f)
      /\ \A k \in Paged!Maps : M2[k].root = M[k].root /\ M2[k].tables = M[k].tables
      /\ \A k \in Paged!Maps : k # m => M2[k] = M[k]
  BY PagePut
<1> HIDE DEF M2
<1>2. x \in Entry3 /\ FrameAt(M, x) = 0
  BY DEF Entry3, FrameAt
<1>3. 0 \notin u /\ Reserved \subseteq u
  BY PoolIsNat DEF Pooled
<1>4. Single(u \cup {f}, M2)
  BY <1>1, <1>2, <1>3, Gains
<1>5. Unbuilt(M2)
  BY <1>1 DEF Unbuilt
<1>6. Pooled(u \cup {f}, n - 1)
  BY PoolGains
<1> QED BY <1>1, <1>4, <1>5, <1>6 DEF M2, SameRoots

LEMMA TableGains ==
  ASSUME Paging, NEW u, NEW n, NEW M \in [Paged!Maps -> Hierarchy],
         Pooled(u, n), Single(u, M), Unbuilt(M),
         NEW m \in Paged!Maps, NEW t \in TablesOf, M[m].tables[t] = 0, M[m].root # 0,
         NEW f \in Paged!AllFrames \ u, f \in Nat, f # 0
  PROVE  LET M2 == TableIn(M, m, t, f)
         IN  /\ Pooled(u \cup {f}, n - 1) /\ M2 \in [Paged!Maps -> Hierarchy]
             /\ Single(u \cup {f}, M2) /\ Unbuilt(M2) /\ SameRoots(M, M2)
             /\ \A k \in Paged!Maps : M2[k].pte = M[k].pte
<1> DEFINE M2 == TableIn(M, m, t, f)
           x == <<"table", m, t>>
<1>1. /\ M2 \in [Paged!Maps -> Hierarchy] /\ Puts(M, M2, x, f)
      /\ \A k \in Paged!Maps : M2[k].root = M[k].root /\ M2[k].pte = M[k].pte
      /\ \A k \in Paged!Maps : k # m => M2[k] = M[k]
  BY TablePut
<1> HIDE DEF M2
<1>2. x \in Entry3 /\ FrameAt(M, x) = 0
  BY DEF Entry3, FrameAt
<1>3. 0 \notin u /\ Reserved \subseteq u
  BY PoolIsNat DEF Pooled
<1>4. Single(u \cup {f}, M2)
  BY <1>1, <1>2, <1>3, Gains
<1>5. Unbuilt(M2)
  BY <1>1 DEF Unbuilt
<1>6. Pooled(u \cup {f}, n - 1)
  BY PoolGains
<1> QED BY <1>1, <1>4, <1>5, <1>6 DEF M2, SameRoots

LEMMA BackKeeps ==
  ASSUME Paging, NEW s, Kept(s), NEW m \in Paged!Maps, NEW p \in Paged!Pages, NEW gives \in BOOLEAN,
         s.map[m].pte[p] = 0, s.map[m].root # 0,
         gives \/ s.map[m].tables[Paged!TableOf(p)] # 0
  PROVE  LET y == Paged!Back(s, m, p, gives)
         IN  Kept(y) /\ SameRoots(s.map, y.map)
<1> DEFINE u == s.used
           n == s.free
           M == s.map
           f == Paged!Alloc(s)
           t == Paged!TableOf(p)
           s1 == Paged!Take(s, f)
           table == Paged!Alloc(s1)
           after == Paged!MapUser(s1, m, p, f)
           y == Paged!Back(s, m, p, gives)
<1>1. /\ Pool(s, u, n, M, s.ok) /\ s.ok \in BOOLEAN
      /\ Pooled(u, n) /\ M \in [Paged!Maps -> Hierarchy] /\ Single(u, M) /\ Unbuilt(M)
      /\ u \subseteq Paged!AllFrames
  BY DEF Kept, Pooled, Pool
<1>2. t \in TablesOf
  BY DEF TablesOf
<1>3. n \in Nat
  BY <1>1, PoolIsNat
<1>6. y = IF ~s.ok \/ f = 0 THEN [s EXCEPT !.ok = FALSE]
          ELSE IF after.ok \/ ~gives THEN after
          ELSE Paged!Give(after, f)
  BY DEF Paged!Back
<1>7. after = IF s1.map[m].tables[t] # 0 THEN [s1 EXCEPT !.map[m].pte[p] = f]
              ELSE IF table = 0 THEN [s1 EXCEPT !.ok = FALSE]
              ELSE [Paged!Take(s1, table) EXCEPT !.map[m].tables[t] = table, !.map[m].pte[p] = f]
  BY DEF Paged!MapUser
<1>8. M[m].pte[p] = 0 /\ M[m].root # 0 /\ (gives \/ M[m].tables[t] # 0)
  OBVIOUS
<1> HIDE DEF u, n, M, t, y, after
<1>4. CASE ~s.ok \/ f = 0
  <2>1. Pool(y, u, n, M, FALSE)
    BY <1>1, <1>4, <1>6, PoolIs
  <2>2. Kept(y) /\ y.map = M
    BY <1>1, <2>1, KeptPool
  <2> QED BY <2>2 DEF SameRoots, M, y
<1>5. CASE s.ok /\ f # 0
  <2>1. f \in Paged!AllFrames \ u /\ f \in Nat
    BY <1>1, <1>5, AllocIs DEF u
  <2> HIDE DEF f
  <2>2. Pool(s1, u \cup {f}, n - 1, M, TRUE)
    BY <1>1, <1>5, PoolIs
  <2>3. s1.map = M /\ s1.used = u \cup {f}
    BY <2>2 DEF Pool
  <2>9. s1.used \subseteq Paged!AllFrames
    BY <1>1, <2>1, <2>3
  <2>4. Pooled(u \cup {f}, n - 1)
    BY <1>1, <2>1, PoolGains
  <2>5. y = IF after.ok \/ ~gives THEN after ELSE Paged!Give(after, f)
    BY <1>5, <1>6
  <2>6. CASE M[m].tables[t] # 0
    <3> DEFINE M2 == PageIn(M, m, p, f)
    <3> HIDE DEF M2
    <3>1. Pool(after, u \cup {f}, n - 1, M2, TRUE)
      BY <1>7, <2>2, <2>3, <2>6, PoolIs DEF M2
    <3>2. /\ Pooled(u \cup {f}, n - 1) /\ M2 \in [Paged!Maps -> Hierarchy]
          /\ Single(u \cup {f}, M2) /\ Unbuilt(M2) /\ SameRoots(M, M2)
      BY <1>1, <1>5, <1>8, <2>1, PageGains DEF M2
    <3>3. Pool(y, u \cup {f}, n - 1, M2, TRUE)
      BY <2>5, <3>1 DEF Pool
    <3>4. Kept(y) /\ y.map = M2
      BY <3>2, <3>3, KeptPool
    <3> QED BY <3>2, <3>4 DEF y, M
  <2>7. CASE M[m].tables[t] = 0 /\ table = 0
    <3>1. Pool(after, u \cup {f}, n - 1, M, FALSE)
      BY <1>7, <2>2, <2>3, <2>7, PoolIs
    <3>2. y = Paged!Give(after, f)
      BY <1>8, <2>5, <2>7, <3>1 DEF Pool
    <3>3. (u \cup {f}) \ {f} = u /\ n - 1 + 1 = n /\ f \in u \cup {f}
      BY <2>1, <1>3
    <3>5. Pool(y, u, n, M, FALSE)
      <4>1. Pool(Paged!Give(after, f), (u \cup {f}) \ {f}, n - 1 + 1, M, FALSE)
        BY <3>1, <3>3, PoolIs
      <4> QED BY <3>2, <3>3, <4>1
    <3>6. Kept(y) /\ y.map = M
      BY <1>1, <3>5, KeptPool
    <3> QED BY <3>6 DEF SameRoots, y, M
  <2>8. CASE M[m].tables[t] = 0 /\ table # 0
    <3>1. table \in Paged!AllFrames \ (u \cup {f}) /\ table \in Nat
      BY <2>3, <2>8, <2>9, AllocIs
    <3> HIDE DEF table
    <3> DEFINE M2 == TableIn(M, m, t, table)
               M3 == PageIn(M2, m, p, f)
               v == u \cup {table}
    <3> HIDE DEF M2, M3
    <3>2. /\ Pooled(v, n - 1) /\ M2 \in [Paged!Maps -> Hierarchy]
          /\ Single(v, M2) /\ Unbuilt(M2) /\ SameRoots(M, M2)
          /\ \A k \in Paged!Maps : M2[k].pte = M[k].pte
      <4>1. table \in Paged!AllFrames \ u /\ table \in Nat /\ table # 0 /\ M[m].tables[t] = 0
        BY <2>8, <3>1
      <4>2. /\ Pooled(u, n) /\ M \in [Paged!Maps -> Hierarchy] /\ Single(u, M) /\ Unbuilt(M)
            /\ t \in TablesOf /\ M[m].root # 0
        BY <1>1, <1>2, <1>8
      <4> HIDE DEF v
      <4>3. v = u \cup {table}
        BY DEF v
      <4> QED BY ONLY Paging, m \in Paged!Maps, <4>1, <4>2, <4>3, TableGains DEF M2
    <3>3. Pool(Paged!Take(s1, table), (u \cup {f}) \cup {table}, n - 1 - 1, M, TRUE)
      BY <2>2, PoolIs
    <3>4. Pool(after, (u \cup {f}) \cup {table}, n - 1 - 1, M3, TRUE)
      BY <1>7, <2>2, <2>3, <2>8, <3>3, PoolIs DEF M2, M3
    <3>5. f \in Paged!AllFrames \ v /\ (u \cup {f}) \cup {table} = v \cup {f}
      BY <2>1, <3>1
    <3> HIDE DEF v
    <3>6. M2[m].pte[p] = 0 /\ M2[m].root # 0
      BY <1>8, <3>2 DEF SameRoots
    <3>7. /\ Pooled(v \cup {f}, n - 1 - 1) /\ M3 \in [Paged!Maps -> Hierarchy]
          /\ Single(v \cup {f}, M3) /\ Unbuilt(M3) /\ SameRoots(M2, M3)
      BY <1>5, <2>1, <3>2, <3>5, <3>6, PageGains DEF M3
    <3>8. Pool(y, v \cup {f}, n - 1 - 1, M3, TRUE)
      BY <2>5, <3>4, <3>5 DEF Pool
    <3>10. SameRoots(M, M3)
      BY <3>2, <3>7 DEF SameRoots
    <3>11. Kept(y) /\ y.map = M3
      BY ONLY <3>7, <3>8, KeptPool
    <3>9. Kept(y) /\ y.map = M3 /\ SameRoots(M, M3)
      BY <3>10, <3>11
    <3> QED BY <3>9 DEF y, M
  <2> QED BY <2>6, <2>7, <2>8
<1> QED BY <1>4, <1>5

(* The frame of a page goes back and the page is cleared, in one map.      *)
LEMMA ReleaseKeeps ==
  ASSUME Paging, NEW s, Kept(s), active \in Paged!Maps, s.map[active].root # 0,
         NEW p \in Paged!Pages
  PROVE  LET y == Passed("releases", 0, s, p)
         IN  Kept(y) /\ SameRoots(s.map, y.map)
<1> DEFINE u == s.used
           n == s.free
           M == s.map
           m == active
           f == M[m].pte[p]
           M2 == PageIn(M, m, p, 0)
           x == <<"page", m, p>>
           z == [s EXCEPT !.map[Paged!Unmapped].pte[p] = 0]
           y == Passed("releases", 0, s, p)
<1>1. /\ Pool(s, u, n, M, s.ok) /\ s.ok \in BOOLEAN
      /\ Pooled(u, n) /\ M \in [Paged!Maps -> Hierarchy] /\ Single(u, M) /\ Unbuilt(M)
  BY DEF Kept, Pool
<1>2. y = IF f # 0 THEN Paged!Give(z, f) ELSE z
  BY DEF Passed, Paged!ReleasePage
<1>3. z = [s EXCEPT !.map[m].pte[p] = 0]
  BY DEF Paged!Unmapped, Paging
<1>4. M[m].root # 0
  OBVIOUS
<1> HIDE DEF u, n, M, z, y
<1>5. Pool(z, u, n, M2, s.ok)
  BY <1>1, <1>3, PoolIs
<1>6. /\ M2 \in [Paged!Maps -> Hierarchy] /\ Puts(M, M2, x, 0)
      /\ \A k \in Paged!Maps : M2[k].root = M[k].root /\ M2[k].tables = M[k].tables
      /\ \A k \in Paged!Maps : k # m => M2[k] = M[k]
  BY <1>1, PagePut
<1> HIDE DEF M2
<1>7. x \in Entry3 /\ FrameAt(M, x) = f
  BY DEF Entry3, FrameAt
<1>8. 0 \notin u
  BY <1>1, PoolIsNat
<1>9. Single(IF f # 0 THEN u \ {f} ELSE u, M2)
  BY <1>1, <1>6, <1>7, <1>8, Drops
<1>10. Unbuilt(M2) /\ SameRoots(M, M2)
  BY <1>1, <1>4, <1>6 DEF Unbuilt, SameRoots
<1>11. CASE f # 0
  <2>1. f \in u \ Reserved
    BY <1>1, <1>7, <1>11 DEF Single
  <2> HIDE DEF f
  <2>2. Pooled(u \ {f}, n + 1)
    BY <1>1, <2>1, PoolLoses
  <2>3. Pool(y, u \ {f}, n + 1, M2, s.ok)
    BY <1>2, <1>5, <1>11, <2>1, PoolIs
  <2>4. Single(u \ {f}, M2)
    BY <1>9, <1>11
  <2>5. Kept(y) /\ y.map = M2
    BY <1>1, <1>6, <1>10, <2>2, <2>3, <2>4, KeptPool
  <2> QED BY <1>10, <2>5 DEF y, M
<1>12. CASE f = 0
  <2>1. y = z /\ Single(u, M2)
    BY <1>2, <1>9, <1>12
  <2>2. Kept(y) /\ y.map = M2
    BY <1>1, <1>5, <1>6, <1>10, <2>1, KeptPool
  <2> QED BY <1>10, <2>2 DEF y, M
<1> QED BY <1>11, <1>12

LEMMA SamesCompose ==
  ASSUME NEW M, NEW M2, NEW M3, SameRoots(M, M2), SameRoots(M2, M3)
  PROVE  SameRoots(M, M3)
  BY DEF SameRoots

(* A stretch of pages, backed or released.                                 *)
LEMMA BackAbsentKeeps ==
  ASSUME Paging, NEW s, Kept(s), NEW m \in Paged!Maps, s.map[m].root # 0,
         NEW from \in Nat, NEW to \in Nat, from..to \subseteq Paged!Pages
  PROVE  LET y == Paged!BackAbsent(s, m, from, to)
         IN  Kept(y) /\ SameRoots(s.map, y.map)
<1> DEFINE q == Paged!PageRange(from, to)
           n == Len(q)
<1>1. PICK g : PassBy("backs", m, s, q, g) /\ Paged!BackAbsent(s, m, from, to) = g[n]
  BY BackAbsentSteps
<1>2. n \in Nat /\ \A k \in 1..n : q[k] \in Paged!Pages
  BY PageRangeIs
<1>3. g[0] = s /\ \A k \in 1..n : g[k] = Passed("backs", m, g[k - 1], q[k])
  BY <1>1 DEF PassBy
<1> HIDE DEF q, n
<1> DEFINE Fine(k) == Kept(g[k]) /\ SameRoots(s.map, g[k].map)
           D == {k \in 0..n : ~ Fine(k)}
<1>4. D = {}
  <2> SUFFICES ASSUME D # {} PROVE FALSE
    OBVIOUS
  <2>1. D \subseteq Nat
    BY <1>2
  <2>2. PICK k \in D : \A j \in D : k <= j
    BY <2>1, LeastExists
  <2>3. k # 0
    BY <1>3, <2>2 DEF SameRoots
  <2>4. k \in 1..n /\ k - 1 \in 0..n /\ k - 1 \notin D
    BY <1>2, <2>2, <2>3
  <2> DEFINE h == g[k - 1]
  <2>5. Kept(h) /\ SameRoots(s.map, h.map)
    BY <2>4
  <2>6. h.map[m].root # 0 /\ q[k] \in Paged!Pages
    BY <1>2, <2>4, <2>5 DEF SameRoots
  <2>7. g[k] = IF h.map[m].pte[q[k]] # 0 THEN h ELSE Paged!Back(h, m, q[k], TRUE)
    BY <1>3, <2>4 DEF Passed
  <2> HIDE DEF h
  <2>8. CASE h.map[m].pte[q[k]] # 0
    BY <2>2, <2>5, <2>7, <2>8
  <2>9. CASE h.map[m].pte[q[k]] = 0
    <3>1. Kept(g[k]) /\ SameRoots(h.map, g[k].map)
      BY <2>5, <2>6, <2>7, <2>9, BackKeeps
    <3> QED BY <2>2, <2>5, <3>1, SamesCompose
  <2> QED BY <2>8, <2>9
<1>5. n \in 0..n
  BY <1>2
<1> QED BY <1>1, <1>4, <1>5

LEMMA ReleasesKeep ==
  ASSUME Paging, NEW s, Kept(s), active \in Paged!Maps, s.map[active].root # 0,
         NEW from \in Nat, NEW to \in Nat, from..to \subseteq Paged!Pages
  PROVE  LET y == Paged!Release(s, from, to)
         IN  Kept(y) /\ SameRoots(s.map, y.map)
<1> DEFINE q == Paged!PageRange(from, to)
           n == Len(q)
<1>1. PICK g : PassBy("releases", 0, s, q, g) /\ Paged!Release(s, from, to) = g[n]
  BY ReleaseSteps
<1>2. n \in Nat /\ \A k \in 1..n : q[k] \in Paged!Pages
  BY PageRangeIs
<1>3. g[0] = s /\ \A k \in 1..n : g[k] = Passed("releases", 0, g[k - 1], q[k])
  BY <1>1 DEF PassBy
<1> HIDE DEF q, n
<1> DEFINE Fine(k) == Kept(g[k]) /\ SameRoots(s.map, g[k].map)
           D == {k \in 0..n : ~ Fine(k)}
<1>4. D = {}
  <2> SUFFICES ASSUME D # {} PROVE FALSE
    OBVIOUS
  <2>1. D \subseteq Nat
    BY <1>2
  <2>2. PICK k \in D : \A j \in D : k <= j
    BY <2>1, LeastExists
  <2>3. k # 0
    BY <1>3, <2>2 DEF SameRoots
  <2>4. k \in 1..n /\ k - 1 \in 0..n /\ k - 1 \notin D
    BY <1>2, <2>2, <2>3
  <2> DEFINE h == g[k - 1]
  <2>5. Kept(h) /\ SameRoots(s.map, h.map)
    BY <2>4
  <2>6. h.map[active].root # 0 /\ q[k] \in Paged!Pages
    BY <1>2, <2>4, <2>5 DEF SameRoots
  <2>7. g[k] = Passed("releases", 0, h, q[k])
    BY <1>3, <2>4
  <2> HIDE DEF h
  <2>8. Kept(g[k]) /\ SameRoots(h.map, g[k].map)
    BY <2>5, <2>6, <2>7, ReleaseKeeps
  <2> QED BY <2>2, <2>5, <2>8, SamesCompose
<1>5. n \in 0..n
  BY <1>2
<1> QED BY <1>1, <1>4, <1>5

(* The heap: blocks in address order that fill its area.                   *)
HeapBlock == [size : Nat \ {0}, free : BOOLEAN, live : BOOLEAN]

SameSizes(h, h2, i, j, L) == \A x \in 1..L : h2[j + x].size = h[i + x].size

LEMMA SumStep ==
  ASSUME NEW h, NEW g, PassBy("sums", 0, 0, h, g), NEW k \in 1..Len(h), NEW j, j = k - 1
  PROVE  g[k] = g[j] + h[k].size + 1
<1>1. g[k] = Passed("sums", 0, g[j], h[k])
  BY DEF PassBy
<1> QED BY <1>1 DEF Passed

LEMMA SumsRun ==
  ASSUME NEW h, NEW h2, NEW g, NEW g2, PassBy("sums", 0, 0, h, g), PassBy("sums", 0, 0, h2, g2),
         Len(h) \in Nat, Len(h2) \in Nat,
         NEW i \in Nat, NEW j \in Nat, NEW L \in Nat, i + L <= Len(h), j + L <= Len(h2),
         g2[j] = g[i], SameSizes(h, h2, i, j, L), NEW v, NEW w, v = i + L, w = j + L
  PROVE  g2[w] = g[v]
<1> DEFINE D == {x \in 0..L : g2[j + x] # g[i + x]}
<1>1. D = {}
  <2> SUFFICES ASSUME D # {} PROVE FALSE
    OBVIOUS
  <2>1. D \subseteq Nat
    OBVIOUS
  <2>2. PICK x \in D : \A y \in D : x <= y
    BY <2>1, LeastExists
  <2>3. x # 0
    BY <2>2
  <2>10. x \in 1..L /\ x - 1 \in 0..L /\ x - 1 < x
    BY <2>2, <2>3
  <2>11. x - 1 \notin D
    <3> HIDE DEF D
    <3> QED BY <2>1, <2>2, <2>10
  <2>4. x \in 1..L /\ x - 1 \in 0..L /\ x - 1 \notin D
    BY <2>10, <2>11
  <2>5. g2[j + (x - 1)] = g[i + (x - 1)]
    BY <2>4
  <2>6. /\ i + x \in 1..Len(h) /\ i + x - 1 = i + (x - 1)
        /\ j + x \in 1..Len(h2) /\ j + x - 1 = j + (x - 1)
    BY <2>4
  <2> DEFINE p == i + x
             p0 == i + (x - 1)
             q == j + x
             q0 == j + (x - 1)
  <2>12. p \in 1..Len(h) /\ p0 = p - 1 /\ q \in 1..Len(h2) /\ q0 = q - 1
    BY <2>6
  <2>13. g2[q0] = g[p0] /\ g2[q] # g[p]
    BY <2>2, <2>5
  <2>14. h2[q].size = h[p].size
    BY <2>4 DEF SameSizes
  <2> HIDE DEF p, p0, q, q0
  <2>7. g[p] = g[p0] + h[p].size + 1
    BY <2>12, SumStep
  <2>8. g2[q] = g2[q0] + h2[q].size + 1
    BY <2>12, SumStep
  <2> QED BY <2>13, <2>7, <2>8, <2>14
<1>2. L \in 0..L
  OBVIOUS
<1> QED BY <1>1, <1>2

LEMMA SumsAreNat ==
  ASSUME NEW h \in Seq(HeapBlock), NEW g, PassBy("sums", 0, 0, h, g)
  PROVE  \A x \in 0..Len(h) : g[x] \in Nat
<1> DEFINE D == {x \in 0..Len(h) : g[x] \notin Nat}
<1>1. D = {}
  <2> SUFFICES ASSUME D # {} PROVE FALSE
    OBVIOUS
  <2>1. D \subseteq Nat
    OBVIOUS
  <2>2. PICK x \in D : \A y \in D : x <= y
    BY <2>1, LeastExists
  <2>3. x # 0
    BY <2>2 DEF PassBy
  <2>4. x \in 1..Len(h) /\ x - 1 \in 0..Len(h) /\ x - 1 \notin D
    BY <2>2, <2>3
  <2>5. g[x] = g[x - 1] + h[x].size + 1
    BY <2>4 DEF PassBy, Passed
  <2>6. h[x] \in HeapBlock
    BY <2>4
  <2>7. h[x].size \in Nat
    BY <2>6 DEF HeapBlock
  <2> QED BY <2>2, <2>4, <2>5, <2>7
<1> QED BY <1>1

(* Blocks from the k-th on, d of them, replaced by others.                 *)
Spliced(h, k, d, mid) == SubSeq(h, 1, k - 1) \o mid \o SubSeq(h, k + d, Len(h))

IsSplice(h, k, d, mid, h2) ==
  LET r == Len(h) - (k + d) + 1
  IN  /\ h2 \in Seq(HeapBlock) /\ Len(h2) = k - 1 + Len(mid) + r
      /\ \A x \in 1..(k - 1) : h2[x] = h[x]
      /\ \A x \in 1..Len(mid) : h2[k - 1 + x] = mid[x]
      /\ \A x \in 1..r : h2[k - 1 + Len(mid) + x] = h[k + d - 1 + x]

LEMMA SpliceIs ==
  ASSUME NEW h \in Seq(HeapBlock), NEW mid \in Seq(HeapBlock), NEW k \in 1..Len(h), NEW d \in Nat,
         k + d <= Len(h) + 1
  PROVE  IsSplice(h, k, d, mid, Spliced(h, k, d, mid))
<1> DEFINE a == SubSeq(h, 1, k - 1)
           c == SubSeq(h, k + d, Len(h))
           r == Len(h) - (k + d) + 1
           b == a \o mid
           h2 == b \o c
<1>1. a \in Seq(HeapBlock) /\ Len(a) = k - 1 /\ \A x \in 1..(k - 1) : a[x] = h[x]
  <2>1. 1 \in 1..(Len(h) + 1) /\ k - 1 \in (1 - 1)..Len(h)
    OBVIOUS
  <2> QED BY <2>1, SubSeqProperties
<1>2. c \in Seq(HeapBlock) /\ Len(c) = r /\ \A x \in 1..r : c[x] = h[k + d - 1 + x]
  <2>1. k + d \in 1..(Len(h) + 1) /\ Len(h) \in (k + d - 1)..Len(h)
    OBVIOUS
  <2>2. \A x \in 1..r : k + d + x - 1 = k + d - 1 + x
    OBVIOUS
  <2> DEFINE e == k + d
             L == Len(h)
  <2>3. e \in 1..(Len(h) + 1) /\ L \in (e - 1)..Len(h) /\ r = L - e + 1 /\ e <= L + 1
    BY <2>1
  <2> HIDE DEF e, L, r
  <2>4. c \in Seq(HeapBlock) /\ Len(c) = r /\ \A x \in 1..r : c[x] = h[e + x - 1]
    <3>1. SubSeq(h, e, L) \in Seq(HeapBlock) /\ Len(SubSeq(h, e, L)) = (IF e <= L THEN L - e + 1 ELSE 0)
          /\ \A x \in 1..(L - e + 1) : SubSeq(h, e, L)[x] = h[e + x - 1]
      BY <2>3, SubSeqProperties
    <3>2. (IF e <= L THEN L - e + 1 ELSE 0) = r
      BY <2>3
    <3> QED BY <2>3, <3>1, <3>2 DEF e, L
  <2> QED BY <2>2, <2>4 DEF e
<1> HIDE DEF a, c
<1>3. /\ b \in Seq(HeapBlock) /\ Len(b) = k - 1 + Len(mid)
      /\ \A x \in 1..(k - 1) : b[x] = a[x]
      /\ \A x \in 1..Len(mid) : b[k - 1 + x] = mid[x]
  <2>1. b \in Seq(HeapBlock) /\ Len(b) = Len(a) + Len(mid)
        /\ \A i \in 1..(Len(a) + Len(mid)) : b[i] = IF i <= Len(a) THEN a[i] ELSE mid[i - Len(a)]
    BY <1>1, ConcatProperties
  <2> HIDE DEF b
  <2>2. ASSUME NEW x \in 1..Len(mid) PROVE b[k - 1 + x] = mid[x]
    <3> DEFINE i == k - 1 + x
    <3>1. i \in 1..(Len(a) + Len(mid)) /\ ~ (i <= Len(a)) /\ i - Len(a) = x
      BY <1>1
    <3> HIDE DEF i
    <3>2. b[i] = mid[x]
      BY <2>1, <3>1
    <3> QED BY <3>2 DEF i
  <2>3. Len(a) \in Nat /\ Len(mid) \in Nat /\ Len(a) = k - 1
    BY <1>1
  <2>4. \A x \in 1..(k - 1) : x \in 1..(Len(a) + Len(mid)) /\ x <= Len(a)
    BY <2>3
  <2>5. \A x \in 1..(k - 1) : b[x] = a[x]
    BY <2>1, <2>4
  <2>6. Len(b) = k - 1 + Len(mid)
    BY <2>1, <2>3
  <2> QED BY <2>1, <2>2, <2>5, <2>6
<1>9. r \in Nat /\ Len(mid) \in Nat /\ k - 1 \in Nat
  OBVIOUS
<1> HIDE DEF b, r
<1>4. /\ h2 \in Seq(HeapBlock) /\ Len(h2) = k - 1 + Len(mid) + r
      /\ \A x \in 1..(k - 1 + Len(mid)) : h2[x] = b[x]
      /\ \A x \in 1..r : h2[k - 1 + Len(mid) + x] = c[x]
  <2>1. h2 \in Seq(HeapBlock) /\ Len(h2) = Len(b) + Len(c)
        /\ \A i \in 1..(Len(b) + Len(c)) : h2[i] = IF i <= Len(b) THEN b[i] ELSE c[i - Len(b)]
    <3>1. b \in Seq(HeapBlock) /\ c \in Seq(HeapBlock)
      BY <1>2, <1>3
    <3> QED BY ONLY <3>1, ConcatProperties
  <2> HIDE DEF h2
  <2>2. ASSUME NEW x \in 1..r PROVE h2[k - 1 + Len(mid) + x] = c[x]
    <3> DEFINE i == k - 1 + Len(mid) + x
    <3>1. i \in 1..(Len(b) + Len(c)) /\ ~ (i <= Len(b)) /\ i - Len(b) = x
      BY <1>2, <1>3, <1>9
    <3> HIDE DEF i
    <3>2. h2[i] = c[x]
      BY <2>1, <3>1
    <3> QED BY <3>2 DEF i
  <2>3. Len(mid) \in Nat
    OBVIOUS
  <2>4. Len(h2) = k - 1 + Len(mid) + r
    BY <1>2, <1>3, <2>1
  <2>5. \A x \in 1..(k - 1 + Len(mid)) : h2[x] = b[x]
    <3>1. \A x \in 1..(k - 1 + Len(mid)) : x \in 1..(Len(b) + Len(c)) /\ x <= Len(b)
      BY <1>2, <1>3, <1>9
    <3> QED BY <2>1, <3>1
  <2> QED BY <2>1, <2>2, <2>4, <2>5
<1>5. \A x \in 1..(k - 1) : h2[x] = h[x]
  BY <1>1, <1>3, <1>4
<1>6. \A x \in 1..Len(mid) : h2[k - 1 + x] = mid[x]
  BY <1>3, <1>4
<1>7. \A x \in 1..r : h2[k - 1 + Len(mid) + x] = h[k + d - 1 + x]
  BY <1>2, <1>4
<1>8. h2 = Spliced(h, k, d, mid)
  BY DEF Spliced, b, a, c
<1> HIDE DEF h2
<1> QED BY <1>4, <1>5, <1>6, <1>7, <1>8 DEF r, IsSplice

Tiled(h) ==
  /\ h \in Seq(HeapBlock) /\ Taken(h) = HeapSize
  /\ \A k \in 1..Len(h) : h[k].live = ~h[k].free

(* The invariant of the body's memory.                                     *)
Mapping ==
  /\ Kept(Paged!Now) /\ Tiled(heap)
  /\ active \in Paged!Maps /\ (active # Paged!Boot => map[active].root # 0)
  /\ brk \in [Paged!Maps -> 0..BrkPages]
  /\ nextMap \in Nat /\ nextMap > BrkPages

LEMMA NowIs == Pool(Paged!Now, used, free, map, TRUE)
  BY DEF Pool, Paged!Now

(* A state the allocator hands on becomes the memory's.                    *)
LEMMA BecomeKeeps ==
  ASSUME NEW y, Kept(y), Paged!Become(y)
  PROVE  Kept(Paged!Now)' /\ map' = y.map
<1>1. used' = y.used /\ free' = y.free /\ map' = y.map
  BY DEF Paged!Become
<1>2. /\ Pooled(y.used, y.free) /\ y.map \in [Paged!Maps -> Hierarchy]
      /\ Single(y.used, y.map) /\ Unbuilt(y.map)
  BY DEF Kept
<1>3. Pool(Paged!Now', used', free', map', TRUE)
  BY DEF Pool, Paged!Now
<1>4. Kept(Paged!Now')
  BY <1>1, <1>2, <1>3, KeptPool
<1>5. Kept(Paged!Now')  <=> Kept(Paged!Now)'
  BY DEF Kept, Pooled, Single, Unbuilt
<1> QED BY <1>1, <1>4, <1>5

LEMMA Recounted == \A S : Paged!Cardinality(S) = Cardinality(S)
  BY DEF Paged!Cardinality, Cardinality

LEMMA SumOf ==
  ASSUME NEW h \in Seq(HeapBlock)
  PROVE  \E g : PassBy("sums", 0, 0, h, g) /\ Taken(h) = g[Len(h)]
                /\ \A x \in 0..Len(h) : g[x] \in Nat
<1>1. Len(h) \in Nat /\ DOMAIN h = 1..Len(h)
  OBVIOUS
<1>2. PICK g : PassBy("sums", 0, 0, h, g) /\ Taken(h) = g[Len(h)]
  BY <1>1, SumSteps
<1> QED BY <1>2, SumsAreNat

LEMMA MappingInit == ASSUME Paging, Paged!Init PROVE Mapping
<1>1. /\ used = Reserved /\ free = NFrames - Paged!Cardinality(Reserved)
      /\ map = [m \in Paged!Maps |-> Paged!NoMap]
      /\ active = Paged!Boot /\ brk = [m \in Paged!Maps |-> 0] /\ nextMap = BrkPages + 1
      /\ heap = <<[size |-> HeapSize - 1, free |-> TRUE, live |-> FALSE]>>
  BY DEF Paged!Init
<1>2. IsFiniteSet(Paged!AllFrames) /\ Cardinality(Paged!AllFrames) = NFrames
  BY FS_Interval DEF Paging, Paged!AllFrames
<1>3. Pooled(used, free)
  <2>1. Reserved \subseteq Paged!AllFrames
    BY DEF Paging, Paged!AllFrames
  <2>2. Cardinality(Paged!AllFrames \ Reserved)
          = Cardinality(Paged!AllFrames) - Cardinality(Paged!AllFrames \cap Reserved)
    BY <1>2, FS_Difference
  <2>3. Paged!AllFrames \cap Reserved = Reserved
    BY <2>1
  <2> QED BY <1>1, <1>2, <2>1, <2>2, <2>3, Recounted DEF Pooled
<1>4. Paged!NoMap \in Hierarchy /\ Paged!NoMap.root = 0
      /\ (\A t \in TablesOf : Paged!NoMap.tables[t] = 0) /\ (\A p \in Paged!Pages : Paged!NoMap.pte[p] = 0)
  BY DEF Paged!NoMap, Hierarchy, TablesOf
<1>5. map \in [Paged!Maps -> Hierarchy] /\ \A m \in Paged!Maps : map[m] = Paged!NoMap
  BY <1>1, <1>4
<1>6. \A x \in Entry3 : FrameAt(map, x) = 0
  <2> TAKE x \in Entry3
  <2>1. CASE \E k \in Paged!Maps : x = <<"root", k, 0>>
    BY <1>4, <1>5, <2>1 DEF FrameAt
  <2>2. CASE \E k \in Paged!Maps, j \in TablesOf : x = <<"table", k, j>>
    BY <1>4, <1>5, <2>2 DEF FrameAt
  <2>3. CASE \E k \in Paged!Maps, j \in Paged!Pages : x = <<"page", k, j>>
    BY <1>4, <1>5, <2>3 DEF FrameAt
  <2> QED BY <2>1, <2>2, <2>3, EntryIs
<1>7. Single(used, map) /\ Unbuilt(map)
  BY <1>1, <1>4, <1>5, <1>6 DEF Single, Unbuilt
<1>8. Kept(Paged!Now)
  BY <1>3, <1>5, <1>7, NowIs, KeptPool
<1>9. Tiled(heap)
  <2> DEFINE b == [size |-> HeapSize - 1, free |-> TRUE, live |-> FALSE]
  <2>0. HeapSize - 1 \in Nat \ {0}
    BY DEF Paging
  <2>7. b \in HeapBlock
    BY <2>0 DEF HeapBlock
  <2>1. b \in HeapBlock /\ b.size = HeapSize - 1 /\ b.live = ~b.free
    BY <2>7
  <2> HIDE DEF b
  <2>2. heap = <<b>>
    BY <1>1 DEF b
  <2>3. heap \in Seq(HeapBlock) /\ Len(heap) = 1 /\ heap[1] = b
    BY <2>1, <2>2
  <2>4. PICK g : PassBy("sums", 0, 0, heap, g) /\ Taken(heap) = g[Len(heap)]
    BY <2>3, SumOf
  <2>5. g[0] = 0 /\ g[1] = g[1 - 1] + b.size + 1
    BY <2>3, <2>4 DEF PassBy, Passed
  <2>6. Taken(heap) = HeapSize
    BY <2>1, <2>3, <2>4, <2>5 DEF Paging
  <2> QED BY <2>1, <2>3, <2>6 DEF Tiled
<1>10. active \in Paged!Maps /\ brk \in [Paged!Maps -> 0..BrkPages] /\ nextMap \in Nat /\ nextMap > BrkPages
  BY <1>1 DEF Paged!Maps, Paging
<1> QED BY <1>1, <1>8, <1>9, <1>10 DEF Mapping

(* A block that keeps its size may change hands.                           *)
LEMMA ReplacedKeeps ==
  ASSUME Tiled(heap), NEW k \in 1..Len(heap), NEW c \in HeapBlock,
         c.size = heap[k].size, c.live = ~c.free, heap' = [heap EXCEPT ![k] = c]
  PROVE  Tiled(heap')
<1> DEFINE h2 == heap'
<1>1. heap \in Seq(HeapBlock) /\ Taken(heap) = HeapSize /\ \A j \in 1..Len(heap) : heap[j].live = ~heap[j].free
  BY DEF Tiled
<1>2. h2 \in Seq(HeapBlock) /\ Len(h2) = Len(heap)
  BY <1>1
<1>3. \A x \in 1..Len(heap) : h2[x] = IF x = k THEN c ELSE heap[x]
  BY <1>1
<1> HIDE DEF h2
<1>4. PICK g : PassBy("sums", 0, 0, heap, g) /\ Taken(heap) = g[Len(heap)]
  BY <1>1, SumOf
<1>5. PICK g2 : PassBy("sums", 0, 0, h2, g2) /\ Taken(h2) = g2[Len(h2)]
  BY <1>2, SumOf
<1>6. g2[0] = g[0] /\ Len(heap) \in Nat
  BY <1>1, <1>4, <1>5 DEF PassBy
<1>7. g2[Len(heap)] = g[Len(heap)]
  <2>1. SameSizes(heap, h2, 0, 0, Len(heap)) /\ Len(heap) = 0 + Len(heap) /\ 0 \in Nat
        /\ 0 + Len(heap) <= Len(heap)
    BY <1>3, <1>6 DEF SameSizes
  <2> QED BY <1>2, <1>4, <1>5, <1>6, <2>1, SumsRun
<1>8. Taken(h2) = HeapSize
  BY <1>1, <1>2, <1>4, <1>5, <1>7
<1>9. \A x \in 1..Len(h2) : h2[x].live = ~h2[x].free
  BY <1>1, <1>2, <1>3
<1> QED BY <1>2, <1>8, <1>9 DEF Tiled, h2

LEMMA KmallocKeeps ==
  ASSUME Paging, Tiled(heap), NEW n \in 1..HeapSize, Paged!Kmalloc(n)
  PROVE  Tiled(heap')
<1> DEFINE F == Paged!Fits(n)
           k == CHOOSE x \in F : \A y \in F : x <= y
           b == heap[k]
           a == [size |-> n, free |-> FALSE, live |-> TRUE]
           whole == [size |-> b.size, free |-> FALSE, live |-> TRUE]
           rest == [size |-> b.size - n - 1, free |-> TRUE, live |-> FALSE]
           mid == <<a, rest>>
<1>1. heap \in Seq(HeapBlock) /\ Taken(heap) = HeapSize /\ \A j \in 1..Len(heap) : heap[j].live = ~heap[j].free
  BY DEF Tiled
<1>2. F # {} /\ F \subseteq Nat /\ \A x \in F : x \in 1..Len(heap) /\ heap[x].size >= n
  <2>1. F # {}
    BY DEF Paged!Kmalloc
  <2>2. \A x \in F : x \in 1..Len(heap) /\ heap[x].size >= n
    BY DEF Paged!Fits
  <2> HIDE DEF F
  <2>3. F \subseteq Nat
    BY <2>2
  <2> QED BY <2>1, <2>2, <2>3
<1>3. k \in F
  <2>1. \E x \in F : \A y \in F : x <= y
    BY <1>2, LeastExists
  <2> HIDE DEF F
  <2> QED BY <2>1
<1>4. k = Paged!Min(F)
  BY DEF Paged!Min
<1>5. heap' = IF b.size >= n + 2 THEN Spliced(heap, k, 1, mid) ELSE [heap EXCEPT ![k] = whole]
  BY <1>4 DEF Paged!Kmalloc, Spliced
<1> HIDE DEF F, k
<1>6. k \in 1..Len(heap) /\ b \in HeapBlock /\ b.size >= n /\ b.size \in Nat \ {0} /\ n \in Nat \ {0}
  <2>1. k \in 1..Len(heap) /\ b.size >= n
    BY <1>2, <1>3
  <2>2. b \in HeapBlock
    BY <1>1, <2>1
  <2> QED BY <2>1, <2>2 DEF HeapBlock
<1>7. PICK g : PassBy("sums", 0, 0, heap, g) /\ Taken(heap) = g[Len(heap)]
               /\ \A x \in 0..Len(heap) : g[x] \in Nat
  BY <1>1, SumOf
<1>8. g[k] = g[k - 1] + b.size + 1 /\ g[k - 1] \in Nat
  <2>1. k - 1 \in 0..Len(heap)
    BY <1>6
  <2> QED BY <1>6, <1>7, <2>1 DEF PassBy, Passed
<1>9. CASE b.size >= n + 2
  <2>0. b.size - n - 1 \in Nat \ {0}
    BY <1>6, <1>9
  <2>16. a \in HeapBlock
    BY <1>6 DEF HeapBlock
  <2>17. rest \in HeapBlock
    BY <2>0 DEF HeapBlock
  <2>1. a \in HeapBlock /\ rest \in HeapBlock /\ a.size = n /\ rest.size = b.size - n - 1
        /\ a.live = ~a.free /\ rest.live = ~rest.free
    BY <2>16, <2>17
  <2> HIDE DEF a, rest, b
  <2>2. mid \in Seq(HeapBlock) /\ Len(mid) = 2 /\ mid[1] = a /\ mid[2] = rest
    BY <2>1
  <2> HIDE DEF mid
  <2> DEFINE h2 == Spliced(heap, k, 1, mid)
             r == Len(heap) - k
  <2>3. k + 1 <= Len(heap) + 1 /\ Len(heap) - (k + 1) + 1 = r /\ r \in Nat /\ k - 1 \in Nat
        /\ k + 1 - 1 = k /\ Len(heap) \in Nat
    BY <1>1, <1>6
  <2>4. /\ h2 \in Seq(HeapBlock) /\ Len(h2) = k - 1 + 2 + r
        /\ \A x \in 1..(k - 1) : h2[x] = heap[x]
        /\ \A x \in 1..2 : h2[k - 1 + x] = mid[x]
        /\ \A x \in 1..r : h2[k - 1 + 2 + x] = heap[k + x]
    <3>1. /\ h2 \in Seq(HeapBlock) /\ Len(h2) = k - 1 + Len(mid) + (Len(heap) - (k + 1) + 1)
          /\ \A x \in 1..(k - 1) : h2[x] = heap[x]
          /\ \A x \in 1..Len(mid) : h2[k - 1 + x] = mid[x]
          /\ \A x \in 1..(Len(heap) - (k + 1) + 1) : h2[k - 1 + Len(mid) + x] = heap[k + 1 - 1 + x]
      <4>1. IsSplice(heap, k, 1, mid, Spliced(heap, k, 1, mid))
        BY <1>1, <1>6, <2>2, <2>3, SpliceIs
      <4> HIDE DEF h2
      <4>2. h2 = Spliced(heap, k, 1, mid)
        BY DEF h2
      <4>3. IsSplice(heap, k, 1, mid, h2)
        BY <4>1, <4>2
      <4> QED BY ONLY <4>3 DEF IsSplice
    <3> QED BY <2>2, <2>3, <3>1
  <2> HIDE DEF h2
  <2>5. PICK g2 : PassBy("sums", 0, 0, h2, g2) /\ Taken(h2) = g2[Len(h2)]
    BY <2>4, SumOf
  <2>6. Len(h2) \in Nat /\ Len(h2) = k + 1 + r
    BY <2>3, <2>4, <1>6
  <2>7. g2[0] = g[0]
    BY <1>7, <2>5 DEF PassBy
  <2>8. g2[k - 1] = g[k - 1]
    <3>1. 0 + (k - 1) <= Len(heap) /\ 0 + (k - 1) <= Len(h2) /\ k - 1 = 0 + (k - 1) /\ 0 \in Nat
      BY <1>6, <2>3, <2>6
    <3>2. SameSizes(heap, h2, 0, 0, k - 1)
      BY <2>4 DEF SameSizes
    <3> QED BY <1>7, <2>3, <2>5, <2>6, <2>7, <3>1, <3>2, SumsRun
  <2>9. h2[k] = a /\ h2[k + 1] = rest
    <3>1. k - 1 + 1 = k /\ k - 1 + 2 = k + 1 /\ 1 \in 1..2 /\ 2 \in 1..2
      BY <1>6
    <3>2. h2[k - 1 + 1] = mid[1] /\ h2[k - 1 + 2] = mid[2]
      BY <2>4, <3>1
    <3> QED BY <2>2, <3>1, <3>2
  <2>10. g2[k] = g2[k - 1] + n + 1 /\ g2[k + 1] = g2[k] + (b.size - n - 1) + 1
    <3>1. k \in 1..Len(h2) /\ k + 1 \in 1..Len(h2) /\ k + 1 - 1 = k
      BY <1>6, <2>3, <2>6
    <3> QED BY <2>1, <2>5, <2>9, <3>1 DEF PassBy, Passed
  <2>11. g2[k + 1] = g[k]
    <3> DEFINE t == g[k - 1]
               d == b.size
    <3>1. d \in Nat /\ n \in Nat /\ t \in Nat
      BY <1>6, <1>8
    <3>2. g[k] = t + d + 1 /\ g2[k + 1] = (t + n + 1) + (d - n - 1) + 1
      BY <1>8, <2>8, <2>10
    <3> HIDE DEF t, d
    <3> QED BY <3>1, <3>2
  <2>12. g2[k + 1 + r] = g[k + r]
    <3> DEFINE v == k + r
               w == (k + 1) + r
               j == k + 1
    <3>1. /\ k + r <= Len(heap) /\ j + r <= Len(h2) /\ k \in Nat /\ j \in Nat /\ j = k + 1
          /\ v = k + r /\ w = j + r
      BY <1>6, <2>3, <2>6
    <3>2. SameSizes(heap, h2, k, j, r) /\ g2[j] = g[k]
      <4>1. \A x \in 1..r : k - 1 + 2 + x = k + 1 + x
        BY <1>6
      <4> QED BY <2>4, <2>11, <4>1 DEF SameSizes
    <3> HIDE DEF v, w, j, r
    <3>3. g2[w] = g[v]
      <4>1. heap \in Seq(HeapBlock) /\ h2 \in Seq(HeapBlock) /\ r \in Nat
        BY <1>1, <2>3, <2>4
      <4>2. Len(heap) \in Nat /\ Len(h2) \in Nat
        BY <2>3, <2>6
      <4> QED BY ONLY <1>7, <2>5, <3>1, <3>2, <4>1, <4>2, SumsRun
    <3> QED BY <3>3 DEF v, w
  <2>13. Taken(h2) = HeapSize
    <3>1. k + r = Len(heap)
      BY <1>6, <2>3
    <3> QED BY <1>1, <1>7, <2>5, <2>6, <2>12, <3>1
  <2>14. ASSUME NEW y \in 1..Len(h2) PROVE h2[y].live = ~h2[y].free
    <3>1. CASE y \in 1..(k - 1)
      <4>1. y \in 1..Len(heap)
        BY <1>6, <2>3, <3>1
      <4>2. h2[y] = heap[y]
        BY <2>4, <3>1
      <4> QED BY <1>1, <4>1, <4>2
    <3>2. CASE y = k \/ y = k + 1
      BY <2>1, <2>9, <3>2
    <3>3. CASE y > k + 1
      <4> DEFINE x == y - (k + 1)
      <4>1. x \in 1..r /\ k - 1 + 2 + x = y /\ k + x \in 1..Len(heap)
        BY <1>6, <2>3, <2>6, <3>3
      <4> HIDE DEF x
      <4> QED BY <1>1, <2>4, <4>1
    <3> QED BY <1>6, <3>1, <3>2, <3>3
  <2>15. heap' = h2
    BY <1>5, <1>9 DEF h2, b
  <2> QED BY <2>4, <2>13, <2>14, <2>15 DEF Tiled
<1>10. CASE ~ (b.size >= n + 2)
  <2>1. heap' = [heap EXCEPT ![k] = whole]
    BY <1>5, <1>10
  <2>3. whole \in HeapBlock
    BY <1>6 DEF HeapBlock
  <2>2. whole \in HeapBlock /\ whole.size = heap[k].size /\ whole.live = ~whole.free
    BY <2>3
  <2> HIDE DEF whole
  <2> QED BY <1>6, <2>1, <2>2, ReplacedKeeps
<1> QED BY <1>9, <1>10

LEMMA KfreeKeeps ==
  ASSUME Paging, Tiled(heap), NEW k \in 1..Len(heap), Paged!Kfree(k)
  PROVE  Tiled(heap')
<1> DEFINE a == heap[k]
           b == heap[k + 1]
           joins == k < Len(heap) /\ b.free
           c == [size |-> a.size + 1 + b.size, free |-> TRUE, live |-> FALSE]
           freed == [a EXCEPT !.free = TRUE, !.live = FALSE]
           mid == <<c>>
<1>1. heap \in Seq(HeapBlock) /\ Taken(heap) = HeapSize /\ \A j \in 1..Len(heap) : heap[j].live = ~heap[j].free
  BY DEF Tiled
<1>2. heap' = IF joins THEN Spliced(heap, k, 2, mid) ELSE [heap EXCEPT ![k] = freed]
  BY DEF Paged!Kfree, Spliced
<1>3. a \in HeapBlock /\ a.size \in Nat \ {0}
  <2>1. a \in HeapBlock
    BY <1>1
  <2> QED BY <2>1 DEF HeapBlock
<1>4. PICK g : PassBy("sums", 0, 0, heap, g) /\ Taken(heap) = g[Len(heap)]
               /\ \A x \in 0..Len(heap) : g[x] \in Nat
  BY <1>1, SumOf
<1>5. CASE joins
  <2>0. b \in HeapBlock /\ b.size \in Nat \ {0} /\ k + 1 \in 1..Len(heap)
    <3>1. k + 1 \in 1..Len(heap)
      BY <1>5
    <3>2. b \in HeapBlock
      BY <1>1, <3>1
    <3> QED BY <3>1, <3>2 DEF HeapBlock
  <2>16. a.size + 1 + b.size \in Nat \ {0}
    BY <1>3, <2>0
  <2>17. c \in HeapBlock
    BY <2>16 DEF HeapBlock
  <2>1. c \in HeapBlock /\ c.size = a.size + 1 + b.size /\ c.live = ~c.free
    BY <2>17
  <2>18. heap' = Spliced(heap, k, 2, mid)
    BY <1>2, <1>5
  <2> HIDE DEF a, b, c, joins
  <2>2. mid \in Seq(HeapBlock) /\ Len(mid) = 1 /\ mid[1] = c
    BY <2>1
  <2> HIDE DEF mid
  <2> DEFINE h2 == Spliced(heap, k, 2, mid)
             r == Len(heap) - (k + 1)
  <2>3. k + 2 <= Len(heap) + 1 /\ Len(heap) - (k + 2) + 1 = r /\ r \in Nat /\ k - 1 \in Nat
        /\ k + 2 - 1 = k + 1 /\ Len(heap) \in Nat /\ 2 \in Nat
    BY <1>1, <2>0
  <2>4. /\ h2 \in Seq(HeapBlock) /\ Len(h2) = k - 1 + 1 + r
        /\ \A x \in 1..(k - 1) : h2[x] = heap[x]
        /\ \A x \in 1..1 : h2[k - 1 + x] = mid[x]
        /\ \A x \in 1..r : h2[k - 1 + 1 + x] = heap[k + 1 + x]
    <3>1. /\ h2 \in Seq(HeapBlock) /\ Len(h2) = k - 1 + Len(mid) + (Len(heap) - (k + 2) + 1)
          /\ \A x \in 1..(k - 1) : h2[x] = heap[x]
          /\ \A x \in 1..Len(mid) : h2[k - 1 + x] = mid[x]
          /\ \A x \in 1..(Len(heap) - (k + 2) + 1) : h2[k - 1 + Len(mid) + x] = heap[k + 2 - 1 + x]
      <4>1. IsSplice(heap, k, 2, mid, Spliced(heap, k, 2, mid))
        BY <1>1, <2>2, <2>3, SpliceIs
      <4> HIDE DEF h2
      <4>2. h2 = Spliced(heap, k, 2, mid)
        BY DEF h2
      <4>3. IsSplice(heap, k, 2, mid, h2)
        BY <4>1, <4>2
      <4> QED BY ONLY <4>3 DEF IsSplice
    <3>2. \A x \in Nat : k + 2 - 1 + x = k + 1 + x
      OBVIOUS
    <3> HIDE DEF h2, r
    <3>3. /\ h2 \in Seq(HeapBlock) /\ Len(h2) = k - 1 + 1 + r
          /\ \A x \in 1..(k - 1) : h2[x] = heap[x]
      BY <2>2, <2>3, <3>1
    <3>4. \A x \in 1..1 : h2[k - 1 + x] = mid[x]
      BY <2>2, <3>1
    <3>5. \A x \in 1..r : h2[k - 1 + 1 + x] = heap[k + 1 + x]
      <4>1. \A x \in 1..r : h2[k - 1 + 1 + x] = heap[k + 2 - 1 + x]
        BY <2>2, <2>3, <3>1
      <4> QED BY <2>3, <3>2, <4>1
    <3> QED BY <3>3, <3>4, <3>5
  <2>15. heap' = h2
    BY <2>18
  <2> HIDE DEF h2
  <2>5. PICK g2 : PassBy("sums", 0, 0, h2, g2) /\ Taken(h2) = g2[Len(h2)]
    BY <2>4, SumOf
  <2>6. Len(h2) \in Nat /\ Len(h2) = k + r /\ k + 1 + r = Len(heap)
    BY <2>3, <2>4
  <2>7. g2[0] = g[0]
    BY <1>4, <2>5 DEF PassBy
  <2>8. g2[k - 1] = g[k - 1]
    <3>1. 0 + (k - 1) <= Len(heap) /\ 0 + (k - 1) <= Len(h2) /\ k - 1 = 0 + (k - 1) /\ 0 \in Nat
      BY <2>3, <2>6
    <3>2. SameSizes(heap, h2, 0, 0, k - 1)
      BY <2>4 DEF SameSizes
    <3> QED BY <1>4, <2>3, <2>5, <2>6, <2>7, <3>1, <3>2, SumsRun
  <2>9. h2[k] = c
    <3>1. k - 1 + 1 = k /\ 1 \in 1..1
      OBVIOUS
    <3>2. h2[k - 1 + 1] = mid[1]
      BY <2>4, <3>1
    <3> QED BY <2>2, <3>1, <3>2
  <2>10. /\ g2[k] = g2[k - 1] + (a.size + 1 + b.size) + 1
         /\ g[k] = g[k - 1] + a.size + 1 /\ g[k + 1] = g[k] + b.size + 1
    <3>1. k \in 1..Len(h2) /\ k + 1 - 1 = k
      BY <2>3, <2>6
    <3> QED BY <1>4, <2>0, <2>1, <2>5, <2>9, <3>1 DEF PassBy, Passed, a, b
  <2>19. g[k - 1] \in Nat
    BY <1>4, <2>3
  <2>11. g2[k] = g[k + 1]
    <3> DEFINE t == g[k - 1]
               d == a.size
               e == b.size
    <3>1. d \in Nat /\ e \in Nat /\ t \in Nat
      BY <1>3, <2>0, <2>19
    <3>2. g2[k] = t + (d + 1 + e) + 1 /\ g[k + 1] = (t + d + 1) + e + 1
      BY <2>8, <2>10
    <3> HIDE DEF t, d, e
    <3> QED BY <3>1, <3>2
  <2>12. g2[k + r] = g[k + 1 + r]
    <3> DEFINE v == (k + 1) + r
               w == k + r
               i == k + 1
    <3>1. /\ i + r <= Len(heap) /\ k + r <= Len(h2) /\ k \in Nat /\ i \in Nat /\ i = k + 1
          /\ v = i + r /\ w = k + r
      BY <2>3, <2>6
    <3>2. SameSizes(heap, h2, i, k, r) /\ g2[k] = g[i]
      <4>1. \A x \in 1..r : k - 1 + 1 + x = k + x
        OBVIOUS
      <4> QED BY <2>4, <2>11, <4>1 DEF SameSizes
    <3> HIDE DEF v, w, i, r
    <3>3. g2[w] = g[v]
      <4>1. heap \in Seq(HeapBlock) /\ h2 \in Seq(HeapBlock) /\ r \in Nat
        BY <1>1, <2>3, <2>4
      <4>2. Len(heap) \in Nat /\ Len(h2) \in Nat
        BY <2>3, <2>6
      <4> QED BY ONLY <1>4, <4>2, <2>5, <3>1, <3>2, <4>1, SumsRun
    <3> QED BY <3>3 DEF v, w
  <2>13. Taken(h2) = HeapSize
    BY <1>1, <1>4, <2>5, <2>6, <2>12
  <2>14. ASSUME NEW y \in 1..Len(h2) PROVE h2[y].live = ~h2[y].free
    <3>1. CASE y \in 1..(k - 1)
      BY <1>1, <2>4, <3>1
    <3>2. CASE y = k
      BY <2>1, <2>9, <3>2
    <3>3. CASE y > k
      <4> DEFINE x == y - k
      <4>1. x \in 1..r /\ k - 1 + 1 + x = y /\ k + 1 + x \in 1..Len(heap)
        BY <2>3, <2>6, <3>3
      <4> HIDE DEF x
      <4> QED BY <1>1, <2>4, <4>1
    <3> QED BY <3>1, <3>2, <3>3
  <2> QED BY <2>4, <2>13, <2>14, <2>15 DEF Tiled
<1>6. CASE ~ joins
  <2>1. heap' = [heap EXCEPT ![k] = freed]
    BY <1>2, <1>6
  <2>2. freed \in HeapBlock /\ freed.size = a.size /\ freed.live = ~freed.free
    BY <1>3 DEF HeapBlock
  <2> HIDE DEF freed
  <2> QED BY <2>1, <2>2, ReplacedKeeps
<1> QED BY <1>5, <1>6

----------------------------------------------------------------------------
LEMMA TableHas ==
  ASSUME NEW M \in [Paged!Maps -> Hierarchy], NEW m \in Paged!Maps, NEW t \in TablesOf, NEW f \in Nat
  PROVE  TableIn(M, m, t, f)[m].tables[t] = f
<1> DEFINE M2 == [M EXCEPT ![m].tables[t] = f]
<1>1. M[m] \in Hierarchy
  OBVIOUS
<1>2. M2[m].tables = [M[m].tables EXCEPT ![t] = f]
  BY <1>1 DEF Hierarchy
<1>3. M[m].tables \in [TablesOf -> Nat]
  BY <1>1 DEF Hierarchy
<1> HIDE DEF M2
<1>4. M2[m].tables[t] = f
  BY <1>2, <1>3
<1> QED BY <1>4 DEF M2, TableIn

LEMMA MapNewKeeps ==
  ASSUME Paging, Mapping, NEW m \in Enclosures, Paged!MapNew(m)
  PROVE  Mapping'
<1> DEFINE root == Paged!Alloc(Paged!Now)
           s1   == Paged!Take(Paged!Now, root)
           tab  == Paged!Alloc(s1)
           M2   == RootIn(map, m, root)
           M3   == TableIn(M2, m, 0, tab)
           s2   == [Paged!Take(s1, tab) EXCEPT !.map[m].root = root, !.map[m].tables[0] = tab]
<1>1. /\ map[m].root = 0 /\ UNCHANGED <<nextMap, heap>>
      /\ IF root = 0 THEN Paged!Become(Paged!Now) /\ UNCHANGED <<active, brk>>
         ELSE IF tab = 0 THEN Paged!Become(Paged!Give(s1, root)) /\ UNCHANGED <<active, brk>>
         ELSE /\ Paged!Become(Paged!Back(s2, m, 1, FALSE))
              /\ active' = m /\ brk' = [brk EXCEPT ![m] = 1]
  BY DEF Paged!MapNew
<1>2. /\ Kept(Paged!Now) /\ Pool(Paged!Now, used, free, map, TRUE) /\ Pooled(used, free)
      /\ map \in [Paged!Maps -> Hierarchy] /\ Single(used, map) /\ Unbuilt(map)
      /\ used \subseteq Paged!AllFrames /\ m \in Paged!Maps /\ Paged!Now.used = used
      /\ Paged!Now.map = map
  <2>1. Kept(Paged!Now) /\ Pool(Paged!Now, used, free, map, TRUE)
    BY NowIs DEF Mapping
  <2> QED BY <2>1 DEF Kept, Pool, Pooled, Paged!Maps
<1>3. free \in Nat /\ 0 \notin used /\ Reserved \subseteq used
  BY <1>2, PoolIsNat DEF Pooled
<1>4. 1 \in Paged!Pages /\ Paged!TableOf(1) = 0 /\ 0 \in TablesOf
  <2>1. 1 \in Paged!Pages
    BY DEF Paging, Paged!Pages, Paged!LastPage
  <2>2. 0 \div PerTable = 0
    BY DEF Paging
  <2>3. Paged!TableOf(1) = 0
    BY <2>2 DEF Paged!TableOf
  <2> QED BY <2>1, <2>3 DEF TablesOf
<1>5. CASE root = 0
  <2>1. Kept(Paged!Now)' /\ map' = map
    BY <1>1, <1>2, <1>5, BecomeKeeps
  <2> QED BY <1>1, <1>5, <2>1 DEF Mapping
<1>6. CASE root # 0 /\ tab = 0
  <2>1. root \in Paged!AllFrames \ used
    BY <1>2, <1>6, AllocIs
  <2> HIDE DEF root, tab
  <2>2. Pool(s1, used \cup {root}, free - 1, map, TRUE)
    BY <1>2, PoolIs
  <2>3. Pool(Paged!Give(s1, root), (used \cup {root}) \ {root}, free - 1 + 1, map, TRUE)
    <3>1. root \in used \cup {root}
      OBVIOUS
    <3> QED BY <2>2, <3>1, PoolIs
  <2>4. (used \cup {root}) \ {root} = used /\ free - 1 + 1 = free
    BY <1>3, <2>1
  <2>5. Pool(Paged!Give(s1, root), used, free, map, TRUE)
    BY <2>3, <2>4
  <2>6. Kept(Paged!Give(s1, root)) /\ Paged!Give(s1, root).map = map
    BY <1>2, <2>5, KeptPool
  <2>7. Kept(Paged!Now)' /\ map' = map
    BY <1>1, <1>6, <2>6, BecomeKeeps
  <2> QED BY <1>1, <1>6, <2>7 DEF Mapping
<1>7. CASE root # 0 /\ tab # 0
  <2>1. root \in Paged!AllFrames \ used /\ root \in Nat
    BY <1>2, <1>7, AllocIs
  <2> HIDE DEF root
  <2>2. Pool(s1, used \cup {root}, free - 1, map, TRUE)
    BY <1>2, PoolIs
  <2>3. s1.used = used \cup {root} /\ s1.used \subseteq Paged!AllFrames
    BY <1>2, <2>1, <2>2 DEF Pool
  <2>4. tab \in Paged!AllFrames \ (used \cup {root}) /\ tab \in Nat /\ tab # 0
    BY <1>7, <2>3, AllocIs
  <2> HIDE DEF tab, s1
  <2>5. Pool(Paged!Take(s1, tab), (used \cup {root}) \cup {tab}, free - 1 - 1, map, TRUE)
    BY <2>2, PoolIs
  <2>6. Pool(s2, (used \cup {root}) \cup {tab}, free - 1 - 1, M3, TRUE)
    BY <2>5 DEF Pool, RootIn, TableIn
  <2>7. /\ Pooled(used \cup {root}, free - 1)
        /\ M2 \in [Paged!Maps -> Hierarchy] /\ Puts(map, M2, <<"root", m, 0>>, root)
        /\ M2[m].root = root /\ M2[m].tables = map[m].tables /\ M2[m].pte = map[m].pte
        /\ \A k \in Paged!Maps : k # m => M2[k] = map[k]
    BY <1>2, <2>1, PoolGains, RootPut
  <2> HIDE DEF s2, M2
  <2>8. Single(used \cup {root}, M2)
    <3>1. <<"root", m, 0>> \in Entry3 /\ FrameAt(map, <<"root", m, 0>>) = 0
      BY <1>1, <1>2 DEF Entry3, FrameAt
    <3> QED BY <1>2, <1>3, <1>7, <2>1, <2>7, <3>1, Gains
  <2>9. /\ Unbuilt(M2)
        /\ M2[m].root # 0 /\ M2[m].tables[0] = 0 /\ M2[m].pte[1] = 0
    BY <1>1, <1>2, <1>4, <1>7, <2>7 DEF Unbuilt
  <2> DEFINE u == used \cup {root}
             n == free - 1
  <2> HIDE DEF u, n
  <2>10. /\ Pooled(u \cup {tab}, n - 1) /\ M3 \in [Paged!Maps -> Hierarchy]
         /\ Single(u \cup {tab}, M3) /\ Unbuilt(M3) /\ SameRoots(M2, M3)
         /\ \A k \in Paged!Maps : M3[k].pte = M2[k].pte
    <3>1. Pooled(u, n) /\ M2 \in [Paged!Maps -> Hierarchy] /\ Single(u, M2) /\ Unbuilt(M2)
          /\ m \in Paged!Maps /\ 0 \in TablesOf /\ M2[m].tables[0] = 0 /\ M2[m].root # 0
          /\ tab \in Paged!AllFrames \ u /\ tab \in Nat /\ tab # 0
      BY <1>2, <1>4, <2>4, <2>7, <2>8, <2>9 DEF u, n
    <3> QED BY ONLY Paging, <3>1, TableGains
  <2>11. M3[m].tables[0] = tab
    <3>1. M2 \in [Paged!Maps -> Hierarchy] /\ m \in Paged!Maps /\ 0 \in TablesOf /\ tab \in Nat
      BY <1>2, <1>4, <2>4, <2>7
    <3>2. TableIn(M2, m, 0, tab)[m].tables[0] = tab
      BY ONLY <3>1, TableHas
    <3> QED BY <3>2
  <2> HIDE DEF M3
  <2>12. Kept(s2) /\ s2.map = M3
    BY <2>6, <2>10, KeptPool DEF u, n
  <2>13. s2.map[m].pte[1] = 0 /\ s2.map[m].root # 0 /\ s2.map[m].tables[Paged!TableOf(1)] # 0
    BY <1>2, <1>4, <2>4, <2>9, <2>10, <2>11, <2>12 DEF SameRoots
  <2> DEFINE y == Paged!Back(s2, m, 1, FALSE)
  <2>14. Kept(y) /\ SameRoots(M3, y.map)
    BY <1>2, <1>4, <2>12, <2>13, BackKeeps
  <2> HIDE DEF y
  <2>15. Kept(Paged!Now)' /\ map' = y.map
    BY <1>1, <1>7, <2>14, BecomeKeeps DEF y
  <2>16. map'[m].root # 0
    BY <1>2, <2>12, <2>13, <2>14, <2>15 DEF SameRoots
  <2>17. active' = m /\ brk' \in [Paged!Maps -> 0..BrkPages]
    BY <1>1, <1>7 DEF Mapping, Paging
  <2> QED BY <1>1, <1>2, <2>15, <2>16, <2>17 DEF Mapping
<1> QED BY <1>5, <1>6, <1>7

LEMMA StaysKept ==
  ASSUME Mapping, UNCHANGED <<used, free, map>>
  PROVE  Kept(Paged!Now)' /\ SameRoots(map, map')
<1>1. Kept(Paged!Now) /\ Pool(Paged!Now, used, free, map, TRUE)
  BY NowIs DEF Mapping
<1>2. Paged!Become(Paged!Now) /\ Paged!Now.map = map
  BY <1>1 DEF Pool, Paged!Become
<1>3. Kept(Paged!Now)' /\ map' = map
  BY <1>1, <1>2, BecomeKeeps
<1> QED BY <1>3 DEF SameRoots

LEMMA BackedKeeps ==
  ASSUME Paging, Mapping, Paged!Running, NEW from \in Nat, NEW to \in Nat,
         from..to \subseteq Paged!Pages,
         Paged!Become(Paged!BackAbsent(Paged!Now, active, from, to))
  PROVE  Kept(Paged!Now)' /\ SameRoots(map, map')
<1> DEFINE y == Paged!BackAbsent(Paged!Now, active, from, to)
<1>1. Kept(Paged!Now) /\ Paged!Now.map = map /\ active \in Paged!Maps /\ map[active].root # 0
  BY NowIs DEF Mapping, Pool, Paged!Running
<1>2. Kept(y) /\ SameRoots(map, y.map)
  BY <1>1, BackAbsentKeeps
<1>3. Paged!Become(y)
  OBVIOUS
<1> HIDE DEF y
<1> QED BY <1>2, <1>3, BecomeKeeps

LEMMA ReleasedKeeps ==
  ASSUME Paging, Mapping, Paged!Running, NEW from \in Nat, NEW to \in Nat,
         from..to \subseteq Paged!Pages,
         Paged!Become(Paged!Release(Paged!Now, from, to))
  PROVE  Kept(Paged!Now)' /\ SameRoots(map, map')
<1> DEFINE y == Paged!Release(Paged!Now, from, to)
<1>1. Kept(Paged!Now) /\ Paged!Now.map = map /\ active \in Paged!Maps /\ map[active].root # 0
  BY NowIs DEF Mapping, Pool, Paged!Running
<1>2. Kept(y) /\ SameRoots(map, y.map)
  BY <1>1, ReleasesKeep
<1>3. Paged!Become(y)
  OBVIOUS
<1> HIDE DEF y
<1> QED BY <1>2, <1>3, BecomeKeeps

(* What an act that keeps the running map and the heap still has to show.  *)
LEMMA ActKeeps ==
  ASSUME Mapping, Kept(Paged!Now)', SameRoots(map, map'), UNCHANGED <<active, heap>>,
         brk' \in [Paged!Maps -> 0..BrkPages], nextMap' \in Nat /\ nextMap' > BrkPages
  PROVE  Mapping'
<1>1. active \in Paged!Maps /\ (active # Paged!Boot => map'[active].root # 0)
  BY DEF Mapping, SameRoots
<1> QED BY <1>1 DEF Mapping

LEMMA SwitchKeeps ==
  ASSUME Mapping, NEW m \in Enclosures, Paged!Switch(m)
  PROVE  Mapping'
<1>1. /\ active' = m /\ map[m].root # 0 /\ m \in Paged!Maps
      /\ UNCHANGED <<used, free, map, brk, nextMap, heap>>
  BY DEF Paged!Switch, Paged!Maps
<1>2. Kept(Paged!Now)'
  BY <1>1, StaysKept
<1> QED BY <1>1, <1>2 DEF Mapping

LEMMA BrkKeeps ==
  ASSUME Paging, Mapping, NEW to \in 1..BrkPages, Paged!Brk(to)
  PROVE  Mapping'
<1> DEFINE s == IF to < brk[active] THEN Paged!Release(Paged!Now, to + 1, brk[active])
                ELSE Paged!BackAbsent(Paged!Now, active, brk[active] + 1, to)
<1>1. /\ Paged!Running /\ Paged!Become(s) /\ UNCHANGED <<active, nextMap, heap>>
      /\ brk' = IF s.ok THEN [brk EXCEPT ![active] = to] ELSE brk
  BY DEF Paged!Brk
<1>2. brk[active] \in 0..BrkPages /\ brk[active] \in Nat /\ to \in Nat /\ to + 1 \in Nat
      /\ brk[active] + 1 \in Nat
  BY DEF Mapping, Paging
<1>3. /\ (to + 1)..brk[active] \subseteq Paged!Pages
      /\ (brk[active] + 1)..to \subseteq Paged!Pages
  BY <1>2 DEF Paged!Pages, Paged!LastPage, Paging
<1>4. Kept(Paged!Now)' /\ SameRoots(map, map')
  <2>1. CASE to < brk[active]
    BY <1>1, <1>2, <1>3, <2>1, ReleasedKeeps
  <2>2. CASE ~ (to < brk[active])
    BY <1>1, <1>2, <1>3, <2>2, BackedKeeps
  <2> QED BY <2>1, <2>2
<1> HIDE DEF s
<1>5. brk' \in [Paged!Maps -> 0..BrkPages] /\ nextMap' \in Nat /\ nextMap' > BrkPages
  <2>1. to \in 0..BrkPages
    BY DEF Paging
  <2> QED BY <1>1, <2>1 DEF Mapping
<1> QED BY <1>1, <1>4, <1>5, ActKeeps

LEMMA MmapKeeps ==
  ASSUME Paging, Mapping, NEW n \in 1..2, NEW accessible \in BOOLEAN, Paged!Mmap(n, accessible)
  PROVE  Mapping'
<1> DEFINE s == IF accessible THEN Paged!BackAbsent(Paged!Now, active, nextMap, nextMap + n - 1)
                ELSE Paged!Now
<1>1. /\ Paged!Running /\ nextMap + n <= Paged!LastPage + 1
      /\ Paged!Become(s) /\ UNCHANGED <<active, brk, heap>>
      /\ nextMap' = IF s.ok THEN nextMap + n + 1 ELSE nextMap
  BY DEF Paged!Mmap
<1>2. nextMap \in Nat /\ nextMap > BrkPages /\ n \in Nat /\ nextMap + n - 1 \in Nat
  BY DEF Mapping
<1>3. nextMap..(nextMap + n - 1) \subseteq Paged!Pages
  BY <1>1, <1>2 DEF Paged!Pages, Paged!LastPage, Paging
<1>4. Kept(Paged!Now)' /\ SameRoots(map, map')
  <2>1. CASE accessible
    BY <1>1, <1>2, <1>3, <2>1, BackedKeeps
  <2>2. CASE ~accessible
    <3>1. Paged!Become(Paged!Now)
      BY <1>1, <2>2
    <3>2. UNCHANGED <<used, free, map>>
      BY <3>1, NowIs DEF Pool, Paged!Become
    <3> QED BY <3>2, StaysKept
  <2> QED BY <2>1, <2>2
<1> HIDE DEF s
<1>5. brk' \in [Paged!Maps -> 0..BrkPages] /\ nextMap' \in Nat /\ nextMap' > BrkPages
  BY <1>1, <1>2 DEF Mapping, Paging
<1> QED BY <1>1, <1>4, <1>5, ActKeeps

LEMMA StretchKeeps ==
  ASSUME Paging, Mapping,
         NEW from \in (BrkPages + 1)..Paged!LastPage, NEW to \in (BrkPages + 1)..Paged!LastPage,
         Paged!Commit(from, to) \/ Paged!Munmap(from, to)
  PROVE  Mapping'
<1>1. from \in Nat /\ to \in Nat /\ from..to \subseteq Paged!Pages
  BY DEF Paged!Pages, Paged!LastPage, Paging
<1>2. Paged!Running /\ UNCHANGED <<active, brk, nextMap, heap>>
  BY DEF Paged!Commit, Paged!Munmap
<1>3. Kept(Paged!Now)' /\ SameRoots(map, map')
  <2>1. CASE Paged!Commit(from, to)
    BY <1>1, <1>2, <2>1, BackedKeeps DEF Paged!Commit
  <2>2. CASE Paged!Munmap(from, to)
    BY <1>1, <1>2, <2>2, ReleasedKeeps DEF Paged!Munmap
  <2> QED BY <2>1, <2>2
<1>4. brk' \in [Paged!Maps -> 0..BrkPages] /\ nextMap' \in Nat /\ nextMap' > BrkPages
  BY <1>2 DEF Mapping
<1> QED BY <1>2, <1>3, <1>4, ActKeeps

LEMMA HeapKeeps ==
  ASSUME Mapping, Tiled(heap'), UNCHANGED <<used, free, map, active, brk, nextMap>>
  PROVE  Mapping'
<1>1. Kept(Paged!Now)'
  BY StaysKept
<1> QED BY <1>1 DEF Mapping

LEMMA MappingInductive == Paging /\ Mapping /\ [Paged!Next]_(Paged!vars) => Mapping'
<1> SUFFICES ASSUME Paging, Mapping, [Paged!Next]_(Paged!vars) PROVE Mapping'
  OBVIOUS
<1>1. ASSUME NEW m \in Enclosures, Paged!MapNew(m) PROVE Mapping'
  BY <1>1, MapNewKeeps
<1>2. ASSUME NEW m \in Enclosures, Paged!Switch(m) PROVE Mapping'
  BY <1>2, SwitchKeeps
<1>3. ASSUME NEW to \in 1..BrkPages, Paged!Brk(to) PROVE Mapping'
  BY <1>3, BrkKeeps
<1>4. ASSUME NEW n \in 1..2, NEW a \in BOOLEAN, Paged!Mmap(n, a) PROVE Mapping'
  BY <1>4, MmapKeeps
<1>5. ASSUME NEW from \in (BrkPages + 1)..Paged!LastPage, NEW to \in (BrkPages + 1)..Paged!LastPage,
             Paged!Commit(from, to) \/ Paged!Munmap(from, to)
      PROVE  Mapping'
  BY <1>5, StretchKeeps
<1>6. ASSUME NEW n \in 1..HeapSize, Paged!Kmalloc(n) PROVE Mapping'
  <2>1. Tiled(heap')
    BY <1>6, KmallocKeeps DEF Mapping
  <2> QED BY <1>6, <2>1, HeapKeeps DEF Paged!Kmalloc
<1>7. ASSUME NEW k \in 1..Len(heap), Paged!Kfree(k) PROVE Mapping'
  <2>1. Tiled(heap')
    BY <1>7, KfreeKeeps DEF Mapping
  <2> QED BY <1>7, <2>1, HeapKeeps DEF Paged!Kfree
<1>8. CASE UNCHANGED Paged!vars
  <2>1. UNCHANGED <<used, free, map, active, brk, nextMap, heap>>
    BY <1>8 DEF Paged!vars
  <2>2. Tiled(heap')
    BY <2>1 DEF Mapping
  <2> QED BY <2>1, <2>2, HeapKeeps
<1> QED BY <1>1, <1>2, <1>3, <1>4, <1>5, <1>6, <1>7, <1>8 DEF Paged!Next

(* A frame's places, counted by kind, are one or none.                     *)
LEMMA AtMostOne ==
  ASSUME NEW S, \A x, y \in S : x = y
  PROVE  \/ S = {} /\ Cardinality(S) = 0
         \/ S # {} /\ Cardinality(S) = 1
<1>1. CASE S = {}
  BY <1>1, FS_EmptySet
<1>2. CASE S # {}
  <2>1. PICK x : x \in S
    BY <1>2
  <2>2. S = {x}
    BY <2>1
  <2> QED BY <1>2, <2>2, FS_Singleton
<1> QED BY <1>1, <1>2

LEMMA TablesAre == DOMAIN Paged!NoMap.tables = TablesOf
  BY DEF Paged!NoMap, TablesOf

(* No frame is in two of the places, whatever their kind.                  *)
LEMMA OwnersAre ==
  ASSUME Paging, Mapping, NEW f \in Paged!AllFrames
  PROVE  \/ /\ f \in used \ Reserved /\ Paged!Owners(f) = 1
         \/ /\ f \notin used \ Reserved /\ Paged!Owners(f) = 0
<1> DEFINE U == Paged!Users(f)
           T == Paged!Tables(f)
           R == Paged!Roots(f)
           Here(x) == x \in Entry3 /\ FrameAt(map, x) = f
<1>1. Single(used, map) /\ f # 0
  BY NowIs DEF Mapping, Kept, Pool, Paged!AllFrames, Paging
<1>2. \A x, y : Here(x) /\ Here(y) => x = y
  BY <1>1 DEF Single
<1>3. ASSUME NEW x \in U PROVE Here(<<"page", x[1], x[2]>>) /\ x = <<x[1], x[2]>>
  BY DEF Paged!Users, Entry3, FrameAt
<1>4. ASSUME NEW x \in T PROVE Here(<<"table", x[1], x[2]>>) /\ x = <<x[1], x[2]>>
  BY TablesAre DEF Paged!Tables, Entry3, FrameAt
<1>5. ASSUME NEW m \in R PROVE Here(<<"root", m, 0>>)
  BY DEF Paged!Roots, Entry3, FrameAt
<1>6. ASSUME NEW x, Here(x) PROVE U # {} \/ T # {} \/ R # {}
  <2>1. CASE \E m \in Paged!Maps : x = <<"root", m, 0>>
    BY <1>6, <2>1 DEF Paged!Roots, FrameAt
  <2>2. CASE \E m \in Paged!Maps, t \in TablesOf : x = <<"table", m, t>>
    <3>1. PICK m \in Paged!Maps, t \in TablesOf : x = <<"table", m, t>>
      BY <2>2
    <3>2. map[m].tables[t] = f
      BY <1>6, <3>1 DEF FrameAt
    <3>3. <<m, t>> \in T
      BY <3>1, <3>2, TablesAre DEF Paged!Tables
    <3> QED BY <3>3
  <2>3. CASE \E m \in Paged!Maps, p \in Paged!Pages : x = <<"page", m, p>>
    <3>1. PICK m \in Paged!Maps, p \in Paged!Pages : x = <<"page", m, p>>
      BY <2>3
    <3>2. map[m].pte[p] = f
      BY <1>6, <3>1 DEF FrameAt
    <3>3. <<m, p>> \in U
      BY <3>1, <3>2 DEF Paged!Users
    <3> QED BY <3>3
  <2> QED BY <1>6, <2>1, <2>2, <2>3, EntryIs
<1>7. (\E x : Here(x)) <=> f \in used \ Reserved
  BY <1>1 DEF Single
<1> HIDE DEF U, T, R, Here
<1>8. \A x, y \in U : x = y
  <2> TAKE x \in U, y \in U
  <2>1. <<"page", x[1], x[2]>> = <<"page", y[1], y[2]>>
    BY <1>2, <1>3
  <2> QED BY <1>3, <2>1
<1>9. \A x, y \in T : x = y
  <2> TAKE x \in T, y \in T
  <2>1. <<"table", x[1], x[2]>> = <<"table", y[1], y[2]>>
    BY <1>2, <1>4
  <2> QED BY <1>4, <2>1
<1>10. \A x, y \in R : x = y
  <2> TAKE x \in R, y \in R
  <2>1. <<"root", x, 0>> = <<"root", y, 0>>
    BY <1>2, <1>5
  <2> QED BY <2>1
<1>11. (U = {} \/ T = {}) /\ (U = {} \/ R = {}) /\ (T = {} \/ R = {})
  <2>1. ASSUME NEW x \in U, NEW y \in T PROVE FALSE
    <3>1. <<"page", x[1], x[2]>> = <<"table", y[1], y[2]>>
      BY <1>2, <1>3, <1>4
    <3> QED BY <3>1
  <2>2. ASSUME NEW x \in U, NEW y \in R PROVE FALSE
    <3>1. <<"page", x[1], x[2]>> = <<"root", y, 0>>
      BY <1>2, <1>3, <1>5
    <3> QED BY <3>1
  <2>3. ASSUME NEW x \in T, NEW y \in R PROVE FALSE
    <3>1. <<"table", x[1], x[2]>> = <<"root", y, 0>>
      BY <1>2, <1>4, <1>5
    <3> QED BY <3>1
  <2> QED BY <2>1, <2>2, <2>3
<1>12. Paged!Owners(f) = Cardinality(U) + Cardinality(T) + Cardinality(R)
  BY Recounted DEF Paged!Owners, U, T, R
<1>13. (\E x : Here(x)) <=> ~ (U = {} /\ T = {} /\ R = {})
  BY <1>3, <1>4, <1>5, <1>6
<1>14. /\ (U = {} /\ Cardinality(U) = 0) \/ (U # {} /\ Cardinality(U) = 1)
       /\ (T = {} /\ Cardinality(T) = 0) \/ (T # {} /\ Cardinality(T) = 1)
       /\ (R = {} /\ Cardinality(R) = 0) \/ (R # {} /\ Cardinality(R) = 1)
  BY <1>8, <1>9, <1>10, AtMostOne
<1> QED BY <1>7, <1>11, <1>12, <1>13, <1>14

LEMMA MappingIsKept == ASSUME Paging, Mapping PROVE Paged!FramesAreKept
<1>1. Pooled(used, free)
  BY NowIs DEF Mapping, Kept, Pool
<1>2. Paged!EveryFrameHasOneOwner
  BY OwnersAre DEF Paged!EveryFrameHasOneOwner
<1>3. Paged!CountIsTheBitmap
  BY <1>1, Recounted DEF Pooled, Paged!CountIsTheBitmap
<1>4. Paged!NoFrameIsLost
  <2>1. used \subseteq Paged!AllFrames
    BY <1>1 DEF Pooled
  <2> QED BY <2>1, OwnersAre DEF Paged!NoFrameIsLost
<1>5. Paged!HeapIsTiled
  <2>1. heap \in Seq(HeapBlock) /\ Taken(heap) = HeapSize /\ \A k \in 1..Len(heap) : heap[k].live = ~heap[k].free
    BY DEF Mapping, Tiled
  <2>2. \A k \in 1..Len(heap) : heap[k] \in HeapBlock
    BY <2>1
  <2>3. \A k \in 1..Len(heap) : heap[k].size >= 1
    BY <2>2 DEF HeapBlock
  <2>4. Paged!FoldLeft(LAMBDA n, b : n + b.size + 1, 0, heap) = HeapSize
    BY <2>1 DEF Taken
  <2> QED BY <2>1, <2>3, <2>4 DEF Paged!HeapIsTiled
<1> QED BY <1>2, <1>3, <1>4, <1>5 DEF Paged!FramesAreKept

(* For any frames, pages and enclosures, and whatever acts the resident    *)
(* programs make in any order: a frame that is taken and not reserved is   *)
(* in one place, a root, a table or one page of one enclosure's map; no    *)
(* mapped frame can be handed out again and none is lost, also where a     *)
(* table cannot be had half way (pmm.c, vmm.c, serve.c); the free count is *)
(* the bitmap's; the heap's blocks fill its area (heap.c).                 *)
THEOREM FramesStayKept == Paging => (Paged!Spec => []Paged!FramesAreKept)
<1> SUFFICES ASSUME Paging PROVE Paged!Spec => []Paged!FramesAreKept
  OBVIOUS
<1>1. Paged!Init => Mapping
  BY MappingInit
<1>2. Mapping /\ [Paged!Next]_(Paged!vars) => Mapping'
  BY MappingInductive
<1>3. Mapping => Paged!FramesAreKept
  BY MappingIsKept
<1> QED BY <1>1, <1>2, <1>3, PTL DEF Paged!Spec
=============================================================================
