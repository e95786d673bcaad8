-------------------------- MODULE GroupCommitProofs --------------------------
(***************************************************************************)
(* Proofs about the write path, for any set of threads, any batch width    *)
(* and any choice of faults: type correctness, one appender and one write  *)
(* lock holder, and invariant 1 of group commit - a reply implies a        *)
(* durable record - with the inductive invariant it needs; the refinement  *)
(* of the record log; decides that are serial; and acknowledged acts that  *)
(* are whole.                                                              *)
(***************************************************************************)
EXTENDS GroupCommit, TLAPS

-----------------------------------------------------------------------------
(* The inductive invariant *)

Publishing == {"writing", "mirror-a", "mirror-b", "published"}
Appending  == {"draining", "closing", "syncing", "releasing"}
Parked     == {"waiting"} \cup Appending

(* Positions name records that are on the log. *)
PositionsOK ==
  /\ durable \in 0 .. Len(events)
  /\ mark \in 0 .. Len(events)
  /\ \A t \in Threads : \A i \in 1 .. Len(pending[t]) : pending[t][i] \in 1 .. Len(events)
  /\ \A t \in Threads : pc[t] \in Publishing \ {"writing"} => cur \in 1 .. Len(events)

(* The write lock covers the publish, the appender role covers the drain. *)
LocksOK ==
  \A t \in Threads :
    /\ pc[t] \in Publishing => writer = t
    /\ pc[t] \in Appending => appender = t

(* The owner of a submission in flight is parked in await_pending, with no *)
(* reply yet and no second submission in flight.                           *)
FlightOK ==
  /\ \A i \in 1 .. Len(queue) : pc[queue[i]] \in Parked /\ reply[queue[i]] = "none"
  /\ \A i \in 1 .. Len(batch) : pc[batch[i]] \in Parked /\ reply[batch[i]] = "none"
  /\ \A i, j \in 1 .. Len(queue) : queue[i] = queue[j] => i = j
  /\ \A i \in 1 .. Len(queue), j \in 1 .. Len(batch) : queue[i] # batch[j]
  /\ \A t \in Threads : reply[t] # "none" => pc[t] \in Parked

(* Everything a thread published is at or below position n. *)
Below(t, n) == \A i \in 1 .. Len(pending[t]) : pending[t][i] <= n

(* The barrier in flight, the verdict about to be released and a released  *)
(* success all cover everything their owners published.                    *)
CoverOK ==
  /\ \A t \in Threads : pc[t] = "syncing" =>
       \A i \in 1 .. Len(batch) : Below(batch[i], mark)
  /\ \A t \in Threads : pc[t] = "releasing" /\ verdict = "ok" =>
       \A i \in 1 .. Len(batch) : Below(batch[i], durable)
  /\ \A t \in Threads : reply[t] = "ok" => Below(t, durable)

IInv == TypeOK /\ PositionsOK /\ LocksOK /\ FlightOK /\ CoverOK /\ ReplyImpliesDurable

-----------------------------------------------------------------------------
(* Facts about sequences the steps below use *)

(* Appending adds one element at the end and keeps the others. *)
LEMMA AppendFacts ==
  ASSUME NEW S, NEW s \in Seq(S), NEW x \in S
  PROVE  /\ Append(s, x) \in Seq(S)
         /\ Len(Append(s, x)) = Len(s) + 1
         /\ \A i \in 1 .. Len(s) : Append(s, x)[i] = s[i]
         /\ Append(s, x)[Len(s) + 1] = x
  OBVIOUS

(* Dropping the head shifts the rest down by one. *)
LEMMA TailFacts ==
  ASSUME NEW S, NEW s \in Seq(S), s # <<>>
  PROVE  /\ Head(s) \in S /\ Head(s) = s[1] /\ Len(s) >= 1
         /\ Tail(s) \in Seq(S)
         /\ Len(Tail(s)) = Len(s) - 1
         /\ \A i \in 1 .. Len(s) - 1 : Tail(s)[i] = s[i + 1]
  OBVIOUS

(* A prefix keeps the elements it covers. *)
LEMMA SubSeqFacts ==
  ASSUME NEW S, NEW s \in Seq(S), NEW n \in 0 .. Len(s)
  PROVE  /\ SubSeq(s, 1, n) \in Seq(S)
         /\ Len(SubSeq(s, 1, n)) = n
         /\ \A i \in 1 .. n : SubSeq(s, 1, n)[i] = s[i]
  OBVIOUS

-----------------------------------------------------------------------------
(* Initial states *)

(* A freshly opened, empty store satisfies the invariant. *)
LEMMA InitIInv == Init => IInv
<1> SUFFICES ASSUME Init PROVE IInv
  OBVIOUS
<1>1. TypeOK
  <2>1. <<>> \in Seq(Record) /\ <<>> \in Seq(Threads) /\ <<>> \in Seq(Nat) /\ Len(<<>>) = 0
    OBVIOUS
  <2>2. /\ pc \in [Threads -> Phases]
        /\ act \in [Threads -> Nat]
        /\ pending \in [Threads -> Seq(Nat)]
        /\ err \in [Threads -> BOOLEAN]
        /\ reply \in [Threads -> {"none", "ok", "failed"}]
    BY <2>1 DEF Init, Phases
  <2>3. Len(batch) <= Width
    BY <2>1, WidthAssumption DEF Init
  <2> QED
    BY <2>1, <2>2, <2>3 DEF Init, TypeOK
<1>2. \A t \in Threads : pc[t] = "idle" /\ pending[t] = <<>> /\ reply[t] = "none"
  BY DEF Init
<1>3. PositionsOK /\ LocksOK
  BY <1>2 DEF Init, PositionsOK, LocksOK, Publishing, Appending
<1>4. FlightOK /\ CoverOK
  BY <1>2 DEF Init, FlightOK, CoverOK
<1>5. ReplyImpliesDurable
  BY DEF Init, ReplyImpliesDurable
<1> QED
  BY <1>1, <1>3, <1>4, <1>5 DEF IInv

-----------------------------------------------------------------------------
(* A step of a thread that is not parked, and does not park, leaves what   *)
(* the appender relies on alone.                                           *)
LEMMA DeciderFrame ==
  ASSUME IInv, NEW t \in Threads, pc[t] \notin Parked,
         NEW phase, phase \notin Parked, pc' = [pc EXCEPT ![t] = phase],
         UNCHANGED <<durable, acked, appender, batch, mark, verdict, queue, reply>>,
         \A u \in Threads \ {t} : pending'[u] = pending[u],
         \A i \in 1 .. Len(events) : events'[i] = events[i]
  PROVE  FlightOK' /\ CoverOK' /\ ReplyImpliesDurable'
<1>1. \A u \in Threads : pc[u] \in Parked => u # t /\ pc'[u] = pc[u]
  BY DEF IInv, TypeOK
<1>2. \A u \in Threads : pc'[u] \in Parked => u # t /\ pc'[u] = pc[u]
  BY DEF IInv, TypeOK
<1>3. /\ \A i \in 1 .. Len(queue) : queue[i] \in Threads
      /\ \A i \in 1 .. Len(batch) : batch[i] \in Threads
  BY DEF IInv, TypeOK
<1>4. FlightOK'
  BY <1>1, <1>3 DEF IInv, FlightOK
<1>5. \A u \in Threads : pc[u] \in Parked => pending'[u] = pending[u]
  BY <1>1
<1>6. /\ \A i \in 1 .. Len(batch) : pending'[batch[i]] = pending[batch[i]]
      /\ \A u \in Threads : reply[u] # "none" => pending'[u] = pending[u]
  BY <1>3, <1>5 DEF IInv, FlightOK
<1>7. \A u \in Threads : pc'[u] \in {"syncing", "releasing"} => pc'[u] = pc[u]
  BY <1>2 DEF Parked, Appending
<1>8. CoverOK'
  BY <1>6, <1>7 DEF IInv, CoverOK, Below
<1>9. ReplyImpliesDurable'
  <2>1. \A i \in 1 .. durable : events'[i] = events[i]
    BY DEF IInv, PositionsOK, TypeOK
  <2>2. DurableRecords \subseteq DurableRecords'
    BY <2>1 DEF DurableRecords
  <2> QED
    BY <2>2 DEF IInv, ReplyImpliesDurable
<1> QED
  BY <1>4, <1>8, <1>9

-----------------------------------------------------------------------------
(* The steps of a deciding thread *)

(* Taking the decide region. *)
LEMMA EnterRegionStep == ASSUME IInv, NEW t \in Threads, EnterRegion(t) PROVE IInv'
<1> USE DEF EnterRegion, Goto, logVars, regionVars, writerVars, appenderVars, threadVars
<1>1. TypeOK'
  BY NoneAssumption DEF IInv, TypeOK, Phases
<1>2. LocksOK'
  BY NoneAssumption DEF IInv, TypeOK, LocksOK, Publishing, Appending
<1>3. PositionsOK'
  BY NoneAssumption DEF IInv, TypeOK, PositionsOK, LocksOK, Publishing
<1>4. FlightOK' /\ CoverOK' /\ ReplyImpliesDurable'
  <2>1. pc[t] \notin Parked
    BY DEF Parked, Appending
  <2>2. PICK phase \in Phases \ Parked : pc' = [pc EXCEPT ![t] = phase]
    BY DEF Phases, Parked, Appending
  <2> QED
    BY <2>1, <2>2, DeciderFrame
<1> QED
  BY <1>1, <1>2, <1>3, <1>4 DEF IInv

(* A direct append begins. *)
LEMMA AppendDirectlyStep == ASSUME IInv, NEW t \in Threads, AppendDirectly(t) PROVE IInv'
<1> USE DEF AppendDirectly, Goto, logVars, regionVars, writerVars, appenderVars, threadVars
<1>1. TypeOK'
  BY NoneAssumption DEF IInv, TypeOK, Phases
<1>2. LocksOK'
  BY NoneAssumption DEF IInv, TypeOK, LocksOK, Publishing, Appending
<1>3. PositionsOK'
  BY NoneAssumption DEF IInv, TypeOK, PositionsOK, LocksOK, Publishing
<1>4. FlightOK' /\ CoverOK' /\ ReplyImpliesDurable'
  <2>1. pc[t] \notin Parked
    BY DEF Parked, Appending
  <2>2. PICK phase \in Phases \ Parked : pc' = [pc EXCEPT ![t] = phase]
    BY DEF Phases, Parked, Appending
  <2> QED
    BY <2>1, <2>2, DeciderFrame
<1> QED
  BY <1>1, <1>2, <1>3, <1>4 DEF IInv

(* A publication begins. *)
LEMMA PublishStep == ASSUME IInv, NEW t \in Threads, Publish(t) PROVE IInv'
<1> USE DEF Publish, Goto, logVars, regionVars, writerVars, appenderVars, threadVars
<1>1. TypeOK'
  BY NoneAssumption DEF IInv, TypeOK, Phases
<1>2. LocksOK'
  BY NoneAssumption DEF IInv, TypeOK, LocksOK, Publishing, Appending
<1>3. PositionsOK'
  BY NoneAssumption DEF IInv, TypeOK, PositionsOK, LocksOK, Publishing
<1>4. FlightOK' /\ CoverOK' /\ ReplyImpliesDurable'
  <2>1. pc[t] \notin Parked
    BY DEF Parked, Appending
  <2>2. PICK phase \in Phases \ Parked : pc' = [pc EXCEPT ![t] = phase]
    BY DEF Phases, Parked, Appending
  <2> QED
    BY <2>1, <2>2, DeciderFrame
<1> QED
  BY <1>1, <1>2, <1>3, <1>4 DEF IInv

(* The decide ends. *)
LEMMA DecidedStep == ASSUME IInv, NEW t \in Threads, Decided(t) PROVE IInv'
<1> USE DEF Decided, Goto, logVars, regionVars, writerVars, appenderVars, threadVars
<1>1. TypeOK'
  BY NoneAssumption DEF IInv, TypeOK, Phases
<1>2. LocksOK'
  BY NoneAssumption DEF IInv, TypeOK, LocksOK, Publishing, Appending
<1>3. PositionsOK'
  BY NoneAssumption DEF IInv, TypeOK, PositionsOK, LocksOK, Publishing
<1>4. FlightOK' /\ CoverOK' /\ ReplyImpliesDurable'
  <2>1. pc[t] \notin Parked
    BY DEF Parked, Appending
  <2>2. PICK phase \in Phases \ Parked : pc' = [pc EXCEPT ![t] = phase]
    BY DEF Phases, Parked, Appending
  <2> QED
    BY <2>1, <2>2, DeciderFrame
<1> QED
  BY <1>1, <1>2, <1>3, <1>4 DEF IInv

(* The write lock is taken. *)
LEMMA AcquireWriteLockStep == ASSUME IInv, NEW t \in Threads, AcquireWriteLock(t) PROVE IInv'
<1> USE DEF AcquireWriteLock, Goto, logVars, regionVars, writerVars, appenderVars, threadVars
<1>1. TypeOK'
  BY NoneAssumption DEF IInv, TypeOK, Phases
<1>2. LocksOK'
  BY NoneAssumption DEF IInv, TypeOK, LocksOK, Publishing, Appending
<1>3. PositionsOK'
  BY NoneAssumption DEF IInv, TypeOK, PositionsOK, LocksOK, Publishing
<1>4. FlightOK' /\ CoverOK' /\ ReplyImpliesDurable'
  <2>1. pc[t] \notin Parked
    BY DEF Parked, Appending
  <2>2. PICK phase \in Phases \ Parked : pc' = [pc EXCEPT ![t] = phase]
    BY DEF Phases, Parked, Appending
  <2> QED
    BY <2>1, <2>2, DeciderFrame
<1> QED
  BY <1>1, <1>2, <1>3, <1>4 DEF IInv

(* A refused countersignature. *)
LEMMA CountersignRefusesStep == ASSUME IInv, NEW t \in Threads, CountersignRefuses(t) PROVE IInv'
<1> USE DEF CountersignRefuses, PublishRaises, Goto, logVars, regionVars, writerVars, appenderVars, threadVars
<1>1. TypeOK'
  BY NoneAssumption DEF IInv, TypeOK, Phases
<1>2. LocksOK'
  BY NoneAssumption DEF IInv, TypeOK, LocksOK, Publishing, Appending
<1>3. PositionsOK'
  BY NoneAssumption DEF IInv, TypeOK, PositionsOK, LocksOK, Publishing
<1>4. FlightOK' /\ CoverOK' /\ ReplyImpliesDurable'
  <2>1. pc[t] \notin Parked
    BY DEF Parked, Appending
  <2>2. PICK phase \in Phases \ Parked : pc' = [pc EXCEPT ![t] = phase]
    BY DEF Phases, Parked, Appending
  <2> QED
    BY <2>1, <2>2, DeciderFrame
<1> QED
  BY <1>1, <1>2, <1>3, <1>4 DEF IInv

(* A failed write poisons the store. *)
LEMMA WriteFailsStep == ASSUME IInv, NEW t \in Threads, WriteFails(t) PROVE IInv'
<1> USE DEF WriteFails, PublishRaises, Goto, logVars, regionVars, writerVars, appenderVars, threadVars
<1>1. TypeOK'
  BY NoneAssumption DEF IInv, TypeOK, Phases
<1>2. LocksOK'
  BY NoneAssumption DEF IInv, TypeOK, LocksOK, Publishing, Appending
<1>3. PositionsOK'
  BY NoneAssumption DEF IInv, TypeOK, PositionsOK, LocksOK, Publishing
<1>4. FlightOK' /\ CoverOK' /\ ReplyImpliesDurable'
  <2>1. pc[t] \notin Parked
    BY DEF Parked, Appending
  <2>2. PICK phase \in Phases \ Parked : pc' = [pc EXCEPT ![t] = phase]
    BY DEF Phases, Parked, Appending
  <2> QED
    BY <2>1, <2>2, DeciderFrame
<1> QED
  BY <1>1, <1>2, <1>3, <1>4 DEF IInv

(* A listener raises. *)
LEMMA ListenerRaisesStep == ASSUME IInv, NEW t \in Threads, ListenerRaises(t) PROVE IInv'
<1> USE DEF ListenerRaises, PublishRaises, Goto, logVars, regionVars, writerVars, appenderVars, threadVars
<1>1. TypeOK'
  BY NoneAssumption DEF IInv, TypeOK, Phases
<1>2. LocksOK'
  BY NoneAssumption DEF IInv, TypeOK, LocksOK, Publishing, Appending
<1>3. PositionsOK'
  BY NoneAssumption DEF IInv, TypeOK, PositionsOK, LocksOK, Publishing
<1>4. FlightOK' /\ CoverOK' /\ ReplyImpliesDurable'
  <2>1. pc[t] \notin Parked
    BY DEF Parked, Appending
  <2>2. PICK phase \in Phases \ Parked : pc' = [pc EXCEPT ![t] = phase]
    BY DEF Phases, Parked, Appending
  <2> QED
    BY <2>1, <2>2, DeciderFrame
<1> QED
  BY <1>1, <1>2, <1>3, <1>4 DEF IInv

(* The region is released. *)
LEMMA ExitRegionStep == ASSUME IInv, NEW t \in Threads, ExitRegion(t) PROVE IInv'
<1> USE DEF ExitRegion, Goto, logVars, regionVars, writerVars, appenderVars, threadVars
<1>1. TypeOK'
  BY NoneAssumption DEF IInv, TypeOK, Phases
<1>2. LocksOK'
  BY NoneAssumption DEF IInv, TypeOK, LocksOK, Publishing, Appending
<1>3. PositionsOK'
  BY NoneAssumption DEF IInv, TypeOK, PositionsOK, LocksOK, Publishing
<1>4. FlightOK' /\ CoverOK' /\ ReplyImpliesDurable'
  <2>1. pc[t] \notin Parked
    BY DEF Parked, Appending
  <2>2. PICK phase \in Phases \ Parked : pc' = [pc EXCEPT ![t] = phase]
    BY DEF Phases, Parked, Appending
  <2> QED
    BY <2>1, <2>2, DeciderFrame
<1> QED
  BY <1>1, <1>2, <1>3, <1>4 DEF IInv

(* What an appended record leaves true of the log. *)
LEMMA ExtendFacts ==
  ASSUME IInv, NEW t \in Threads, NEW part \in Parts, NEW audited \in BOOLEAN,
         Extend(t, part, audited)
  PROVE  /\ events' \in Seq(Record)
         /\ Len(events') = Len(events) + 1
         /\ \A i \in 1 .. Len(events) : events'[i] = events[i]
<1> DEFINE r == [by |-> t, act |-> act[t], part |-> part, gated |-> t \notin Direct,
                 pub |-> IF t \in Direct THEN 1 ELSE pubs,
                 saw |-> IF t \in Direct THEN 0 ELSE saw,
                 late |-> broken, audited |-> audited]
<1>1. r \in Record
  BY DEF IInv, TypeOK, Record
<1>2. events \in Seq(Record) /\ events' = Append(events, r)
  BY DEF IInv, TypeOK, Extend
<1> HIDE DEF r
<1> QED
  BY <1>1, <1>2, AppendFacts

(* The record is written and becomes visible. *)
LEMMA WriteStep == ASSUME IInv, NEW t \in Threads, Write(t) PROVE IInv'
<1>1. PICK audited \in BOOLEAN :
        /\ Extend(t, "main", audited)
        /\ pc' = [pc EXCEPT ![t] = IF audited THEN "mirror-a" ELSE "published"]
  BY AuditedAssumption DEF Write, Goto
<1>2. /\ events' \in Seq(Record)
      /\ Len(events') = Len(events) + 1
      /\ \A i \in 1 .. Len(events) : events'[i] = events[i]
  BY <1>1, ExtendFacts DEF Parts
<1>3. PICK phase \in {"mirror-a", "published"} : pc' = [pc EXCEPT ![t] = phase]
  BY <1>1
<1>4. /\ pc[t] = "writing" /\ cur' = Len(events) + 1
      /\ UNCHANGED <<durable, acked, crashes, broken, regionVars, writer, appenderVars, queue,
                     act, threadVars>>
  BY DEF Write
<1> USE DEF regionVars, appenderVars, threadVars
<1>5. Len(events) \in Nat
  BY DEF IInv, TypeOK
<1>6. TypeOK'
  BY <1>2, <1>3, <1>4, <1>5 DEF IInv, TypeOK, Phases
<1>7. LocksOK'
  BY <1>3, <1>4 DEF IInv, TypeOK, LocksOK, Publishing, Appending
<1>8. PositionsOK'
  <2>1. durable' \in 0 .. Len(events') /\ mark' \in 0 .. Len(events')
    BY <1>2, <1>4, <1>5 DEF IInv, PositionsOK
  <2>2. \A u \in Threads : \A i \in 1 .. Len(pending'[u]) : pending'[u][i] \in 1 .. Len(events')
    BY <1>2, <1>4, <1>5 DEF IInv, PositionsOK
  <2> QED
    BY <1>2, <1>4, <1>5, <2>1, <2>2 DEF PositionsOK
<1>9. FlightOK' /\ CoverOK' /\ ReplyImpliesDurable'
  BY <1>2, <1>3, <1>4, DeciderFrame DEF Parked, Appending
<1> QED
  BY <1>6, <1>7, <1>8, <1>9 DEF IInv

(* A mirror is appended from inside the publish of its referent. *)
LEMMA MirrorStep ==
  ASSUME IInv, NEW t \in Threads,
         NEW part \in {"mirror-a", "mirror-b"}, NEW next \in {"mirror-b", "published"},
         Mirror(t, part, next)
  PROVE  IInv'
<1>1. /\ events' \in Seq(Record)
      /\ Len(events') = Len(events) + 1
      /\ \A i \in 1 .. Len(events) : events'[i] = events[i]
  BY ExtendFacts DEF Mirror, Parts
<1>2. /\ pc[t] = part
      /\ pc' = [pc EXCEPT ![t] = next]
      /\ pending' = [pending EXCEPT ![t] = Append(@, Len(events) + 1)]
      /\ UNCHANGED <<durable, acked, crashes, broken, regionVars, writerVars, appenderVars,
                     queue, act, err, reply>>
  BY DEF Mirror, Goto
<1> USE DEF regionVars, writerVars, appenderVars
<1>3. /\ Len(events) \in Nat /\ pending[t] \in Seq(Nat) /\ Len(events) + 1 \in Nat
      /\ Len(pending[t]) \in Nat
  BY DEF IInv, TypeOK
<1>4. /\ pending'[t] \in Seq(Nat)
      /\ Len(pending'[t]) = Len(pending[t]) + 1
      /\ \A i \in 1 .. Len(pending[t]) : pending'[t][i] = pending[t][i]
      /\ pending'[t][Len(pending[t]) + 1] = Len(events) + 1
      /\ \A u \in Threads \ {t} : pending'[u] = pending[u]
  BY <1>2, <1>3, AppendFacts DEF IInv, TypeOK
<1>5. TypeOK'
  <2>1. pending' \in [Threads -> Seq(Nat)]
    BY <1>2, <1>4 DEF IInv, TypeOK
  <2> QED
    BY <1>1, <1>2, <2>1 DEF IInv, TypeOK, Phases
<1>6. LocksOK'
  BY <1>2 DEF IInv, TypeOK, LocksOK, Publishing, Appending
<1>7. PositionsOK'
  <2>1. durable' \in 0 .. Len(events') /\ mark' \in 0 .. Len(events')
    BY <1>1, <1>2, <1>3 DEF IInv, PositionsOK
  <2>2. \A u \in Threads : \A i \in 1 .. Len(pending[u]) : pending[u][i] \in 1 .. Len(events')
    <3>1. \A u \in Threads : \A i \in 1 .. Len(pending[u]) : pending[u][i] \in 1 .. Len(events)
      BY DEF IInv, PositionsOK
    <3>2. 1 .. Len(events) \subseteq 1 .. Len(events')
      BY <1>1, <1>3
    <3> QED
      BY <3>1, <3>2
  <2>3. \A u \in Threads \ {t} : \A i \in 1 .. Len(pending'[u]) :
          pending'[u][i] \in 1 .. Len(events')
    BY <1>4, <2>2
  <2>4. \A i \in 1 .. Len(pending'[t]) : pending'[t][i] \in 1 .. Len(events')
    <3> SUFFICES ASSUME NEW i \in 1 .. Len(pending'[t])
                 PROVE  pending'[t][i] \in 1 .. Len(events')
      OBVIOUS
    <3>1. i \in 1 .. Len(pending[t]) \/ i = Len(pending[t]) + 1
      BY <1>3, <1>4
    <3>2. Len(events) + 1 \in 1 .. Len(events')
      BY <1>1, <1>3
    <3> QED
      BY <1>4, <2>2, <3>1, <3>2
  <2>5. cur' \in 1 .. Len(events')
    BY <1>1, <1>2, <1>3 DEF IInv, PositionsOK, Publishing
  <2> QED
    BY <2>1, <2>3, <2>4, <2>5 DEF PositionsOK
<1>8. FlightOK' /\ CoverOK' /\ ReplyImpliesDurable'
  BY <1>1, <1>2, <1>4, DeciderFrame DEF Parked, Appending
<1> QED
  BY <1>5, <1>6, <1>7, <1>8 DEF IInv

(* publish() files the submission under its thread. *)
LEMMA PublishedStep == ASSUME IInv, NEW t \in Threads, Published(t) PROVE IInv'
<1>1. /\ pc[t] = "published" /\ writer' = None /\ cur' = 0
      /\ pending' = [pending EXCEPT ![t] = Append(@, cur)]
      /\ UNCHANGED <<logVars, broken, regionVars, appenderVars, queue, act, err, reply>>
  BY DEF Published
<1>2. PICK phase \in {"awaiting", "deciding"} : pc' = [pc EXCEPT ![t] = phase]
  BY DEF Published, Goto
<1> USE DEF logVars, regionVars, appenderVars
<1>3. /\ pending[t] \in Seq(Nat) /\ cur \in Nat /\ Len(pending[t]) \in Nat
      /\ Len(events) \in Nat
  BY DEF IInv, TypeOK
<1>4. /\ pending'[t] \in Seq(Nat)
      /\ Len(pending'[t]) = Len(pending[t]) + 1
      /\ \A i \in 1 .. Len(pending[t]) : pending'[t][i] = pending[t][i]
      /\ pending'[t][Len(pending[t]) + 1] = cur
      /\ \A u \in Threads \ {t} : pending'[u] = pending[u]
  BY <1>1, <1>3, AppendFacts DEF IInv, TypeOK
<1>5. TypeOK'
  <2>1. pending' \in [Threads -> Seq(Nat)]
    BY <1>1, <1>4 DEF IInv, TypeOK
  <2> QED
    BY <1>1, <1>2, <2>1 DEF IInv, TypeOK, Phases
<1>6. LocksOK'
  BY <1>1, <1>2, NoneAssumption DEF IInv, TypeOK, LocksOK, Publishing, Appending
<1>7. PositionsOK'
  <2>1. cur \in 1 .. Len(events)
    BY <1>1 DEF IInv, PositionsOK, Publishing
  <2>2. \A u \in Threads \ {t} : \A i \in 1 .. Len(pending'[u]) :
          pending'[u][i] \in 1 .. Len(events')
    BY <1>1, <1>4 DEF IInv, PositionsOK
  <2>3. \A i \in 1 .. Len(pending'[t]) : pending'[t][i] \in 1 .. Len(events')
    BY <1>1, <1>3, <1>4, <2>1 DEF IInv, PositionsOK
  <2>4. \A u \in Threads : pc'[u] \notin Publishing
    BY <1>1, <1>2, NoneAssumption DEF IInv, TypeOK, LocksOK, Publishing
  <2> QED
    BY <1>1, <2>2, <2>3, <2>4 DEF IInv, PositionsOK
<1>8. FlightOK' /\ CoverOK' /\ ReplyImpliesDurable'
  BY <1>1, <1>2, <1>4, DeciderFrame DEF Parked, Appending
<1> QED
  BY <1>5, <1>6, <1>7, <1>8 DEF IInv

-----------------------------------------------------------------------------
(* The steps of a waiting or appending thread *)

(* A move between parked phases that leaves queue, batch and replies alone. *)
LEMMA ParkedFrame ==
  ASSUME IInv, NEW t \in Threads, NEW phase \in Parked, pc' = [pc EXCEPT ![t] = phase],
         UNCHANGED <<queue, batch, reply>>
  PROVE  FlightOK'
<1>1. \A u \in Threads : pc[u] \in Parked => pc'[u] \in Parked
  BY DEF IInv, TypeOK
<1>2. /\ \A i \in 1 .. Len(queue) : queue[i] \in Threads
      /\ \A i \in 1 .. Len(batch) : batch[i] \in Threads
  BY DEF IInv, TypeOK
<1> QED
  BY <1>1, <1>2 DEF IInv, FlightOK

(* A waiter becomes the appender. *)
LEMMA TakeRoleStep == ASSUME IInv, NEW t \in Threads, TakeRole(t) PROVE IInv'
<1> USE DEF TakeRole, Goto, logVars, regionVars, writerVars, appenderVars, threadVars
<1>1. TypeOK'
  BY NoneAssumption DEF IInv, TypeOK, Phases
<1>2. LocksOK'
  BY NoneAssumption DEF IInv, TypeOK, LocksOK, Publishing, Appending
<1>3. PositionsOK'
  BY DEF IInv, TypeOK, PositionsOK, Publishing
<1>4. FlightOK'
  <2>1. PICK phase \in Parked : pc' = [pc EXCEPT ![t] = phase]
    BY DEF Parked, Appending
  <2> QED
    BY <2>1, ParkedFrame
<1>5. CoverOK'
  BY DEF IInv, TypeOK, LocksOK, CoverOK, Below, Appending
<1>6. ReplyImpliesDurable'
  BY DEF IInv, ReplyImpliesDurable, DurableRecords
<1> QED
  BY <1>1, <1>2, <1>3, <1>4, <1>5, <1>6 DEF IInv

(* The batch closes. *)
LEMMA CloseBatchStep == ASSUME IInv, NEW t \in Threads, CloseBatch(t) PROVE IInv'
<1> USE DEF CloseBatch, Goto, logVars, regionVars, writerVars, appenderVars, threadVars
<1>1. TypeOK'
  BY NoneAssumption DEF IInv, TypeOK, Phases
<1>2. LocksOK'
  BY NoneAssumption DEF IInv, TypeOK, LocksOK, Publishing, Appending
<1>3. PositionsOK'
  BY DEF IInv, TypeOK, PositionsOK, Publishing
<1>4. FlightOK'
  <2>1. PICK phase \in Parked : pc' = [pc EXCEPT ![t] = phase]
    BY DEF Parked, Appending
  <2> QED
    BY <2>1, ParkedFrame
<1>5. CoverOK'
  BY DEF IInv, TypeOK, LocksOK, CoverOK, Below, Appending
<1>6. ReplyImpliesDurable'
  BY DEF IInv, ReplyImpliesDurable, DurableRecords
<1> QED
  BY <1>1, <1>2, <1>3, <1>4, <1>5, <1>6 DEF IInv

(* The queue is empty and the role is released. *)
LEMMA LeaveRoleStep == ASSUME IInv, NEW t \in Threads, LeaveRole(t) PROVE IInv'
<1> USE DEF LeaveRole, Goto, logVars, regionVars, writerVars, appenderVars, threadVars
<1>1. TypeOK'
  BY NoneAssumption DEF IInv, TypeOK, Phases
<1>2. LocksOK'
  BY NoneAssumption DEF IInv, TypeOK, LocksOK, Publishing, Appending
<1>3. PositionsOK'
  BY DEF IInv, TypeOK, PositionsOK, Publishing
<1>4. FlightOK'
  <2>1. PICK phase \in Parked : pc' = [pc EXCEPT ![t] = phase]
    BY DEF Parked, Appending
  <2> QED
    BY <2>1, ParkedFrame
<1>5. CoverOK'
  BY DEF IInv, TypeOK, LocksOK, CoverOK, Below, Appending
<1>6. ReplyImpliesDurable'
  BY DEF IInv, ReplyImpliesDurable, DurableRecords
<1> QED
  BY <1>1, <1>2, <1>3, <1>4, <1>5, <1>6 DEF IInv

(* The barrier fails and poisons the store. *)
LEMMA BarrierFailsStep == ASSUME IInv, NEW t \in Threads, BarrierFails(t) PROVE IInv'
<1> USE DEF BarrierFails, Goto, logVars, regionVars, writerVars, appenderVars, threadVars
<1>1. TypeOK'
  BY NoneAssumption DEF IInv, TypeOK, Phases
<1>2. LocksOK'
  BY NoneAssumption DEF IInv, TypeOK, LocksOK, Publishing, Appending
<1>3. PositionsOK'
  BY DEF IInv, TypeOK, PositionsOK, Publishing
<1>4. FlightOK'
  <2>1. PICK phase \in Parked : pc' = [pc EXCEPT ![t] = phase]
    BY DEF Parked, Appending
  <2> QED
    BY <2>1, ParkedFrame
<1>5. CoverOK'
  BY DEF IInv, TypeOK, LocksOK, CoverOK, Below, Appending
<1>6. ReplyImpliesDurable'
  BY DEF IInv, ReplyImpliesDurable, DurableRecords
<1> QED
  BY <1>1, <1>2, <1>3, <1>4, <1>5, <1>6 DEF IInv

(* The barrier begins, or is refused on a poisoned store. *)
LEMMA StartBarrierStep == ASSUME IInv, NEW t \in Threads, StartBarrier(t) PROVE IInv'
<1>1. /\ pc[t] = "closing"
      /\ UNCHANGED <<logVars, broken, regionVars, writerVars, appender, batch, queue, act,
                     threadVars>>
  BY DEF StartBarrier
<1>2. \/ pc' = [pc EXCEPT ![t] = "releasing"] /\ verdict' = "failed" /\ mark' = mark
      \/ pc' = [pc EXCEPT ![t] = "syncing"] /\ mark' = Len(events) /\ verdict' = verdict
  BY DEF StartBarrier, Goto
<1> USE DEF logVars, regionVars, writerVars, threadVars
<1>3. Len(events) \in Nat
  BY DEF IInv, TypeOK
<1>4. TypeOK'
  BY <1>1, <1>2, <1>3 DEF IInv, TypeOK, Phases
<1>5. LocksOK'
  BY <1>1, <1>2 DEF IInv, TypeOK, LocksOK, Publishing, Appending
<1>6. PositionsOK'
  <2>1. mark' \in 0 .. Len(events')
    BY <1>1, <1>2, <1>3 DEF IInv, PositionsOK
  <2>2. \A u \in Threads : pc'[u] \in Publishing => pc[u] = pc'[u]
    BY <1>1, <1>2 DEF IInv, TypeOK, Publishing
  <2> QED
    BY <1>1, <2>1, <2>2 DEF IInv, PositionsOK
<1>7. FlightOK'
  <2>1. PICK phase \in Parked : pc' = [pc EXCEPT ![t] = phase]
    BY <1>2 DEF Parked, Appending
  <2> QED
    BY <1>1, <2>1, ParkedFrame
<1>8. CoverOK'
  <2>1. \A u \in Threads : u # t => pc[u] \notin Appending /\ pc'[u] = pc[u]
    BY <1>1, <1>2 DEF IInv, TypeOK, LocksOK, Appending
  <2>2. \A u \in Threads : pc'[u] \in {"syncing", "releasing"} => u = t
    BY <2>1 DEF Appending
  <2>3. \A u \in Threads : Below(u, Len(events))
    BY DEF IInv, PositionsOK, TypeOK, Below
  <2>4. \A i \in 1 .. Len(batch) : batch[i] \in Threads
    BY DEF IInv, TypeOK
  <2>5. \A u \in Threads : pc'[u] = "syncing" =>
          \A i \in 1 .. Len(batch') : Below(batch[i], mark')
    BY <1>1, <1>2, <2>2, <2>3, <2>4 DEF IInv, TypeOK
  <2>6. \A u \in Threads : ~(pc'[u] = "releasing" /\ verdict' = "ok")
    BY <1>1, <1>2, <2>2 DEF IInv, TypeOK
  <2>7. \A u \in Threads : reply[u] = "ok" => Below(u, durable)
    BY DEF IInv, CoverOK
  <2> QED
    BY <1>1, <2>5, <2>6, <2>7 DEF CoverOK, Below
<1>9. ReplyImpliesDurable'
  BY <1>1 DEF IInv, ReplyImpliesDurable, DurableRecords
<1> QED
  BY <1>4, <1>5, <1>6, <1>7, <1>8, <1>9 DEF IInv

(* A longer durable prefix keeps what was durable. *)
LEMMA DurableGrows ==
  ASSUME IInv, durable' \in Nat, durable' >= durable, UNCHANGED <<events, acked>>
  PROVE  ReplyImpliesDurable'
<1>1. 1 .. durable \subseteq 1 .. durable'
  BY DEF IInv, TypeOK
<1>2. DurableRecords \subseteq DurableRecords'
  BY <1>1 DEF DurableRecords
<1> QED
  BY <1>2 DEF IInv, ReplyImpliesDurable

(* What is below a position is below every later one. *)
LEMMA BelowMonotone ==
  ASSUME IInv, NEW u \in Threads, NEW n \in Nat, NEW n1 \in Nat, n <= n1, Below(u, n)
  PROVE  Below(u, n1)
<1>1. \A i \in 1 .. Len(pending[u]) : pending[u][i] \in Nat /\ pending[u][i] <= n
  BY SMTT(30) DEF Below, IInv, TypeOK
<1>2. \A x \in Nat : x <= n => x <= n1
  OBVIOUS
<1> QED
  BY <1>1, <1>2 DEF Below

(* The barrier returns: everything written before it began is durable. *)
LEMMA BarrierReturnsStep == ASSUME IInv, NEW t \in Threads, BarrierReturns(t) PROVE IInv'
<1>1. /\ pc[t] = "syncing" /\ pc' = [pc EXCEPT ![t] = "releasing"]
      /\ durable' = (IF mark > durable THEN mark ELSE durable)
      /\ verdict' = "ok"
      /\ UNCHANGED <<events, acked, crashes, broken, regionVars, writerVars, appender, batch,
                     mark, queue, act, threadVars>>
  BY DEF BarrierReturns, Goto
<1> USE DEF regionVars, writerVars, threadVars
<1>2. /\ durable \in Nat /\ mark \in Nat
      /\ durable' \in Nat /\ durable' >= durable /\ durable' >= mark
  BY <1>1 DEF IInv, TypeOK
<1>3. TypeOK'
  BY <1>1, <1>2 DEF IInv, TypeOK, Phases
<1>4. LocksOK'
  BY <1>1 DEF IInv, TypeOK, LocksOK, Publishing, Appending
<1>5. PositionsOK'
  BY <1>1 DEF IInv, TypeOK, PositionsOK, Publishing
<1>6. FlightOK'
  BY <1>1, ParkedFrame DEF Parked, Appending
<1>7. CoverOK'
  <2>1. \A u \in Threads : u # t => pc[u] \notin Appending /\ pc'[u] = pc[u]
    BY <1>1 DEF IInv, TypeOK, LocksOK, Appending
  <2>2. \A u \in Threads : pc'[u] # "syncing"
    BY <1>1, <2>1 DEF IInv, TypeOK, Appending
  <2>4. \A i \in 1 .. Len(batch) : batch[i] \in Threads /\ Below(batch[i], mark)
    BY <1>1 DEF IInv, TypeOK, CoverOK
  <2>5. \A i \in 1 .. Len(batch) : Below(batch[i], durable')
    BY <1>2, <2>4, BelowMonotone
  <2>6. \A u \in Threads : reply[u] = "ok" => Below(u, durable')
    BY <1>2, BelowMonotone DEF IInv, CoverOK
  <2> QED
    BY <1>1, <2>2, <2>5, <2>6 DEF CoverOK, Below
<1>8. ReplyImpliesDurable'
  BY <1>1, <1>2, DurableGrows
<1> QED
  BY <1>3, <1>4, <1>5, <1>6, <1>7, <1>8 DEF IInv

(* A thread with nothing in flight joins the queue. *)
LEMMA EnqueueStep == ASSUME IInv, NEW t \in Threads, Enqueue(t) PROVE IInv'
<1>1. /\ pc[t] = "awaiting" /\ pc' = [pc EXCEPT ![t] = "waiting"]
      /\ queue' = Append(queue, t)
      /\ UNCHANGED <<logVars, broken, regionVars, writerVars, appenderVars, act, threadVars>>
  BY DEF Enqueue, Goto
<1> USE DEF logVars, regionVars, writerVars, appenderVars, threadVars
<1>2. /\ queue' \in Seq(Threads)
      /\ Len(queue) \in Nat /\ Len(queue') = Len(queue) + 1
      /\ \A i \in 1 .. Len(queue) : queue'[i] = queue[i]
      /\ queue'[Len(queue) + 1] = t
  BY <1>1, AppendFacts DEF IInv, TypeOK
<1>3. TypeOK'
  BY <1>1, <1>2 DEF IInv, TypeOK, Phases
<1>4. LocksOK'
  BY <1>1 DEF IInv, TypeOK, LocksOK, Publishing, Appending
<1>5. PositionsOK'
  BY <1>1 DEF IInv, TypeOK, PositionsOK, Publishing
<1>6. FlightOK'
  <2>1. /\ \A i \in 1 .. Len(queue) : queue[i] \in Threads /\ queue[i] # t
        /\ \A i \in 1 .. Len(batch) : batch[i] \in Threads /\ batch[i] # t
    <3>1. /\ \A i \in 1 .. Len(queue) : queue[i] \in Threads
          /\ \A i \in 1 .. Len(batch) : batch[i] \in Threads
      BY DEF IInv, TypeOK
    <3>2. pc[t] \notin Parked
      BY <1>1 DEF Parked, Appending
    <3> QED
      BY <3>1, <3>2 DEF IInv, FlightOK
  <2>2. \A u \in Threads : u # t => pc'[u] = pc[u]
    BY <1>1 DEF IInv, TypeOK
  <2>3. pc'[t] \in Parked /\ reply'[t] = "none"
    BY <1>1 DEF IInv, TypeOK, FlightOK, Parked, Appending
  <2>4. \A i \in 1 .. Len(queue') : i \in 1 .. Len(queue) \/ i = Len(queue) + 1
    BY <1>2
  <2>5. \A i \in 1 .. Len(queue') : pc'[queue'[i]] \in Parked /\ reply'[queue'[i]] = "none"
    BY <1>1, <1>2, <2>1, <2>2, <2>3, <2>4 DEF IInv, FlightOK
  <2>6. \A i \in 1 .. Len(batch') : pc'[batch'[i]] \in Parked /\ reply'[batch'[i]] = "none"
    BY <1>1, <2>1, <2>2 DEF IInv, FlightOK
  <2>7. \A i, j \in 1 .. Len(queue') : queue'[i] = queue'[j] => i = j
    BY <1>2, <2>1, <2>4 DEF IInv, FlightOK
  <2>8. \A i \in 1 .. Len(queue'), j \in 1 .. Len(batch') : queue'[i] # batch'[j]
    BY <1>1, <1>2, <2>1, <2>4 DEF IInv, FlightOK
  <2>9. \A u \in Threads : reply'[u] # "none" => pc'[u] \in Parked
    BY <1>1, <2>2, <2>3 DEF IInv, FlightOK
  <2> QED
    BY <2>5, <2>6, <2>7, <2>8, <2>9 DEF FlightOK
<1>7. CoverOK'
  BY <1>1 DEF IInv, TypeOK, CoverOK, Below
<1>8. ReplyImpliesDurable'
  BY <1>1 DEF IInv, ReplyImpliesDurable, DurableRecords
<1> QED
  BY <1>3, <1>4, <1>5, <1>6, <1>7, <1>8 DEF IInv

(* A submission moves from the head of the queue to the batch. *)
LEMMA TakeOneStep == ASSUME IInv, NEW t \in Threads, TakeOne(t) PROVE IInv'
<1>1. /\ pc[t] = "draining" /\ queue # <<>> /\ Len(batch) < Width
      /\ batch' = Append(batch, Head(queue))
      /\ queue' = Tail(queue)
      /\ UNCHANGED <<logVars, broken, regionVars, writerVars, appender, mark, verdict, pc, act,
                     threadVars>>
  BY DEF TakeOne
<1> USE DEF logVars, regionVars, writerVars, threadVars
<1>2. /\ Head(queue) \in Threads /\ Head(queue) = queue[1] /\ Len(queue) >= 1
      /\ queue' \in Seq(Threads) /\ Len(queue') = Len(queue) - 1
      /\ \A i \in 1 .. Len(queue) - 1 : queue'[i] = queue[i + 1]
      /\ Len(queue) \in Nat /\ Len(batch) \in Nat
  BY <1>1, TailFacts DEF IInv, TypeOK
<1>3. /\ batch' \in Seq(Threads) /\ Len(batch') = Len(batch) + 1
      /\ \A i \in 1 .. Len(batch) : batch'[i] = batch[i]
      /\ batch'[Len(batch) + 1] = queue[1]
  BY <1>1, <1>2, AppendFacts DEF IInv, TypeOK
<1>4. TypeOK'
  <2>1. Len(batch') <= Width
    BY <1>1, <1>2, <1>3, WidthAssumption
  <2> QED
    BY <1>1, <1>2, <1>3, <2>1 DEF IInv, TypeOK
<1>5. LocksOK'
  BY <1>1 DEF IInv, LocksOK
<1>6. PositionsOK'
  BY <1>1 DEF IInv, PositionsOK
<1>7. FlightOK'
  <2>1. \A i \in 1 .. Len(batch') : i \in 1 .. Len(batch) \/ i = Len(batch) + 1
    BY <1>2, <1>3
  <2>2. 1 \in 1 .. Len(queue)
    BY <1>2
  <2>3. \A i \in 1 .. Len(queue') : i \in 1 .. Len(queue) - 1 /\ i + 1 \in 1 .. Len(queue) /\ i + 1 # 1
    BY <1>2
  <2>4. \A i \in 1 .. Len(queue') : pc[queue'[i]] \in Parked /\ reply[queue'[i]] = "none"
    <3>1. \A i \in 1 .. Len(queue) : pc[queue[i]] \in Parked /\ reply[queue[i]] = "none"
      BY DEF IInv, FlightOK
    <3>2. \A i \in 1 .. Len(queue') : queue'[i] = queue[i + 1]
      BY <1>2, <2>3
    <3> QED
      BY <2>3, <3>1, <3>2
  <2>5. \A i \in 1 .. Len(batch') : pc[batch'[i]] \in Parked /\ reply[batch'[i]] = "none"
    BY <1>3, <2>1, <2>2 DEF IInv, FlightOK
  <2>6. \A i, j \in 1 .. Len(queue') : queue'[i] = queue'[j] => i = j
    <3> SUFFICES ASSUME NEW i \in 1 .. Len(queue'), NEW j \in 1 .. Len(queue'), queue'[i] = queue'[j]
                 PROVE  i = j
      OBVIOUS
    <3>1. queue[i + 1] = queue[j + 1]
      BY <1>2, <2>3
    <3>2. i + 1 = j + 1
      BY <2>3, <3>1 DEF IInv, FlightOK
    <3> QED
      BY <3>2
  <2>7. \A i \in 1 .. Len(queue') : queue'[i] # queue[1]
    BY <1>2, <2>2, <2>3 DEF IInv, FlightOK
  <2>8. \A i \in 1 .. Len(queue'), j \in 1 .. Len(batch) : queue'[i] # batch[j]
    BY <1>2, <2>3 DEF IInv, FlightOK
  <2>9. \A i \in 1 .. Len(queue'), j \in 1 .. Len(batch') : queue'[i] # batch'[j]
    BY <1>3, <2>1, <2>7, <2>8
  <2> QED
    BY <1>1, <2>4, <2>5, <2>6, <2>9 DEF IInv, FlightOK
<1>8. CoverOK'
  <2>1. \A u \in Threads : pc[u] \notin {"syncing", "releasing"}
    BY <1>1 DEF IInv, TypeOK, LocksOK, Appending
  <2> QED
    BY <1>1, <2>1 DEF IInv, CoverOK, Below
<1>9. ReplyImpliesDurable'
  BY <1>1 DEF IInv, ReplyImpliesDurable, DurableRecords
<1> QED
  BY <1>4, <1>5, <1>6, <1>7, <1>8, <1>9 DEF IInv

(* _commit releases the verdict to every member of the batch. *)
LEMMA ReleaseStep == ASSUME IInv, NEW t \in Threads, Release(t) PROVE IInv'
<1>1. /\ pc[t] = "releasing" /\ pc' = [pc EXCEPT ![t] = "draining"]
      /\ reply' = [u \in Threads |-> IF u \in Elements(batch) THEN verdict ELSE reply[u]]
      /\ batch' = <<>> /\ mark' = 0 /\ verdict' = "none"
      /\ UNCHANGED <<logVars, broken, regionVars, writerVars, appender, queue, act, pending, err>>
  BY DEF Release, Goto
<1> USE DEF logVars, regionVars, writerVars
<1>2. batch' \in Seq(Threads) /\ Len(batch') = 0
  BY <1>1
<1>3. TypeOK'
  <2>1. reply' \in [Threads -> {"none", "ok", "failed"}]
    BY <1>1 DEF IInv, TypeOK
  <2> QED
    BY <1>1, <1>2, <2>1, WidthAssumption DEF IInv, TypeOK, Phases
<1>4. LocksOK'
  BY <1>1 DEF IInv, TypeOK, LocksOK, Publishing, Appending
<1>5. PositionsOK'
  BY <1>1 DEF IInv, TypeOK, PositionsOK, Publishing
<1>6. FlightOK'
  <2>1. \A u \in Threads : pc[u] \in Parked => pc'[u] \in Parked
    BY <1>1 DEF IInv, TypeOK, Parked, Appending
  <2>2. \A i \in 1 .. Len(queue) : queue[i] \in Threads /\ queue[i] \notin Elements(batch)
    <3>1. \A i \in 1 .. Len(queue) : queue[i] \in Threads
      BY DEF IInv, TypeOK
    <3>2. \A i \in 1 .. Len(queue) : queue[i] \notin Elements(batch)
      BY DEF IInv, FlightOK, Elements
    <3> QED
      BY <3>1, <3>2
  <2>3. \A i \in 1 .. Len(queue) : pc'[queue[i]] \in Parked /\ reply'[queue[i]] = "none"
    BY <1>1, <2>1, <2>2 DEF IInv, FlightOK
  <2>4. \A u \in Threads : reply'[u] # "none" => pc'[u] \in Parked
    BY <1>1, <2>1 DEF IInv, FlightOK, Elements
  <2> QED
    BY <1>1, <1>2, <2>3, <2>4 DEF IInv, FlightOK
<1>7. CoverOK'
  <2>1. \A u \in Threads : pc'[u] \notin {"syncing", "releasing"}
    BY <1>1 DEF IInv, TypeOK, LocksOK, Appending
  <2>2. verdict = "ok" => \A u \in Elements(batch) : Below(u, durable)
    BY <1>1 DEF IInv, CoverOK, Elements
  <2>3. \A u \in Threads : reply'[u] = "ok" => Below(u, durable)
    BY <1>1, <2>2 DEF IInv, CoverOK
  <2> QED
    BY <1>1, <2>1, <2>3 DEF CoverOK, Below
<1>8. ReplyImpliesDurable'
  BY <1>1 DEF IInv, ReplyImpliesDurable, DurableRecords
<1> QED
  BY <1>3, <1>4, <1>5, <1>6, <1>7, <1>8 DEF IInv

(* The caller is answered; a success is about durable records only. *)
LEMMA AnswerStep == ASSUME IInv, NEW t \in Threads, Answer(t) PROVE IInv'
<1>1. /\ pc[t] = "waiting" /\ reply[t] # "none"
      /\ pc' = [pc EXCEPT ![t] = "idle"]
      /\ pending' = [pending EXCEPT ![t] = <<>>]
      /\ reply' = [reply EXCEPT ![t] = "none"]
      /\ err' = [err EXCEPT ![t] = FALSE]
      /\ UNCHANGED <<events, durable, crashes, broken, regionVars, writerVars, appenderVars,
                     queue, act>>
  BY DEF Answer, Goto
<1>2. \/ acked' = acked
      \/ reply[t] = "ok" /\ acked' = acked \cup {events[i] : i \in Elements(pending[t])}
  BY DEF Answer
<1> USE DEF regionVars, writerVars, appenderVars
<1>3. \A i \in Elements(pending[t]) : i \in 1 .. Len(events) /\ events[i] \in Record
  <2>1. \A i \in Elements(pending[t]) : i \in 1 .. Len(events)
    BY DEF IInv, PositionsOK, Elements
  <2>2. \A i \in 1 .. Len(events) : events[i] \in Record
    BY DEF IInv, TypeOK
  <2> QED
    BY <2>1, <2>2
<1>4. /\ <<>> \in Seq(Nat) /\ Len(<<>>) = 0
      /\ pending'[t] = <<>> /\ \A u \in Threads \ {t} : pending'[u] = pending[u]
  BY <1>1 DEF IInv, TypeOK
<1>5. TypeOK'
  <2>1. acked' \subseteq Record
    <3>1. acked \subseteq Record
      BY DEF IInv, TypeOK
    <3>2. {events[i] : i \in Elements(pending[t])} \subseteq Record
      BY <1>3
    <3> QED
      BY <1>2, <3>1, <3>2
  <2>2. pending' \in [Threads -> Seq(Nat)]
    BY <1>1, <1>4 DEF IInv, TypeOK
  <2> QED
    BY <1>1, <2>1, <2>2 DEF IInv, TypeOK, Phases
<1>6. LocksOK'
  BY <1>1 DEF IInv, TypeOK, LocksOK, Publishing, Appending
<1>7. PositionsOK'
  <2>1. \A u \in Threads : \A i \in 1 .. Len(pending'[u]) : pending'[u][i] \in 1 .. Len(events)
    <3>1. \A u \in Threads \ {t} : \A i \in 1 .. Len(pending'[u]) : pending'[u][i] \in 1 .. Len(events)
      BY <1>4 DEF IInv, PositionsOK
    <3>2. \A i \in 1 .. Len(pending'[t]) : pending'[t][i] \in 1 .. Len(events)
      BY <1>4
    <3> QED
      BY <3>1, <3>2
  <2>2. \A u \in Threads : pc'[u] \in Publishing => pc[u] = pc'[u]
    BY <1>1 DEF IInv, TypeOK, Publishing
  <2> QED
    BY <1>1, <2>1, <2>2 DEF IInv, PositionsOK
<1>8. FlightOK'
  <2>1. /\ \A i \in 1 .. Len(queue) : queue[i] \in Threads /\ queue[i] # t
        /\ \A i \in 1 .. Len(batch) : batch[i] \in Threads /\ batch[i] # t
    <3>1. /\ \A i \in 1 .. Len(queue) : queue[i] \in Threads
          /\ \A i \in 1 .. Len(batch) : batch[i] \in Threads
      BY DEF IInv, TypeOK
    <3> QED
      BY <1>1, <3>1 DEF IInv, FlightOK
  <2>2. /\ \A u \in Threads : u # t => pc'[u] = pc[u] /\ reply'[u] = reply[u]
        /\ reply'[t] = "none"
    BY <1>1 DEF IInv, TypeOK
  <2>3. /\ \A i \in 1 .. Len(queue) : pc'[queue[i]] \in Parked /\ reply'[queue[i]] = "none"
        /\ \A i \in 1 .. Len(batch) : pc'[batch[i]] \in Parked /\ reply'[batch[i]] = "none"
    BY <2>1, <2>2 DEF IInv, FlightOK
  <2>4. \A u \in Threads : reply'[u] # "none" => pc'[u] \in Parked
    BY <2>2 DEF IInv, FlightOK
  <2> QED
    BY <1>1, <2>3, <2>4 DEF IInv, FlightOK
<1>9. CoverOK'
  <2>1. \A u \in Threads : Below(u, mark) => Below(u, mark)'
    BY <1>1, <1>4 DEF Below
  <2>2. \A u \in Threads : Below(u, durable) => Below(u, durable)'
    BY <1>1, <1>4 DEF Below
  <2>3. \A u \in Threads : pc'[u] \in {"syncing", "releasing"} => pc[u] = pc'[u]
    BY <1>1 DEF IInv, TypeOK
  <2>4. \A u \in Threads : reply'[u] = "ok" => reply[u] = "ok"
    BY <1>1 DEF IInv, TypeOK
  <2>5. \A i \in 1 .. Len(batch) : batch[i] \in Threads
    BY DEF IInv, TypeOK
  <2>6. /\ \A u \in Threads : pc'[u] = "syncing" =>
             \A i \in 1 .. Len(batch) : Below(batch[i], mark)
        /\ \A u \in Threads : pc'[u] = "releasing" /\ verdict = "ok" =>
             \A i \in 1 .. Len(batch) : Below(batch[i], durable)
        /\ \A u \in Threads : reply'[u] = "ok" => Below(u, durable)
    BY <2>3, <2>4 DEF IInv, CoverOK
  <2> HIDE DEF Below
  <2>7. /\ \A u \in Threads : pc'[u] = "syncing" =>
             \A i \in 1 .. Len(batch) : Below(batch[i], mark)'
        /\ \A u \in Threads : pc'[u] = "releasing" /\ verdict = "ok" =>
             \A i \in 1 .. Len(batch) : Below(batch[i], durable)'
    BY <1>1, <1>4, <2>5, <2>6 DEF Below
  <2>8. \A u \in Threads : reply'[u] = "ok" => Below(u, durable)'
    BY <2>2, <2>6
  <2> QED
    BY <1>1, <2>7, <2>8 DEF CoverOK, Below
<1>10. ReplyImpliesDurable'
  <2>1. reply[t] = "ok" => \A i \in Elements(pending[t]) : i \in 1 .. durable
    <3> SUFFICES ASSUME reply[t] = "ok", NEW i \in Elements(pending[t]) PROVE i \in 1 .. durable
      OBVIOUS
    <3>1. Below(t, durable)
      BY DEF IInv, CoverOK
    <3>2. i <= durable
      BY <3>1 DEF Below, Elements
    <3>3. i \in 1 .. Len(events) /\ Len(events) \in Nat /\ durable \in Nat
      BY <1>3 DEF IInv, TypeOK
    <3> QED
      BY <3>2, <3>3
  <2>2. acked' \subseteq DurableRecords
    BY <1>2, <2>1 DEF IInv, ReplyImpliesDurable, DurableRecords
  <2> QED
    BY <1>1, <2>2 DEF ReplyImpliesDurable, DurableRecords
<1> QED
  BY <1>5, <1>6, <1>7, <1>8, <1>9, <1>10 DEF IInv

(* A crash keeps the durable prefix and forgets every thread. *)
LEMMA CrashStep == ASSUME IInv, Crash PROVE IInv'
<1>1. /\ durable' \in durable .. Len(events)
      /\ events' = SubSeq(events, 1, durable')
      /\ durable \in Nat /\ Len(events) \in Nat /\ acked' = acked
  BY DEF IInv, TypeOK, Crash
<1>2. durable' \in 0 .. Len(events) /\ durable' \in Nat /\ durable' >= durable
  BY <1>1
<1>3. /\ events' \in Seq(Record) /\ Len(events') = durable'
      /\ \A i \in 1 .. durable' : events'[i] = events[i]
  BY <1>1, <1>2, SubSeqFacts DEF IInv, TypeOK
<1>4. \A t \in Threads : pc'[t] = "idle" /\ pending'[t] = <<>> /\ reply'[t] = "none"
  BY DEF Crash
<1>5. TypeOK'
  <2>1. <<>> \in Seq(Threads) /\ <<>> \in Seq(Nat) /\ Len(<<>>) = 0
    OBVIOUS
  <2>2. /\ pc' \in [Threads -> Phases]
        /\ pending' \in [Threads -> Seq(Nat)]
        /\ err' \in [Threads -> BOOLEAN]
        /\ reply' \in [Threads -> {"none", "ok", "failed"}]
    BY <2>1 DEF Crash, Phases
  <2>3. Len(batch') <= Width /\ batch' \in Seq(Threads) /\ queue' \in Seq(Threads)
    BY <2>1, WidthAssumption DEF Crash
  <2>4. durable' \in Nat /\ crashes' \in Nat
    BY <1>2 DEF Crash, IInv, TypeOK
  <2> QED
    BY <1>3, <2>2, <2>3, <2>4 DEF Crash, IInv, TypeOK
<1>6. LocksOK'
  BY <1>4 DEF LocksOK, Publishing, Appending
<1>7. PositionsOK'
  <2>1. durable' \in 0 .. Len(events') /\ mark' \in 0 .. Len(events')
    <3>1. mark' = 0
      BY DEF Crash
    <3> QED
      BY <1>2, <1>3, <3>1
  <2>2. \A t \in Threads : \A i \in 1 .. Len(pending'[t]) : pending'[t][i] \in 1 .. Len(events')
    <3>1. \A t \in Threads : Len(pending'[t]) = 0
      BY <1>4
    <3> QED
      BY <3>1
  <2>3. \A t \in Threads : pc'[t] = "idle"
    BY <1>4
  <2> QED
    BY <2>1, <2>2, <2>3 DEF PositionsOK, Publishing
<1>8. FlightOK' /\ CoverOK'
  BY <1>4 DEF Crash, FlightOK, CoverOK
<1>9. ReplyImpliesDurable'
  <2>0. \A i \in 1 .. durable : i \in 1 .. durable'
    BY <1>1, <1>2
  <2>1. \A i \in 1 .. durable : i \in 1 .. durable' /\ events'[i] = events[i]
    BY <1>3, <2>0
  <2>2. DurableRecords \subseteq DurableRecords'
    BY <2>1 DEF DurableRecords
  <2> QED
    BY <1>1, <2>2 DEF IInv, ReplyImpliesDurable
<1> QED
  BY <1>5, <1>6, <1>7, <1>8, <1>9 DEF IInv

(* A stuttering step changes nothing the invariant reads. *)
LEMMA StutterStep == ASSUME IInv, UNCHANGED vars PROVE IInv'
<1> USE DEF vars, logVars, regionVars, writerVars, appenderVars, threadVars
<1>1. TypeOK' /\ LocksOK'
  BY DEF IInv, TypeOK, LocksOK
<1>2. PositionsOK' /\ FlightOK'
  BY DEF IInv, PositionsOK, FlightOK
<1>3. CoverOK' /\ ReplyImpliesDurable'
  BY DEF IInv, CoverOK, Below, ReplyImpliesDurable, DurableRecords
<1> QED
  BY <1>1, <1>2, <1>3 DEF IInv

(* Every step of the write path, and stuttering, keeps the inductive       *)
(* invariant: one case per action.                                         *)
LEMMA NextIInv == IInv /\ [Next]_vars => IInv'
<1> SUFFICES ASSUME IInv, [Next]_vars PROVE IInv'
  OBVIOUS
<1>1. ASSUME NEW t \in Threads, Step(t) PROVE IInv'
  <2>1. CASE EnterRegion(t)
    BY <2>1, EnterRegionStep
  <2>2. CASE AppendDirectly(t)
    BY <2>2, AppendDirectlyStep
  <2>3. CASE Publish(t)
    BY <2>3, PublishStep
  <2>4. CASE Decided(t)
    BY <2>4, DecidedStep
  <2>5. CASE AcquireWriteLock(t)
    BY <2>5, AcquireWriteLockStep
  <2>6. CASE Write(t)
    BY <2>6, WriteStep
  <2>7. CASE CountersignRefuses(t)
    BY <2>7, CountersignRefusesStep
  <2>8. CASE WriteFails(t)
    BY <2>8, WriteFailsStep
  <2>9. CASE MirrorA(t)
    BY <2>9, MirrorStep DEF MirrorA
  <2>10. CASE MirrorB(t)
    BY <2>10, MirrorStep DEF MirrorB
  <2>11. CASE ListenerRaises(t)
    BY <2>11, ListenerRaisesStep
  <2>12. CASE Published(t)
    BY <2>12, PublishedStep
  <2>13. CASE ExitRegion(t)
    BY <2>13, ExitRegionStep
  <2>14. CASE Enqueue(t)
    BY <2>14, EnqueueStep
  <2>15. CASE TakeRole(t)
    BY <2>15, TakeRoleStep
  <2>16. CASE TakeOne(t)
    BY <2>16, TakeOneStep
  <2>17. CASE CloseBatch(t)
    BY <2>17, CloseBatchStep
  <2>18. CASE LeaveRole(t)
    BY <2>18, LeaveRoleStep
  <2>19. CASE StartBarrier(t)
    BY <2>19, StartBarrierStep
  <2>20. CASE BarrierReturns(t)
    BY <2>20, BarrierReturnsStep
  <2>21. CASE BarrierFails(t)
    BY <2>21, BarrierFailsStep
  <2>22. CASE Release(t)
    BY <2>22, ReleaseStep
  <2>23. CASE Answer(t)
    BY <2>23, AnswerStep
  <2> QED
    BY <1>1, <2>1, <2>2, <2>3, <2>4, <2>5, <2>6, <2>7, <2>8, <2>9, <2>10, <2>11, <2>12,
       <2>13, <2>14, <2>15, <2>16, <2>17, <2>18, <2>19, <2>20, <2>21, <2>22, <2>23
    DEF Step, Deciding, Committing
<1>2. CASE Crash
  BY <1>2, CrashStep
<1>3. CASE Finished \/ UNCHANGED vars
  BY <1>3, StutterStep DEF Finished
<1> QED
  BY <1>1, <1>2, <1>3 DEF Next

-----------------------------------------------------------------------------
(* Every reachable state of the write path is well typed, for any number   *)
(* of threads and any bounds, crashes and faults included; in particular   *)
(* no batch outgrows GroupCommit.width (_take_batch).                      *)
THEOREM TypeCorrect == Spec => []TypeOK
<1>1. IInv => TypeOK
  BY DEF IInv
<1> QED
  BY <1>1, InitIInv, NextIInv, PTL DEF Spec

(* Invariant 1 of group commit (commit.py _commit): a success is reported  *)
(* only for records a completed sync covers, and no crash takes one back.  *)
THEOREM DurabilityOfReplies == Spec => []ReplyImpliesDurable
<1>1. IInv => ReplyImpliesDurable
  BY DEF IInv
<1> QED
  BY <1>1, InitIInv, NextIInv, PTL DEF Spec

-----------------------------------------------------------------------------
(* The write path implements RecordLog *)

(* The write path's first state is the abstract log's. *)
LEMMA InitRefines == Init => Log!Init
  BY DEF Init, Log!Init

(* Steps that touch neither the record nor the replies stutter. *)
LEMMA QuietStep == ASSUME UNCHANGED <<events, durable, acked>> PROVE [Log!Next]_(Log!vars)
  BY DEF Log!vars

(* Publishing a record is the abstract Publish. *)
LEMMA ExtendRefines ==
  ASSUME IInv, NEW t \in Threads, NEW part \in Parts, NEW audited \in BOOLEAN,
         Extend(t, part, audited), UNCHANGED <<durable, acked>>
  PROVE  [Log!Next]_(Log!vars)
<1>1. /\ events \in Seq(Record) /\ Len(events) \in Nat
      /\ \E r \in Record : events' = Append(events, r)
  BY ExtendFacts DEF IInv, TypeOK
<1>2. Len(events') = Len(events) + 1
  BY <1>1
<1>3. SubSeq(events', 1, Len(events)) = events
  BY <1>1
<1> QED
  BY <1>2, <1>3 DEF Log!Next, Log!Publish

(* A success reply is the abstract Acknowledge: it is about durable records. *)
LEMMA AnswerRefines == ASSUME IInv, NEW t \in Threads, Answer(t) PROVE [Log!Next]_(Log!vars)
<1>1. ReplyImpliesDurable'
  BY AnswerStep DEF IInv
<1>2. UNCHANGED <<events, durable>> /\ acked \subseteq acked'
  BY DEF Answer
<1>3. acked' \subseteq acked \cup {events[i] : i \in 1 .. durable}
  BY <1>1, <1>2 DEF ReplyImpliesDurable, DurableRecords
<1> QED
  BY <1>2, <1>3 DEF Log!Next, Log!Acknowledge

(* A completed barrier is the abstract Sync. *)
LEMMA BarrierRefines == ASSUME IInv, NEW t \in Threads, BarrierReturns(t) PROVE [Log!Next]_(Log!vars)
<1>1. durable' = (IF mark > durable THEN mark ELSE durable) /\ UNCHANGED <<events, acked>>
  BY DEF BarrierReturns
<1>2. durable \in 0 .. Len(events) /\ mark \in 0 .. Len(events) /\ Len(events) \in Nat
  BY DEF IInv, TypeOK, PositionsOK
<1>3. durable' \in durable .. Len(events)
  BY <1>1, <1>2
<1> QED
  BY <1>1, <1>3 DEF Log!Next, Log!Sync

(* Every step of the write path is a step of the abstract log or a stutter. *)
LEMMA NextRefines == IInv /\ [Next]_vars => [Log!Next]_(Log!vars)
<1> SUFFICES ASSUME IInv, [Next]_vars PROVE [Log!Next]_(Log!vars)
  OBVIOUS
<1>1. ASSUME NEW t \in Threads, Step(t) PROVE [Log!Next]_(Log!vars)
  <2>1. CASE EnterRegion(t)
    BY <2>1, QuietStep DEF EnterRegion, logVars
  <2>2. CASE AppendDirectly(t)
    BY <2>2, QuietStep DEF AppendDirectly, logVars
  <2>3. CASE Publish(t)
    BY <2>3, QuietStep DEF Publish, logVars
  <2>4. CASE Decided(t)
    BY <2>4, QuietStep DEF Decided, logVars
  <2>5. CASE AcquireWriteLock(t)
    BY <2>5, QuietStep DEF AcquireWriteLock, logVars
  <2>6. CASE CountersignRefuses(t)
    BY <2>6, QuietStep DEF CountersignRefuses, PublishRaises, logVars
  <2>7. CASE WriteFails(t)
    BY <2>7, QuietStep DEF WriteFails, PublishRaises, logVars
  <2>8. CASE ListenerRaises(t)
    BY <2>8, QuietStep DEF ListenerRaises, PublishRaises, logVars
  <2>9. CASE Published(t)
    BY <2>9, QuietStep DEF Published, logVars
  <2>10. CASE ExitRegion(t)
    BY <2>10, QuietStep DEF ExitRegion, logVars
  <2>11. CASE Enqueue(t)
    BY <2>11, QuietStep DEF Enqueue, logVars
  <2>12. CASE TakeRole(t)
    BY <2>12, QuietStep DEF TakeRole, logVars
  <2>13. CASE TakeOne(t)
    BY <2>13, QuietStep DEF TakeOne, logVars
  <2>14. CASE CloseBatch(t)
    BY <2>14, QuietStep DEF CloseBatch, logVars
  <2>15. CASE LeaveRole(t)
    BY <2>15, QuietStep DEF LeaveRole, logVars
  <2>16. CASE StartBarrier(t)
    BY <2>16, QuietStep DEF StartBarrier, logVars
  <2>17. CASE BarrierFails(t)
    BY <2>17, QuietStep DEF BarrierFails, logVars
  <2>18. CASE Release(t)
    BY <2>18, QuietStep DEF Release, logVars
  <2>19. CASE Write(t)
    <3>1. PICK audited \in Audited : Extend(t, "main", audited)
      BY <2>19 DEF Write
    <3>2. audited \in BOOLEAN /\ UNCHANGED <<durable, acked>>
      BY <2>19, AuditedAssumption DEF Write
    <3> QED
      BY <3>1, <3>2, ExtendRefines DEF Parts
  <2>20. CASE MirrorA(t)
    <3>1. Extend(t, "mirror-a", FALSE) /\ UNCHANGED <<durable, acked>>
      BY <2>20 DEF MirrorA, Mirror
    <3> QED
      BY <3>1, ExtendRefines DEF Parts
  <2>21. CASE MirrorB(t)
    <3>1. Extend(t, "mirror-b", FALSE) /\ UNCHANGED <<durable, acked>>
      BY <2>21 DEF MirrorB, Mirror
    <3> QED
      BY <3>1, ExtendRefines DEF Parts
  <2>22. CASE BarrierReturns(t)
    BY <2>22, BarrierRefines
  <2>23. CASE Answer(t)
    BY <2>23, AnswerRefines
  <2> QED
    BY <1>1, <2>1, <2>2, <2>3, <2>4, <2>5, <2>6, <2>7, <2>8, <2>9, <2>10, <2>11, <2>12,
       <2>13, <2>14, <2>15, <2>16, <2>17, <2>18, <2>19, <2>20, <2>21, <2>22, <2>23
    DEF Step, Deciding, Committing
<1>2. CASE Crash
  <2>1. durable' \in durable .. Len(events) /\ events' = SubSeq(events, 1, durable') /\ UNCHANGED acked
    BY <1>2 DEF Crash
  <2> QED
    BY <2>1 DEF Log!Next, Log!Restart
<1>3. CASE Finished \/ UNCHANGED vars
  BY <1>3, QuietStep DEF Finished, vars, logVars
<1> QED
  BY <1>1, <1>2, <1>3 DEF Next

(* The write path - threads, locks, batches, failures and crashes included *)
(* - implements the abstract record log.                                   *)
THEOREM WritePathImplementsLog == Spec => ImplementsRecordLog
<1>1. Init => Log!Init
  BY InitRefines
<1>2. Init => IInv
  BY InitIInv
<1>3. IInv /\ [Next]_vars => IInv'
  BY NextIInv
<1>4. IInv /\ [Next]_vars => [Log!Next]_(Log!vars)
  BY NextRefines
<1> QED
  BY <1>1, <1>2, <1>3, <1>4, PTL DEF Spec, ImplementsRecordLog, Log!Spec

-----------------------------------------------------------------------------
(* Decides are serial, when every act goes through the gate *)

Regional == {"deciding", "locking", "exiting"} \cup Publishing

(* The region belongs to exactly the thread between EnterRegion and         *)
(* ExitRegion.                                                             *)
RegionOK == \A t \in Threads : pc[t] \in Regional <=> region = t

(* Until the act's first record is written the log is as it was decided on. *)
FreshOK ==
  \A t \in Threads :
    /\ pc[t] = "deciding" /\ pubs = 0 => saw = Len(events)
    /\ pc[t] \in {"locking"} \cup Publishing => pubs >= 1
    /\ pc[t] \in {"locking", "writing"} /\ pubs = 1 => saw = Len(events)

SerialInv == RegionOK /\ FreshOK /\ DecidesOnItsPrefix

(* A step that moves one thread inside the region, or outside it, and       *)
(* writes nothing.                                                         *)
LEMMA SerialFrame ==
  ASSUME IInv, SerialInv, NEW t \in Threads, NEW phase,
         pc' = [pc EXCEPT ![t] = phase], UNCHANGED <<events, region, saw, pubs>>,
         phase \in Regional <=> pc[t] \in Regional,
         phase = "deciding" => pubs >= 1,
         phase \in {"locking"} \cup Publishing => pc[t] \in {"locking"} \cup Publishing,
         phase \in {"locking", "writing"} => pc[t] \in {"locking", "writing"}
  PROVE  SerialInv'
<1>1. \A u \in Threads : pc'[u] = IF u = t THEN phase ELSE pc[u]
  BY DEF IInv, TypeOK
<1>2. RegionOK'
  BY <1>1 DEF SerialInv, RegionOK
<1>3. pubs \in Nat
  BY DEF IInv, TypeOK
<1>4. FreshOK'
  BY <1>1, <1>3 DEF SerialInv, FreshOK
<1>5. DecidesOnItsPrefix'
  BY DEF SerialInv, DecidesOnItsPrefix
<1> QED
  BY <1>2, <1>4, <1>5 DEF SerialInv

(* Entering the region: nobody is in it, and the decide sees all there is. *)
LEMMA EnterRegionSerial ==
  ASSUME IInv, SerialInv, NEW t \in Threads, EnterRegion(t) PROVE SerialInv'
<1>1. /\ pc' = [pc EXCEPT ![t] = "deciding"] /\ region = None /\ region' = t
      /\ saw' = Len(events) /\ pubs' = 0 /\ events' = events
  BY DEF EnterRegion, Goto, logVars
<1>2. \A u \in Threads : pc'[u] = IF u = t THEN "deciding" ELSE pc[u]
  BY <1>1 DEF IInv, TypeOK
<1>3. \A u \in Threads : pc[u] \notin Regional
  BY <1>1, NoneAssumption DEF SerialInv, RegionOK
<1>4. RegionOK'
  BY <1>1, <1>2, <1>3 DEF RegionOK, Regional
<1>5. FreshOK'
  BY <1>1, <1>2, <1>3 DEF FreshOK, Regional, Publishing
<1>6. DecidesOnItsPrefix'
  BY <1>1 DEF SerialInv, DecidesOnItsPrefix
<1> QED
  BY <1>4, <1>5, <1>6 DEF SerialInv

(* A publication begins: the first of an act carries what was decided on.   *)
LEMMA PublishSerial ==
  ASSUME IInv, SerialInv, NEW t \in Threads, Publish(t) PROVE SerialInv'
<1>1. /\ pc[t] = "deciding" /\ pubs' = pubs + 1 /\ UNCHANGED <<events, region, saw>>
      /\ pc' = [pc EXCEPT ![t] = IF broken THEN "exiting" ELSE "locking"]
  BY DEF Publish, Goto, logVars
<1>2. \A u \in Threads : pc'[u] = IF u # t THEN pc[u] ELSE IF broken THEN "exiting" ELSE "locking"
  BY <1>1 DEF IInv, TypeOK
<1>3. \A u \in Threads : u # t => pc[u] \notin Regional
  BY <1>1 DEF SerialInv, RegionOK, Regional
<1>4. pubs \in Nat
  BY DEF IInv, TypeOK
<1>5. RegionOK'
  BY <1>1, <1>2 DEF SerialInv, RegionOK, Regional
<1>6. FreshOK'
  BY <1>1, <1>2, <1>3, <1>4 DEF SerialInv, FreshOK, Regional, Publishing
<1>7. DecidesOnItsPrefix'
  BY <1>1 DEF SerialInv, DecidesOnItsPrefix
<1> QED
  BY <1>5, <1>6, <1>7 DEF SerialInv

(* A record joins the log: the act's first says what it was decided on.     *)
LEMMA ExtendSerial ==
  ASSUME IInv, SerialInv, Direct = {}, NEW t \in Threads, NEW part, NEW audited, NEW phase,
         Extend(t, part, audited), pc' = [pc EXCEPT ![t] = phase],
         UNCHANGED <<region, saw, pubs>>,
         pc[t] \in Publishing, phase \in Publishing \ {"writing"},
         part = "main" => pc[t] = "writing"
  PROVE  SerialInv'
<1> DEFINE r == [by |-> t, act |-> act[t], part |-> part, gated |-> t \notin Direct,
                 pub |-> IF t \in Direct THEN 1 ELSE pubs,
                 saw |-> IF t \in Direct THEN 0 ELSE saw,
                 late |-> broken, audited |-> audited]
<1>1. events' = Append(events, r)
  BY DEF Extend
<1>2. events \in Seq(Record)
  BY DEF IInv, TypeOK
<1>3. /\ Len(events') = Len(events) + 1 /\ Len(events) \in Nat
      /\ \A i \in 1 .. Len(events) : events'[i] = events[i]
      /\ events'[Len(events) + 1] = r
  BY <1>1, <1>2
<1>4. r.part = part /\ r.pub = pubs /\ r.saw = saw
  OBVIOUS
<1> HIDE DEF r
<1>5. \A u \in Threads : pc'[u] = IF u = t THEN phase ELSE pc[u]
  BY DEF IInv, TypeOK
<1>6. \A u \in Threads : u # t => pc[u] \notin Regional
  BY DEF SerialInv, RegionOK, Regional
<1>7. pubs \in Nat /\ pubs >= 1
  BY DEF IInv, TypeOK, SerialInv, FreshOK
<1>8. RegionOK'
  BY <1>5 DEF SerialInv, RegionOK, Regional
<1>9. FreshOK'
  BY <1>5, <1>6, <1>7 DEF FreshOK, Regional, Publishing
<1>10. DecidesOnItsPrefix'
  <2> SUFFICES ASSUME NEW i \in 1 .. Len(events'),
                      events'[i].part = "main", events'[i].gated, events'[i].pub = 1
               PROVE  events'[i].saw = i - 1
    BY DEF DecidesOnItsPrefix
  <2>1. CASE i \in 1 .. Len(events)
    BY <2>1, <1>3 DEF SerialInv, DecidesOnItsPrefix
  <2>2. CASE i = Len(events) + 1
    <3>1. part = "main" /\ pubs = 1
      BY <2>2, <1>3, <1>4
    <3>2. saw = Len(events)
      BY <3>1 DEF SerialInv, FreshOK
    <3> QED
      BY <2>2, <3>2, <1>3, <1>4
  <2> QED
    BY <2>1, <2>2, <1>3
<1> QED
  BY <1>8, <1>9, <1>10 DEF SerialInv

(* Leaving the region frees it.                                            *)
LEMMA ExitRegionSerial ==
  ASSUME IInv, SerialInv, NEW t \in Threads, ExitRegion(t) PROVE SerialInv'
<1>1. /\ pc[t] = "exiting" /\ region' = None /\ events' = events
      /\ \E phase \in {"idle", "awaiting"} : pc' = [pc EXCEPT ![t] = phase]
  BY DEF ExitRegion, Goto, logVars
<1>2. \A u \in Threads : u # t => pc'[u] = pc[u]
  BY <1>1 DEF IInv, TypeOK
<1>3. \A u \in Threads : u # t => pc[u] \notin Regional
  BY <1>1 DEF SerialInv, RegionOK, Regional
<1>4. pc'[t] \in {"idle", "awaiting"}
  BY <1>1 DEF IInv, TypeOK
<1>5. \A u \in Threads : pc'[u] \notin Regional
  BY <1>2, <1>3, <1>4 DEF Regional, Publishing
<1>6. RegionOK' /\ FreshOK'
  BY <1>1, <1>5, NoneAssumption DEF RegionOK, FreshOK, Regional, Publishing
<1>7. DecidesOnItsPrefix'
  BY <1>1 DEF SerialInv, DecidesOnItsPrefix
<1> QED
  BY <1>6, <1>7 DEF SerialInv

(* A crash leaves nobody in the region and a prefix of the log.            *)
LEMMA CrashSerial == ASSUME IInv, SerialInv, Crash PROVE SerialInv'
<1>1. /\ region' = None /\ pc' = [u \in Threads |-> "idle"]
      /\ durable' \in durable .. Len(events) /\ events' = SubSeq(events, 1, durable')
  BY DEF Crash
<1>2. /\ RegionOK' /\ FreshOK'
  BY <1>1, NoneAssumption DEF RegionOK, FreshOK, Regional, Publishing
<1>3. events \in Seq(Record) /\ durable' \in 0 .. Len(events) /\ Len(events) \in Nat
  BY <1>1 DEF IInv, TypeOK
<1>4. Len(events') = durable' /\ \A i \in 1 .. durable' : events'[i] = events[i]
  BY <1>1, <1>3, SubSeqFacts
<1>5. DecidesOnItsPrefix'
  BY <1>3, <1>4 DEF SerialInv, DecidesOnItsPrefix
<1> QED
  BY <1>2, <1>5 DEF SerialInv

(* No step of a gated thread, and no crash, upsets the order of decides.    *)
LEMMA NextSerial == ASSUME Direct = {}, IInv, SerialInv, [Next]_vars PROVE SerialInv'
<1> USE DEF Regional, Publishing
<1>1. ASSUME NEW t \in Threads, Step(t) PROVE SerialInv'
  <2>1. CASE EnterRegion(t)
    BY <2>1, EnterRegionSerial
  <2>2. CASE AppendDirectly(t)
    BY <2>2 DEF AppendDirectly
  <2>3. CASE Publish(t)
    BY <2>3, PublishSerial
  <2>4. CASE Decided(t)
    BY <2>4, SerialFrame DEF Decided, Goto, logVars, regionVars
  <2>5. CASE AcquireWriteLock(t)
    BY <2>5, SerialFrame DEF AcquireWriteLock, Goto, logVars, regionVars
  <2>6. CASE Write(t)
    <3>1. PICK audited \in Audited :
            /\ Extend(t, "main", audited)
            /\ Goto(t, IF audited THEN "mirror-a" ELSE "published")
      BY <2>6 DEF Write
    <3>2. pc[t] = "writing" /\ UNCHANGED <<region, saw, pubs>>
      BY <2>6 DEF Write, regionVars
    <3>3. CASE audited
      BY <3>1, <3>2, <3>3, ExtendSerial DEF Goto
    <3>4. CASE ~audited
      BY <3>1, <3>2, <3>4, ExtendSerial DEF Goto
    <3> QED
      BY <3>3, <3>4
  <2>7. CASE MirrorA(t)
    BY <2>7, ExtendSerial DEF MirrorA, Mirror, Goto, regionVars
  <2>8. CASE MirrorB(t)
    BY <2>8, ExtendSerial DEF MirrorB, Mirror, Goto, regionVars
  <2>9. CASE CountersignRefuses(t) \/ WriteFails(t) \/ ListenerRaises(t)
    <3>1. pc[t] \in Publishing /\ PublishRaises(t)
      BY <2>9 DEF CountersignRefuses, WriteFails, ListenerRaises
    <3> QED
      BY <3>1, SerialFrame DEF PublishRaises, Goto, logVars, regionVars
  <2>10. CASE Published(t)
    <3>1. pubs >= 1
      BY <2>10 DEF Published, SerialInv, FreshOK
    <3> QED
      BY <2>10, <3>1, SerialFrame DEF Published, Goto, logVars, regionVars
  <2>11. CASE ExitRegion(t)
    BY <2>11, ExitRegionSerial
  <2>12. CASE Enqueue(t) \/ TakeRole(t) \/ CloseBatch(t) \/ LeaveRole(t)
    BY <2>12, SerialFrame DEF Enqueue, TakeRole, CloseBatch, LeaveRole, Goto, logVars, regionVars
  <2>13. CASE TakeOne(t)
    BY <2>13 DEF TakeOne, logVars, regionVars, SerialInv, RegionOK, FreshOK, DecidesOnItsPrefix
  <2>14. CASE StartBarrier(t) \/ BarrierFails(t) \/ Release(t)
    BY <2>14, SerialFrame DEF StartBarrier, BarrierFails, Release, Goto, logVars, regionVars
  <2>15. CASE BarrierReturns(t) \/ Answer(t)
    BY <2>15, SerialFrame DEF BarrierReturns, Answer, Goto, logVars, regionVars
  <2> QED
    BY <1>1, <2>1, <2>2, <2>3, <2>4, <2>5, <2>6, <2>7, <2>8, <2>9, <2>10, <2>11, <2>12,
       <2>13, <2>14, <2>15 DEF Step, Deciding, Committing
<1>2. CASE Crash
  BY <1>2, CrashSerial
<1>3. CASE Finished \/ UNCHANGED vars
  BY <1>3 DEF Finished, vars, logVars, regionVars, SerialInv, RegionOK, FreshOK, DecidesOnItsPrefix
<1> QED
  BY <1>1, <1>2, <1>3 DEF Next

(* When every act goes through the gate, each decides on the whole record   *)
(* its own first record extends, and whoever issues the disk barrier has    *)
(* left the decide region (Gate.execute, store._commit_batch).              *)
THEOREM SerialDecides ==
  ASSUME Direct = {}
  PROVE  Spec => []DecidesAreSerial
<1>1. Init => SerialInv
  <2> SUFFICES ASSUME Init PROVE SerialInv
    OBVIOUS
  <2>1. region = None /\ events = <<>> /\ \A t \in Threads : pc[t] = "idle"
    BY DEF Init
  <2> QED
    BY <2>1, NoneAssumption
    DEF SerialInv, RegionOK, FreshOK, DecidesOnItsPrefix, Regional, Publishing
<1>2. IInv /\ SerialInv /\ [Next]_vars => SerialInv'
  BY NextSerial
<1>3. SerialInv => DecidesAreSerial
  <2>1. RegionOK => NoRegionAtBarrier
    BY DEF RegionOK, NoRegionAtBarrier, Regional, Publishing
  <2> QED
    BY <2>1 DEF SerialInv, DecidesAreSerial
<1> QED
  BY <1>1, <1>2, <1>3, InitIInv, NextIInv, PTL DEF Spec

-----------------------------------------------------------------------------
(* Acknowledged acts are whole *)

(* Between EnterRegion and ExitRegion a gated thread holds the region; a    *)
(* direct one never decides.                                               *)
GateOK ==
  \A t \in Threads :
    /\ pc[t] \in {"deciding", "exiting"} => t \notin Direct
    /\ t \notin Direct /\ pc[t] \in Regional => region = t

(* The publication a thread's record belongs to.                            *)
PubOf(t) == IF t \in Direct THEN 1 ELSE pubs

(* A list of submissions holds the mirror of that kind of a record.         *)
Filed(log, list, kind, r) ==
  \E j \in 1 .. Len(list) :
    /\ log[list[j]].part = kind
    /\ log[list[j]].by = r.by /\ log[list[j]].act = r.act /\ log[list[j]].pub = r.pub

Mirrored(log, list, r) == Filed(log, list, "mirror-a", r) /\ Filed(log, list, "mirror-b", r)

UnderWay(t) == pc[t] \in Publishing \ {"writing"}

(* The record being published says whose it is, and its mirrors so far are  *)
(* among the submissions its thread will wait on.                          *)
PublishOK ==
  \A t \in Threads :
    /\ UnderWay(t) =>
         events[cur].by = t /\ events[cur].act = act[t] /\ events[cur].pub = PubOf(t)
    /\ UnderWay(t) /\ events[cur].late => broken
    /\ pc[t] = "mirror-b" => Filed(events, pending[t], "mirror-a", events[cur])
    /\ pc[t] = "published" /\ events[cur].audited => Mirrored(events, pending[t], events[cur])

(* What a thread waits on holds both mirrors of each audited record, and    *)
(* holds a late record only while the store is poisoned.                   *)
Whole(log, list) ==
  \A i \in 1 .. Len(list) : log[list[i]].audited => Mirrored(log, list, log[list[i]])

Timely(log, list) == \A i \in 1 .. Len(list) : ~log[list[i]].late

PendingOK ==
  \A t \in Threads : Whole(events, pending[t]) /\ (Timely(events, pending[t]) \/ broken)

(* The barrier in flight, the verdict about to be released and a released   *)
(* success are never about a late record.                                  *)
TimelyOK ==
  /\ \A t \in Threads : pc[t] = "syncing" =>
       \A i \in 1 .. Len(batch) : Timely(events, pending[batch[i]])
  /\ \A t \in Threads : pc[t] = "releasing" /\ verdict = "ok" =>
       \A i \in 1 .. Len(batch) : Timely(events, pending[batch[i]])
  /\ \A t \in Threads : reply[t] = "ok" => Timely(events, pending[t])

WholeInv ==
  /\ GateOK /\ PublishOK /\ PendingOK /\ TimelyOK
  /\ AckedActIsWhole /\ LateRecordsNeverAcked

(* A longer list over a log that kept what the list names still holds what   *)
(* it held.                                                                 *)
LEMMA FiledGrows ==
  ASSUME NEW log, NEW after, NEW list, NEW longer, NEW kind, NEW r,
         Len(list) \in Nat, Len(longer) \in Nat, Len(list) <= Len(longer),
         \A i \in 1 .. Len(list) : longer[i] = list[i] /\ after[list[i]] = log[list[i]],
         Filed(log, list, kind, r)
  PROVE  Filed(after, longer, kind, r)
<1>1. PICK j \in 1 .. Len(list) :
        /\ log[list[j]].part = kind
        /\ log[list[j]].by = r.by /\ log[list[j]].act = r.act /\ log[list[j]].pub = r.pub
  BY DEF Filed
<1>2. j \in 1 .. Len(longer) /\ after[longer[j]] = log[list[j]]
  OBVIOUS
<1> QED
  BY <1>1, <1>2 DEF Filed

(* A list stays whole and timely over a log that kept what it names.        *)
LEMMA ListKept ==
  ASSUME NEW log, NEW after, NEW list, Len(list) \in Nat,
         \A i \in 1 .. Len(list) : after[list[i]] = log[list[i]]
  PROVE  /\ Whole(log, list) => Whole(after, list)
         /\ Timely(log, list) => Timely(after, list)
<1>1. ASSUME Whole(log, list), NEW i \in 1 .. Len(list), after[list[i]].audited
      PROVE  Mirrored(after, list, after[list[i]])
  <2>1. after[list[i]] = log[list[i]]
    OBVIOUS
  <2>2. Mirrored(log, list, after[list[i]])
    BY <1>1, <2>1 DEF Whole
  <2> QED
    BY <2>2, FiledGrows DEF Mirrored
<1> QED
  BY <1>1 DEF Whole, Timely

(* Filing one more submission, whose mirrors if it has any are filed, keeps *)
(* the list whole, and timely unless the record is late.                    *)
LEMMA ListAppended ==
  ASSUME NEW log, NEW after, NEW list \in Seq(Nat), NEW n \in Nat,
         \A i \in 1 .. Len(list) : after[list[i]] = log[list[i]],
         after[n].audited => Mirrored(log, list, after[n])
  PROVE  /\ Whole(log, list) => Whole(after, Append(list, n))
         /\ Timely(log, list) /\ ~after[n].late => Timely(after, Append(list, n))
<1> DEFINE longer == Append(list, n)
<1>1. /\ Len(list) \in Nat /\ Len(longer) = Len(list) + 1
      /\ \A i \in 1 .. Len(list) : longer[i] = list[i]
      /\ longer[Len(list) + 1] = n
  BY AppendFacts
<1> HIDE DEF longer
<1>2. \A i \in 1 .. Len(longer) :
        (i \in 1 .. Len(list) /\ after[longer[i]] = log[list[i]]) \/ longer[i] = n
  BY <1>1
<1>3. ASSUME Whole(log, list), NEW i \in 1 .. Len(longer), after[longer[i]].audited
      PROVE  Mirrored(after, longer, after[longer[i]])
  <2>1. Mirrored(log, list, after[longer[i]])
    BY <1>2, <1>3 DEF Whole
  <2>2. Len(list) <= Len(longer) /\ Len(longer) \in Nat
    BY <1>1
  <2> QED
    BY <1>1, <2>1, <2>2, FiledGrows DEF Mirrored
<1>4. Whole(log, list) => Whole(after, longer)
  BY <1>3 DEF Whole
<1>5. Timely(log, list) /\ ~after[n].late => Timely(after, longer)
  BY <1>2 DEF Timely
<1> QED
  BY <1>4, <1>5 DEF longer

(* Nobody else is publishing while a thread holds the write lock.           *)
LEMMA OnePublisher ==
  ASSUME IInv, NEW t \in Threads, pc[t] \in Publishing
  PROVE  \A u \in Threads \ {t} : ~UnderWay(u)
  BY DEF IInv, LocksOK, UnderWay

(* A step that neither appends nor files, and moves its thread out of the   *)
(* publish or keeps it from it.                                            *)
LEMMA LogFrame ==
  ASSUME IInv, GateOK, PublishOK, PendingOK, NEW t \in Threads, NEW phase,
         phase \notin Publishing \ {"writing"}, pc' = [pc EXCEPT ![t] = phase],
         UNCHANGED <<events, pending>>, broken => broken',
         \A u \in Threads \ {t} : act'[u] = act[u],
         \A u \in Threads \ {t} : UnderWay(u) => cur' = cur /\ (u \in Direct \/ pubs' = pubs)
  PROVE  PublishOK' /\ PendingOK'
<1>1. \A u \in Threads : pc'[u] = IF u = t THEN phase ELSE pc[u]
  BY DEF IInv, TypeOK
<1>2. \A u \in Threads : UnderWay(u)' => u # t /\ UnderWay(u) /\ pc'[u] = pc[u]
  BY <1>1 DEF UnderWay
<1>3. PendingOK'
  BY DEF PendingOK
<1>4. PublishOK'
  <2> SUFFICES ASSUME NEW u \in Threads, UnderWay(u)'
               PROVE  /\ events'[cur'].by = u /\ events'[cur'].act = act'[u]
                      /\ events'[cur'].pub = PubOf(u)'
                      /\ events'[cur'].late => broken'
                      /\ pc'[u] = "mirror-b" =>
                           Filed(events', pending'[u], "mirror-a", events'[cur'])
                      /\ pc'[u] = "published" /\ events'[cur'].audited =>
                           Mirrored(events', pending'[u], events'[cur'])
    BY DEF PublishOK, UnderWay, Publishing
  <2>1. /\ u # t /\ UnderWay(u) /\ pc'[u] = pc[u] /\ cur' = cur /\ act'[u] = act[u]
        /\ u \in Direct \/ pubs' = pubs
    BY <1>2
  <2>2. PubOf(u)' = PubOf(u)
    BY <2>1 DEF PubOf
  <2> QED
    BY <2>1, <2>2 DEF PublishOK
<1> QED
  BY <1>3, <1>4

(* A step that takes the lock or the region from nobody, or gives up its    *)
(* own, leaves the gated threads inside the region where they were.         *)
LEMMA GateFrame ==
  ASSUME IInv, GateOK, NEW t \in Threads, NEW phase, pc' = [pc EXCEPT ![t] = phase],
         UNCHANGED region,
         phase \in {"deciding", "exiting"} => t \notin Direct,
         t \in Direct \/ phase \notin Regional \/ pc[t] \in Regional
  PROVE  GateOK'
<1>1. \A u \in Threads : pc'[u] = IF u = t THEN phase ELSE pc[u]
  BY DEF IInv, TypeOK
<1> QED
  BY <1>1 DEF GateOK

(* What a failing publish leaves.                                           *)
LEMMA RaiseWhole ==
  ASSUME IInv, GateOK, PublishOK, PendingOK, NEW t \in Threads,
         pc[t] \in Publishing, PublishRaises(t), broken => broken'
  PROVE  GateOK' /\ PublishOK' /\ PendingOK'
<1>1. PICK phase \in {"idle", "exiting"} :
        pc' = [pc EXCEPT ![t] = phase] /\ (phase = "exiting" => t \notin Direct)
  BY DEF PublishRaises, Goto
<1>2. UNCHANGED <<events, pending, region, pubs, act>>
  BY DEF PublishRaises, logVars, regionVars
<1>3. GateOK'
  BY <1>1, <1>2, GateFrame DEF Regional
<1>4. phase \notin Publishing \ {"writing"}
  BY <1>1 DEF Publishing
<1>5. PublishOK' /\ PendingOK'
  BY <1>1, <1>2, <1>4, OnePublisher, LogFrame
<1> QED
  BY <1>3, <1>5

(* The record a publication appends is its thread's own.                    *)
LEMMA ExtendRecord ==
  ASSUME IInv, NEW t \in Threads, NEW kind \in Parts, NEW audited \in BOOLEAN,
         Extend(t, kind, audited)
  PROVE  /\ Len(events) \in Nat /\ Len(events') = Len(events) + 1
         /\ \A i \in 1 .. Len(events) : events'[i] = events[i]
         /\ events'[Len(events) + 1].by = t
         /\ events'[Len(events) + 1].act = act[t]
         /\ events'[Len(events) + 1].pub = PubOf(t)
         /\ events'[Len(events) + 1].part = kind
         /\ events'[Len(events) + 1].late = broken
         /\ events'[Len(events) + 1].audited = audited
<1> DEFINE r == [by |-> t, act |-> act[t], part |-> kind, gated |-> t \notin Direct,
                 pub |-> IF t \in Direct THEN 1 ELSE pubs,
                 saw |-> IF t \in Direct THEN 0 ELSE saw,
                 late |-> broken, audited |-> audited]
<1>1. events' = Append(events, r) /\ events \in Seq(Record)
  BY DEF Extend, IInv, TypeOK
<1>2. /\ Len(events) \in Nat /\ Len(events') = Len(events) + 1
      /\ \A i \in 1 .. Len(events) : events'[i] = events[i]
      /\ events'[Len(events) + 1] = r
  BY <1>1
<1>3. /\ r.by = t /\ r.act = act[t] /\ r.pub = PubOf(t) /\ r.part = kind
      /\ r.late = broken /\ r.audited = audited
  BY DEF PubOf
<1> HIDE DEF r
<1> QED
  BY <1>2, <1>3

(* Appending to the log changes nothing about what is already filed.        *)
LEMMA PendingGrows ==
  ASSUME IInv, PendingOK, NEW u \in Threads, pending'[u] = pending[u],
         broken => broken',
         \A i \in 1 .. Len(events) : events'[i] = events[i]
  PROVE  Whole(events', pending'[u]) /\ (Timely(events', pending'[u]) \/ broken')
<1>1. /\ \A i \in 1 .. Len(pending[u]) : events'[pending[u][i]] = events[pending[u][i]]
      /\ Len(pending[u]) \in Nat
  BY SMTT(30) DEF IInv, TypeOK, PositionsOK
<1> QED
  BY <1>1, ListKept DEF PendingOK

(* Filing a submission keeps the thread's list whole and, or the store is   *)
(* poisoned, timely.                                                       *)
LEMMA PendingAppends ==
  ASSUME IInv, PendingOK, NEW u \in Threads, NEW n \in Nat,
         pending'[u] = Append(pending[u], n), broken => broken',
         \A i \in 1 .. Len(events) : events'[i] = events[i],
         events'[n].audited => Mirrored(events, pending[u], events'[n]),
         events'[n].late => broken'
  PROVE  Whole(events', pending'[u]) /\ (Timely(events', pending'[u]) \/ broken')
<1>1. \A i \in 1 .. Len(pending[u]) : events'[pending[u][i]] = events[pending[u][i]]
  BY DEF IInv, PositionsOK
<1>2. pending[u] \in Seq(Nat)
  BY DEF IInv, TypeOK
<1> QED
  BY <1>1, <1>2, ListAppended DEF PendingOK

(* A record is written: it is its thread's, and its mirrors are to come.    *)
LEMMA WriteWhole ==
  ASSUME IInv, GateOK, PublishOK, PendingOK, NEW t \in Threads, Write(t)
  PROVE  GateOK' /\ PublishOK' /\ PendingOK'
<1>1. PICK audited \in BOOLEAN :
        /\ Extend(t, "main", audited)
        /\ pc' = [pc EXCEPT ![t] = IF audited THEN "mirror-a" ELSE "published"]
  BY AuditedAssumption DEF Write, Goto
<1>2. /\ pc[t] = "writing" /\ cur' = Len(events) + 1
      /\ UNCHANGED <<pending, region, pubs, act, broken>>
  BY DEF Write, regionVars, threadVars
<1>3. GateOK'
  BY <1>1, <1>2, GateFrame DEF Regional, Publishing
<1>4. PendingOK'
  BY <1>1, <1>2, ExtendRecord, PendingGrows DEF PendingOK, Parts
<1>5. /\ events'[cur'].by = t /\ events'[cur'].act = act[t] /\ events'[cur'].pub = PubOf(t)
      /\ events'[cur'].late = broken /\ events'[cur'].audited = audited
  BY <1>1, <1>2, ExtendRecord DEF Parts
<1>6. /\ pc'[t] = IF audited THEN "mirror-a" ELSE "published"
      /\ \A u \in Threads \ {t} : pc'[u] = pc[u]
  BY <1>1 DEF IInv, TypeOK
<1>7. \A u \in Threads \ {t} : ~UnderWay(u)'
  BY <1>2, <1>6, OnePublisher DEF UnderWay, Publishing
<1>8. PubOf(t)' = PubOf(t)
  BY <1>2 DEF PubOf
<1>9. PublishOK'
  BY <1>2, <1>5, <1>6, <1>7, <1>8 DEF PublishOK, UnderWay, Publishing
<1> QED
  BY <1>3, <1>4, <1>9

(* A mirror is appended, under its referent's thread, act and publication.  *)
LEMMA MirrorWhole ==
  ASSUME IInv, GateOK, PublishOK, PendingOK, NEW t \in Threads,
         NEW kind, NEW next, Mirror(t, kind, next),
         \/ kind = "mirror-a" /\ next = "mirror-b"
         \/ kind = "mirror-b" /\ next = "published"
  PROVE  GateOK' /\ PublishOK' /\ PendingOK'
<1>1. /\ pc[t] = kind /\ ~broken /\ Extend(t, kind, FALSE)
      /\ pc' = [pc EXCEPT ![t] = next]
      /\ pending' = [pending EXCEPT ![t] = Append(@, Len(events) + 1)]
      /\ UNCHANGED <<region, pubs, act, broken, cur>>
  BY DEF Mirror, Goto, regionVars, writerVars
<1>2. kind \in Parts
  BY DEF Parts
<1>3. /\ Len(events) \in Nat /\ Len(events') = Len(events) + 1
      /\ \A i \in 1 .. Len(events) : events'[i] = events[i]
      /\ events'[Len(events) + 1].by = t
      /\ events'[Len(events) + 1].act = act[t]
      /\ events'[Len(events) + 1].pub = PubOf(t)
      /\ events'[Len(events) + 1].part = kind
      /\ events'[Len(events) + 1].late = broken
      /\ events'[Len(events) + 1].audited = FALSE
  BY <1>1, <1>2, ExtendRecord
<1>4. /\ pc'[t] = next /\ \A u \in Threads \ {t} : pc'[u] = pc[u]
      /\ pending'[t] = Append(pending[t], Len(events) + 1)
      /\ \A u \in Threads \ {t} : pending'[u] = pending[u]
  BY <1>1 DEF IInv, TypeOK
<1>5. GateOK'
  BY <1>1, GateFrame DEF Regional, Publishing
<1>6. PendingOK'
  <2>1. \A u \in Threads \ {t} : Whole(events', pending'[u]) /\ (Timely(events', pending'[u]) \/ broken')
    BY <1>1, <1>3, <1>4, PendingGrows
  <2>2. Len(events) + 1 \in Nat
    BY <1>3
  <2>3. Whole(events', pending'[t]) /\ (Timely(events', pending'[t]) \/ broken')
    BY <1>1, <1>3, <1>4, <2>2, PendingAppends
  <2> QED
    BY <2>1, <2>3 DEF PendingOK
<1>7. \A u \in Threads \ {t} : ~UnderWay(u)'
  <2>1. pc[t] \in Publishing
    BY <1>1 DEF Publishing
  <2> QED
    BY <1>4, <2>1, OnePublisher DEF UnderWay, Publishing
<1>8. UnderWay(t)
  BY <1>1 DEF UnderWay, Publishing
<1>9. events'[cur'] = events[cur]
  BY <1>1, <1>3, <1>8 DEF IInv, PositionsOK, UnderWay
<1>10. /\ events[cur].by = t /\ events[cur].act = act[t] /\ events[cur].pub = PubOf(t)
       /\ ~events[cur].late
       /\ kind = "mirror-b" => Filed(events, pending[t], "mirror-a", events[cur])
  BY <1>1, <1>8 DEF PublishOK
<1>11. /\ Len(pending[t]) \in Nat /\ Len(pending'[t]) = Len(pending[t]) + 1
       /\ \A i \in 1 .. Len(pending[t]) : pending'[t][i] = pending[t][i]
       /\ pending'[t][Len(pending[t]) + 1] = Len(events) + 1
  BY <1>3, <1>4 DEF IInv, TypeOK
<1>12. Filed(events', pending'[t], kind, events[cur])
  <2>1. Len(pending[t]) + 1 \in 1 .. Len(pending'[t])
    BY <1>11
  <2> QED
    BY <1>3, <1>10, <1>11, <2>1 DEF Filed
<1>13. kind = "mirror-b" => Filed(events', pending'[t], "mirror-a", events[cur])
  <2>1. \A i \in 1 .. Len(pending[t]) : events'[pending[t][i]] = events[pending[t][i]]
    BY <1>3 DEF IInv, PositionsOK
  <2>2. Len(pending'[t]) \in Nat /\ Len(pending[t]) <= Len(pending'[t])
    BY <1>11
  <2> QED
    BY <1>10, <1>11, <2>1, <2>2, FiledGrows
<1>14. PubOf(t)' = PubOf(t)
  BY <1>1 DEF PubOf
<1>15. PublishOK'
  BY <1>1, <1>4, <1>7, <1>9, <1>10, <1>12, <1>13, <1>14 DEF PublishOK, UnderWay, Publishing, Mirrored
<1> QED
  BY <1>5, <1>6, <1>15

(* publish() files the record after its mirrors.                            *)
LEMMA PublishedWhole ==
  ASSUME IInv, GateOK, PublishOK, PendingOK, NEW t \in Threads, Published(t)
  PROVE  GateOK' /\ PublishOK' /\ PendingOK'
<1>1. PICK phase \in {"awaiting", "deciding"} :
        pc' = [pc EXCEPT ![t] = phase] /\ (phase = "deciding" <=> t \notin Direct)
  BY DEF Published, Goto
<1>2. /\ pc[t] = "published" /\ pending' = [pending EXCEPT ![t] = Append(@, cur)]
      /\ UNCHANGED <<events, region, broken>>
  BY DEF Published, logVars, regionVars
<1>3. GateOK'
  BY <1>1, <1>2, GateFrame DEF Regional, Publishing
<1>4. /\ pending'[t] = Append(pending[t], cur) /\ cur \in Nat
      /\ \A u \in Threads \ {t} : pending'[u] = pending[u]
  BY <1>2 DEF IInv, TypeOK
<1>5. UnderWay(t)
  BY <1>2 DEF UnderWay, Publishing
<1>6. /\ events'[cur].audited => Mirrored(events, pending[t], events'[cur])
      /\ events'[cur].late => broken'
  BY <1>2, <1>5 DEF PublishOK
<1>7. PendingOK'
  <2>1. \A u \in Threads \ {t} : Whole(events', pending'[u]) /\ (Timely(events', pending'[u]) \/ broken')
    BY <1>2, <1>4, PendingGrows
  <2>2. Whole(events', pending'[t]) /\ (Timely(events', pending'[t]) \/ broken')
    BY <1>2, <1>4, <1>6, PendingAppends
  <2> QED
    BY <2>1, <2>2 DEF PendingOK
<1>8. \A u \in Threads : ~UnderWay(u)'
  <2>1. \A u \in Threads \ {t} : ~UnderWay(u)
    BY <1>2, OnePublisher DEF Publishing
  <2>2. \A u \in Threads : pc'[u] = IF u = t THEN phase ELSE pc[u]
    BY <1>1 DEF IInv, TypeOK
  <2> QED
    BY <1>1, <2>1, <2>2 DEF UnderWay, Publishing
<1>9. PublishOK'
  BY <1>8 DEF PublishOK, UnderWay, Publishing
<1> QED
  BY <1>3, <1>7, <1>9

(* Answering empties the thread's list; a crash empties everyone's.         *)
LEMMA EmptyList == ASSUME NEW log PROVE Whole(log, <<>>) /\ Timely(log, <<>>)
  BY DEF Whole, Timely

(* The submitter's step: what is being published and what is filed.         *)
LEMMA NextWhole ==
  ASSUME IInv, GateOK, PublishOK, PendingOK, [Next]_vars
  PROVE  GateOK' /\ PublishOK' /\ PendingOK'
<1> USE DEF Publishing, Regional
<1>1. ASSUME NEW t \in Threads, Step(t) PROVE GateOK' /\ PublishOK' /\ PendingOK'
  <2>1. CASE EnterRegion(t)
    <3>1. /\ t \notin Direct /\ pc' = [pc EXCEPT ![t] = "deciding"] /\ region = None
          /\ region' = t /\ UNCHANGED <<events, pending, cur, broken>>
          /\ act' = [act EXCEPT ![t] = @ + 1]
      BY <2>1 DEF EnterRegion, Goto, logVars, writerVars, threadVars
    <3>2. \A u \in Threads \ {t} : act'[u] = act[u] /\ pc'[u] = pc[u]
      BY <3>1 DEF IInv, TypeOK
    <3>3. \A u \in Threads : u \notin Direct => pc[u] \notin Regional
      BY <3>1, NoneAssumption DEF GateOK
    <3>4. GateOK'
      BY <3>1, <3>2, <3>3 DEF GateOK
    <3>5. \A u \in Threads : UnderWay(u) => u \in Direct
      BY <3>3 DEF UnderWay
    <3> QED
      BY <3>1, <3>2, <3>4, <3>5, LogFrame
  <2>2. CASE AppendDirectly(t)
    <3>1. PICK phase \in {"idle", "locking"} : pc' = [pc EXCEPT ![t] = phase]
      BY <2>2 DEF AppendDirectly, Goto
    <3>2. /\ t \in Direct /\ act' = [act EXCEPT ![t] = @ + 1]
          /\ UNCHANGED <<region, pubs, events, pending, cur, broken>>
      BY <2>2 DEF AppendDirectly, logVars, regionVars, writerVars, threadVars
    <3>3. \A u \in Threads \ {t} : act'[u] = act[u]
      BY <3>2 DEF IInv, TypeOK
    <3> QED
      BY <3>1, <3>2, <3>3, GateFrame, LogFrame
  <2>3. CASE Publish(t)
    <3>1. PICK phase \in {"exiting", "locking"} : pc' = [pc EXCEPT ![t] = phase]
      BY <2>3 DEF Publish, Goto
    <3>2. pc[t] = "deciding" /\ UNCHANGED <<region, act, events, pending, cur, broken>>
      BY <2>3 DEF Publish, logVars, writerVars
    <3>3. t \notin Direct /\ region = t
      BY <3>2 DEF GateOK
    <3>4. \A u \in Threads \ {t} : UnderWay(u) => u \in Direct
      BY <3>3 DEF GateOK, UnderWay
    <3> QED
      BY <3>1, <3>2, <3>3, <3>4, GateFrame, LogFrame
  <2>4. CASE ExitRegion(t)
    <3>1. PICK phase \in {"idle", "awaiting"} : pc' = [pc EXCEPT ![t] = phase]
      BY <2>4 DEF ExitRegion, Goto
    <3>2. pc[t] = "exiting" /\ region' = None /\ UNCHANGED <<act, events, pending, cur, broken>>
      BY <2>4 DEF ExitRegion, logVars, writerVars
    <3>3. t \notin Direct /\ region = t
      BY <3>2 DEF GateOK
    <3>4. \A u \in Threads \ {t} : u \notin Direct => pc[u] \notin Regional
      BY <3>3 DEF GateOK
    <3>5. \A u \in Threads : pc'[u] = IF u = t THEN phase ELSE pc[u]
      BY <3>1 DEF IInv, TypeOK
    <3>6. GateOK'
      BY <3>1, <3>4, <3>5 DEF GateOK
    <3>7. \A u \in Threads \ {t} : UnderWay(u) => u \in Direct
      BY <3>4 DEF UnderWay
    <3> QED
      BY <3>1, <3>2, <3>6, <3>7, LogFrame
  <2>5. CASE Decided(t) \/ AcquireWriteLock(t)
    <3>1. PICK phase \in {"exiting", "writing"} :
            /\ pc' = [pc EXCEPT ![t] = phase] /\ pc[t] \in Regional
            /\ phase = "exiting" => pc[t] = "deciding"
      BY <2>5 DEF Decided, AcquireWriteLock, Goto
    <3>2. UNCHANGED <<region, pubs, act, events, pending, cur, broken>>
      BY <2>5 DEF Decided, AcquireWriteLock, logVars, regionVars, writerVars, threadVars
    <3>3. phase = "exiting" => t \notin Direct
      BY <3>1 DEF GateOK
    <3> QED
      BY <3>1, <3>2, <3>3, GateFrame, LogFrame
  <2>6. CASE Write(t)
    BY <2>6, WriteWhole
  <2>7. CASE MirrorA(t) \/ MirrorB(t)
    BY <2>7, MirrorWhole DEF MirrorA, MirrorB
  <2>8. CASE CountersignRefuses(t) \/ WriteFails(t) \/ ListenerRaises(t)
    <3>1. pc[t] \in Publishing /\ PublishRaises(t) /\ (broken => broken')
      BY <2>8 DEF CountersignRefuses, WriteFails, ListenerRaises
    <3> QED
      BY <3>1, RaiseWhole
  <2>9. CASE Published(t)
    BY <2>9, PublishedWhole
  <2>10. CASE Enqueue(t) \/ TakeRole(t) \/ CloseBatch(t) \/ LeaveRole(t) \/ StartBarrier(t)
              \/ BarrierReturns(t) \/ BarrierFails(t) \/ Release(t)
    <3>1. PICK phase \in Parked : pc' = [pc EXCEPT ![t] = phase]
      BY <2>10 DEF Enqueue, TakeRole, CloseBatch, LeaveRole, StartBarrier, BarrierReturns,
                   BarrierFails, Release, Goto, Parked, Appending
    <3>2. UNCHANGED <<region, pubs, act, events, pending, cur>> /\ (broken => broken')
      BY <2>10 DEF Enqueue, TakeRole, CloseBatch, LeaveRole, StartBarrier, BarrierReturns,
                   BarrierFails, Release, logVars, regionVars, writerVars, threadVars
    <3>3. phase \notin Regional
      BY <3>1 DEF Parked, Appending
    <3> QED
      BY <3>1, <3>2, <3>3, GateFrame, LogFrame
  <2>11. CASE TakeOne(t)
    BY <2>11 DEF TakeOne, logVars, regionVars, writerVars, threadVars, GateOK, PublishOK,
                 PendingOK, UnderWay, PubOf
  <2>12. CASE Answer(t)
    <3>1. /\ pc' = [pc EXCEPT ![t] = "idle"] /\ pc[t] = "waiting"
          /\ pending' = [pending EXCEPT ![t] = <<>>]
          /\ UNCHANGED <<region, pubs, act, events, cur, broken>>
      BY <2>12 DEF Answer, Goto, regionVars, writerVars
    <3>2. GateOK'
      BY <3>1, GateFrame
    <3>3. /\ pending'[t] = <<>> /\ \A u \in Threads \ {t} : pending'[u] = pending[u]
          /\ pc'[t] = "idle" /\ \A u \in Threads \ {t} : pc'[u] = pc[u]
      BY <3>1 DEF IInv, TypeOK
    <3>4. PendingOK'
      BY <3>1, <3>3, EmptyList DEF PendingOK
    <3>5. PublishOK'
      BY <3>1, <3>3 DEF PublishOK, UnderWay, PubOf
    <3> QED
      BY <3>2, <3>4, <3>5
  <2> QED
    BY <1>1, <2>1, <2>2, <2>3, <2>4, <2>5, <2>6, <2>7, <2>8, <2>9, <2>10, <2>11, <2>12
    DEF Step, Deciding, Committing
<1>2. CASE Crash
  <2>1. /\ pc' = [u \in Threads |-> "idle"] /\ pending' = [u \in Threads |-> <<>>]
    BY <1>2 DEF Crash
  <2>2. GateOK' /\ PublishOK'
    BY <2>1 DEF GateOK, PublishOK, UnderWay
  <2>3. PendingOK'
    BY <2>1, EmptyList DEF PendingOK
  <2> QED
    BY <2>2, <2>3
<1>3. CASE Finished \/ UNCHANGED vars
  BY <1>3 DEF Finished, vars, logVars, regionVars, writerVars, threadVars, GateOK, PublishOK,
              PendingOK, UnderWay, PubOf
<1> QED
  BY <1>1, <1>2, <1>3 DEF Next

(* Replies to threads that are not parked, and batches of ones that are,    *)
(* are not about what a deciding thread does.                              *)
LEMMA DeciderTimely ==
  ASSUME IInv, TimelyOK, NEW t \in Threads, pc[t] \notin Parked,
         NEW phase, phase \notin Parked, pc' = [pc EXCEPT ![t] = phase],
         UNCHANGED <<batch, verdict, reply>>,
         \A u \in Threads \ {t} : pending'[u] = pending[u],
         \A i \in 1 .. Len(events) : events'[i] = events[i]
  PROVE  TimelyOK'
<1>1. \A u \in Threads : pc'[u] = IF u = t THEN phase ELSE pc[u]
  BY DEF IInv, TypeOK
<1>2. \A i \in 1 .. Len(batch) : batch[i] \in Threads /\ batch[i] # t
  BY DEF IInv, TypeOK, FlightOK
<1>3. reply[t] = "none"
  BY DEF IInv, FlightOK
<1>4. \A u \in Threads \ {t} : Timely(events, pending[u]) => Timely(events', pending'[u])
  BY DEF IInv, PositionsOK, Timely
<1> QED
  BY <1>1, <1>2, <1>3, <1>4 DEF TimelyOK, Parked, Appending

(* A move of a parked thread that neither starts a barrier nor ends one.    *)
LEMMA ParkedTimely ==
  ASSUME IInv, TimelyOK, NEW t \in Threads, NEW phase, phase \notin {"syncing", "releasing"},
         pc' = [pc EXCEPT ![t] = phase], UNCHANGED <<events, pending, batch, verdict, reply>>
  PROVE  TimelyOK'
<1>1. \A u \in Threads : pc'[u] = IF u = t THEN phase ELSE pc[u]
  BY DEF IInv, TypeOK
<1> QED
  BY <1>1 DEF TimelyOK

(* Only one thread drains.                                                  *)
LEMMA OneAppender ==
  ASSUME IInv, NEW t \in Threads, pc[t] \in Appending
  PROVE  \A u \in Threads \ {t} : pc[u] \notin {"syncing", "releasing"}
  BY DEF IInv, LocksOK, Appending

(* The steps of the appender and of the answered.                           *)
LEMMA CommitTimely ==
  ASSUME IInv, PendingOK, TimelyOK, NEW t \in Threads, Committing(t) PROVE TimelyOK'
<1> USE DEF Goto
<1>1. CASE Enqueue(t) \/ TakeRole(t) \/ CloseBatch(t) \/ LeaveRole(t)
  <2>1. PICK phase \in {"waiting", "draining", "closing"} : pc' = [pc EXCEPT ![t] = phase]
    BY <1>1 DEF Enqueue, TakeRole, CloseBatch, LeaveRole
  <2>2. UNCHANGED <<events, pending, batch, verdict, reply>>
    BY <1>1 DEF Enqueue, TakeRole, CloseBatch, LeaveRole, logVars, appenderVars, threadVars
  <2> QED
    BY <2>1, <2>2, ParkedTimely
<1>2. CASE TakeOne(t)
  <2>1. pc[t] = "draining" /\ UNCHANGED <<pc, events, pending, verdict, reply>>
    BY <1>2 DEF TakeOne, logVars, threadVars
  <2>2. \A u \in Threads : pc[u] \notin {"syncing", "releasing"}
    BY <2>1, OneAppender DEF Appending
  <2> QED
    BY <2>1, <2>2 DEF TimelyOK
<1>3. CASE StartBarrier(t)
  <2>1. /\ pc[t] = "closing" /\ UNCHANGED <<events, pending, batch, reply>>
        /\ \/ pc' = [pc EXCEPT ![t] = "releasing"] /\ verdict' = "failed"
           \/ pc' = [pc EXCEPT ![t] = "syncing"] /\ ~broken
    BY <1>3 DEF StartBarrier, logVars, threadVars
  <2>2. \A u \in Threads \ {t} : pc'[u] = pc[u] /\ pc[u] \notin {"syncing", "releasing"}
    BY <2>1, OneAppender DEF IInv, TypeOK, Appending
  <2>3. \A i \in 1 .. Len(batch) : batch[i] \in Threads
    BY DEF IInv, TypeOK
  <2>4. ~broken => \A i \in 1 .. Len(batch) : Timely(events, pending[batch[i]])
    BY <2>3 DEF PendingOK
  <2>5. CASE pc' = [pc EXCEPT ![t] = "releasing"] /\ verdict' = "failed"
    <3>1. pc'[t] = "releasing"
      BY <2>5 DEF IInv, TypeOK
    <3> QED
      BY <2>1, <2>2, <2>5, <3>1 DEF TimelyOK
  <2>6. CASE pc' = [pc EXCEPT ![t] = "syncing"] /\ ~broken
    <3>1. pc'[t] = "syncing"
      BY <2>6 DEF IInv, TypeOK
    <3> QED
      BY <2>1, <2>2, <2>4, <2>6, <3>1 DEF TimelyOK
  <2> QED
    BY <2>1, <2>5, <2>6
<1>4. CASE BarrierReturns(t) \/ BarrierFails(t)
  <2>1. /\ pc[t] = "syncing" /\ pc' = [pc EXCEPT ![t] = "releasing"]
        /\ UNCHANGED <<events, pending, batch, reply>>
    BY <1>4 DEF BarrierReturns, BarrierFails, logVars, threadVars
  <2>2. \A u \in Threads \ {t} : pc'[u] = pc[u] /\ pc[u] \notin {"syncing", "releasing"}
    BY <2>1, OneAppender DEF IInv, TypeOK, Appending
  <2>3. \A i \in 1 .. Len(batch) : Timely(events, pending[batch[i]])
    BY <2>1 DEF TimelyOK
  <2>4. pc'[t] = "releasing"
    BY <2>1 DEF IInv, TypeOK
  <2> QED
    BY <2>1, <2>2, <2>3, <2>4 DEF TimelyOK
<1>5. CASE Release(t)
  <2>1. /\ pc[t] = "releasing" /\ pc' = [pc EXCEPT ![t] = "draining"]
        /\ reply' = [u \in Threads |-> IF u \in Elements(batch) THEN verdict ELSE reply[u]]
        /\ UNCHANGED <<events, pending>>
    BY <1>5 DEF Release, logVars
  <2>2. \A u \in Threads : pc'[u] \notin {"syncing", "releasing"}
    BY <2>1, OneAppender DEF IInv, TypeOK, Appending
  <2>3. ASSUME NEW u \in Threads, reply'[u] = "ok" PROVE Timely(events, pending[u])
    <3>1. CASE u \in Elements(batch)
      <4>1. verdict = "ok" /\ \E i \in 1 .. Len(batch) : batch[i] = u
        BY <2>1, <2>3, <3>1 DEF Elements
      <4> QED
        BY <2>1, <4>1 DEF TimelyOK
    <3>2. CASE u \notin Elements(batch)
      <4>1. reply[u] = "ok"
        BY <2>1, <2>3, <3>2
      <4> QED
        BY <4>1 DEF TimelyOK
    <3> QED
      BY <3>1, <3>2
  <2> QED
    BY <2>1, <2>2, <2>3 DEF TimelyOK
<1>6. CASE Answer(t)
  <2>1. /\ pc[t] = "waiting" /\ reply[t] # "none" /\ pc' = [pc EXCEPT ![t] = "idle"]
        /\ pending' = [pending EXCEPT ![t] = <<>>] /\ reply' = [reply EXCEPT ![t] = "none"]
        /\ UNCHANGED <<events, batch, verdict>>
    BY <1>6 DEF Answer, appenderVars
  <2>2. \A u \in Threads : /\ pc'[u] = IF u = t THEN "idle" ELSE pc[u]
                           /\ reply'[u] = IF u = t THEN "none" ELSE reply[u]
                           /\ pending'[u] = IF u = t THEN <<>> ELSE pending[u]
    BY <2>1 DEF IInv, TypeOK
  <2>3. \A i \in 1 .. Len(batch) : batch[i] \in Threads /\ batch[i] # t
    BY <2>1 DEF IInv, TypeOK, FlightOK
  <2> QED
    BY <2>1, <2>2, <2>3 DEF TimelyOK
<1> QED
  BY <1>1, <1>2, <1>3, <1>4, <1>5, <1>6 DEF Committing

(* No step releases a success for a late record.                            *)
LEMMA NextTimely ==
  ASSUME IInv, PendingOK, TimelyOK, [Next]_vars PROVE TimelyOK'
<1>1. ASSUME NEW t \in Threads, Deciding(t) PROVE TimelyOK'
  <2>1. /\ pc[t] \notin Parked
        /\ \E phase \in Phases \ Parked : pc' = [pc EXCEPT ![t] = phase]
        /\ UNCHANGED <<batch, verdict, reply>>
    <3> USE DEF Goto, Phases, Parked, Appending, appenderVars, threadVars
    <3>1. CASE EnterRegion(t) \/ AppendDirectly(t) \/ Publish(t) \/ Decided(t)
               \/ AcquireWriteLock(t) \/ Published(t) \/ ExitRegion(t)
      BY <3>1 DEF EnterRegion, AppendDirectly, Publish, Decided, AcquireWriteLock, Published,
                  ExitRegion
    <3>2. CASE CountersignRefuses(t) \/ WriteFails(t) \/ ListenerRaises(t)
      BY <3>2 DEF CountersignRefuses, WriteFails, ListenerRaises, PublishRaises
    <3>3. CASE Write(t) \/ MirrorA(t) \/ MirrorB(t)
      BY <3>3 DEF Write, MirrorA, MirrorB, Mirror
    <3> QED
      BY <1>1, <3>1, <3>2, <3>3 DEF Deciding
  <2>2. /\ \A u \in Threads \ {t} : pending'[u] = pending[u]
        /\ \A i \in 1 .. Len(events) : events'[i] = events[i]
    <3> USE DEF logVars, threadVars
    <3>1. CASE EnterRegion(t) \/ AppendDirectly(t) \/ Publish(t) \/ Decided(t)
               \/ AcquireWriteLock(t) \/ ExitRegion(t)
      BY <3>1 DEF EnterRegion, AppendDirectly, Publish, Decided, AcquireWriteLock, ExitRegion
    <3>2. CASE CountersignRefuses(t) \/ WriteFails(t) \/ ListenerRaises(t)
      BY <3>2 DEF CountersignRefuses, WriteFails, ListenerRaises, PublishRaises
    <3>3. CASE Published(t)
      BY <3>3 DEF Published, IInv, TypeOK
    <3>4. CASE Write(t)
      BY <3>4, ExtendRecord, AuditedAssumption DEF Write, Parts
    <3>5. CASE MirrorA(t) \/ MirrorB(t)
      <4>1. PICK kind \in Parts : Extend(t, kind, FALSE)
        BY <3>5 DEF MirrorA, MirrorB, Mirror, Parts
      <4> QED
        BY <3>5, <4>1, ExtendRecord DEF MirrorA, MirrorB, Mirror, IInv, TypeOK
    <3> QED
      BY <1>1, <3>1, <3>2, <3>3, <3>4, <3>5 DEF Deciding
  <2> QED
    BY <2>1, <2>2, DeciderTimely
<1>2. ASSUME NEW t \in Threads, Committing(t) PROVE TimelyOK'
  BY <1>2, CommitTimely
<1>3. CASE Crash
  BY <1>3 DEF Crash, TimelyOK
<1>4. CASE Finished \/ UNCHANGED vars
  BY <1>4 DEF Finished, vars, logVars, appenderVars, threadVars, TimelyOK
<1> QED
  BY <1>1, <1>2, <1>3, <1>4 DEF Next, Step

(* What was durable stays durable: a step of the abstract log only grows    *)
(* the covered prefix.                                                      *)
LEMMA NextDurable == ASSUME IInv, [Next]_vars PROVE DurableRecords \subseteq DurableRecords'
<1>1. [Log!Next]_(Log!vars)
  BY NextRefines
<1>2. /\ events \in Seq(Record) /\ Len(events) \in Nat /\ durable \in 0 .. Len(events)
      /\ events' \in Seq(Record) /\ Len(events') \in Nat
  <2>1. TypeOK /\ TypeOK' /\ PositionsOK
    BY NextIInv DEF IInv
  <2>2. events \in Seq(Record) /\ events' \in Seq(Record) /\ durable \in 0 .. Len(events)
    BY <2>1 DEF TypeOK, PositionsOK
  <2> QED
    BY <2>2
<1>3. durable' \in Nat /\ durable <= durable' /\ \A i \in 1 .. durable : events'[i] = events[i]
  <2>1. CASE Log!Publish
    <3>1. /\ Len(events') = Len(events) + 1 /\ SubSeq(events', 1, Len(events)) = events
          /\ durable' = durable
      BY <2>1 DEF Log!Publish
    <3>2. \A i \in 1 .. Len(events) : SubSeq(events', 1, Len(events))[i] = events'[i]
      BY <1>2, <3>1, SubSeqFacts
    <3> QED
      BY <1>2, <3>1, <3>2
  <2>2. CASE Log!Sync \/ Log!Acknowledge \/ UNCHANGED Log!vars
    BY <2>2, <1>2 DEF Log!Sync, Log!Acknowledge, Log!vars
  <2>3. CASE Log!Restart
    <3>1. durable' \in durable .. Len(events) /\ events' = SubSeq(events, 1, durable')
      BY <2>3 DEF Log!Restart
    <3>2. durable' \in 0 .. Len(events) /\ durable' \in Nat /\ durable <= durable'
      BY <1>2, <3>1
    <3>3. \A i \in 1 .. durable' : events'[i] = events[i]
      BY <1>2, <3>1, <3>2, SubSeqFacts
    <3> QED
      BY <1>2, <3>2, <3>3
  <2> QED
    BY <1>1, <2>1, <2>2, <2>3 DEF Log!Next
<1>4. \A i \in 1 .. durable : i \in 1 .. durable' /\ events'[i] = events[i]
  BY <1>2, <1>3
<1> QED
  BY <1>4 DEF DurableRecords

(* An answer acknowledges a whole list: the mirrors of its audited records  *)
(* are below the durable mark like the records themselves.                  *)
LEMMA AnswerAcked ==
  ASSUME IInv, PendingOK, TimelyOK, AckedActIsWhole, LateRecordsNeverAcked,
         NEW t \in Threads, Answer(t)
  PROVE  AckedActIsWhole' /\ LateRecordsNeverAcked'
<1>1. UNCHANGED <<events, durable>>
  BY DEF Answer
<1>2. CASE UNCHANGED acked
  BY <1>1, <1>2 DEF AckedActIsWhole, LateRecordsNeverAcked, DurableRecords
<1>3. CASE reply[t] = "ok" /\ acked' = acked \cup {events[i] : i \in Elements(pending[t])}
  <2>1. /\ Whole(events, pending[t]) /\ Timely(events, pending[t]) /\ Below(t, durable)
        /\ \A i \in 1 .. Len(pending[t]) : pending[t][i] \in 1 .. Len(events)
    BY <1>3 DEF PendingOK, TimelyOK, IInv, CoverOK, PositionsOK
  <2>2. durable \in Nat /\ Len(events) \in Nat
    BY DEF IInv, TypeOK
  <2>3. \A i \in 1 .. Len(pending[t]) : events[pending[t][i]] \in DurableRecords
    BY <2>1, <2>2 DEF DurableRecords, Below
  <2>4. \A r \in acked' : r \in acked \/ \E i \in 1 .. Len(pending[t]) : r = events[pending[t][i]]
    BY <1>3 DEF Elements
  <2>5. LateRecordsNeverAcked'
    BY <2>1, <2>4 DEF LateRecordsNeverAcked, Timely
  <2>6. ASSUME NEW r \in acked', r.audited, NEW kind \in {"mirror-a", "mirror-b"}
        PROVE  \E m \in DurableRecords :
                 m.part = kind /\ m.by = r.by /\ m.act = r.act /\ m.pub = r.pub
    <3>1. CASE r \in acked
      BY <2>6, <3>1 DEF AckedActIsWhole
    <3>2. CASE \E i \in 1 .. Len(pending[t]) : r = events[pending[t][i]]
      <4>1. Mirrored(events, pending[t], r)
        BY <2>1, <2>6, <3>2 DEF Whole
      <4>2. Filed(events, pending[t], kind, r)
        BY <4>1, <2>6 DEF Mirrored
      <4>3. PICK j \in 1 .. Len(pending[t]) :
              LET m == events[pending[t][j]]
              IN  m.part = kind /\ m.by = r.by /\ m.act = r.act /\ m.pub = r.pub
        BY <4>2 DEF Filed
      <4> QED
        BY <2>3, <4>3
    <3> QED
      BY <2>4, <3>1, <3>2
  <2>7. DurableRecords' = DurableRecords
    BY <1>1 DEF DurableRecords
  <2>8. AckedActIsWhole'
    BY <2>6, <2>7 DEF AckedActIsWhole
  <2> QED
    BY <2>5, <2>8
<1> QED
  BY <1>2, <1>3 DEF Answer

(* No step leaves an acknowledged record without its mirrors.               *)
LEMMA NextAcked ==
  ASSUME IInv, PendingOK, TimelyOK, AckedActIsWhole, LateRecordsNeverAcked, [Next]_vars
  PROVE  AckedActIsWhole' /\ LateRecordsNeverAcked'
<1>1. CASE UNCHANGED acked
  <2>1. DurableRecords \subseteq DurableRecords'
    BY NextDurable
  <2> QED
    BY <1>1, <2>1 DEF AckedActIsWhole, LateRecordsNeverAcked
<1>2. ASSUME NEW t \in Threads, Answer(t) PROVE AckedActIsWhole' /\ LateRecordsNeverAcked'
  BY <1>2, AnswerAcked
<1>3. UNCHANGED acked \/ \E t \in Threads : Answer(t)
  <2>1. ASSUME NEW t \in Threads, Deciding(t) PROVE UNCHANGED acked
    BY <2>1 DEF Deciding, EnterRegion, AppendDirectly, Publish, Decided, AcquireWriteLock, Write,
                CountersignRefuses, WriteFails, PublishRaises, MirrorA, MirrorB, Mirror,
                ListenerRaises, Published, ExitRegion, logVars
  <2>2. ASSUME NEW t \in Threads, Committing(t) PROVE UNCHANGED acked \/ Answer(t)
    BY <2>2 DEF Committing, Enqueue, TakeRole, TakeOne, CloseBatch, LeaveRole, StartBarrier,
                BarrierReturns, BarrierFails, Release, logVars
  <2>3. Crash \/ Finished \/ UNCHANGED vars => UNCHANGED acked
    BY DEF Crash, Finished, vars, logVars
  <2> QED
    BY <2>1, <2>2, <2>3 DEF Next, Step
<1> QED
  BY <1>1, <1>2, <1>3

(* One wait covers the whole act (commit.py await_pending): an acknowledged *)
(* record that is audited has both of its mirrors on the durable prefix     *)
(* with it, whatever interleaving, batch, failure or crash came between,    *)
(* and no record that slipped in after the poison (store._poison) is ever   *)
(* acknowledged.                                                            *)
THEOREM AckedActsAreWhole ==
  Spec => [](ReplyImpliesDurable /\ AckedActIsWhole /\ LateRecordsNeverAcked)
<1>1. Init => IInv /\ WholeInv
  <2> SUFFICES ASSUME Init PROVE WholeInv
    BY InitIInv
  <2>1. \A t \in Threads : pc[t] = "idle" /\ pending[t] = <<>> /\ reply[t] = "none"
    BY DEF Init
  <2>2. GateOK /\ PublishOK /\ TimelyOK
    BY <2>1 DEF GateOK, PublishOK, TimelyOK, UnderWay, Regional, Publishing
  <2>3. PendingOK
    BY <2>1, EmptyList DEF PendingOK
  <2> QED
    BY <2>2, <2>3 DEF Init, WholeInv, AckedActIsWhole, LateRecordsNeverAcked
<1>2. IInv /\ WholeInv /\ [Next]_vars => IInv' /\ WholeInv'
  BY NextIInv, NextWhole, NextTimely, NextAcked DEF WholeInv
<1>3. IInv /\ WholeInv => ReplyImpliesDurable /\ AckedActIsWhole /\ LateRecordsNeverAcked
  BY DEF IInv, WholeInv
<1> QED
  BY <1>1, <1>2, <1>3, PTL DEF Spec
=============================================================================
