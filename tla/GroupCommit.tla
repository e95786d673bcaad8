----------------------------- MODULE GroupCommit -----------------------------
(***************************************************************************)
(* The write path of the record: deciding threads publish records inside   *)
(* the decide region (kernel/gate.py execute, kernel/store.py              *)
(* _publish_one/_append_one), then leave the region and wait for the one   *)
(* barrier that covers them (kernel/commit.py GroupCommit).                *)
(*                                                                         *)
(* A Submission that was published is represented by its record's seq (its *)
(* position in `events`); one that sits in the queue or in a batch by the  *)
(* thread that waits on it, which waits on one at a time.  Record contents *)
(* are abstracted to who wrote them, in which act and in which role; the   *)
(* draft, the digests and the countersignature are represented only by the *)
(* failures they can cause (Faults).                                       *)
(***************************************************************************)
EXTENDS Naturals, Sequences, FiniteSets

CONSTANTS
  Threads,     \* submitters: threads that execute ops or append directly
  Direct,      \* the threads that call store._append with no region held
  None,        \* "no holder" of a lock
  Width,       \* GroupCommit.width, the batch cap
  Audited,     \* whether an op's action is in the dual-audit-actions pack
  Faults,      \* which steps may fail, a subset of FaultKinds
  MaxActs,     \* bound: acts per thread
  MaxPubs,     \* bound: top-level publications per act (act, sweep overturns)
  MaxCrashes   \* bound: process deaths

FaultKinds == {"countersign", "write", "listener", "barrier", "echo"}

ASSUME NoneAssumption == None \notin Threads
ASSUME DirectAssumption == Direct \subseteq Threads
ASSUME WidthAssumption == Width \in Nat \ {0}
ASSUME FaultsAssumption == Faults \subseteq FaultKinds
ASSUME AuditedAssumption == Audited \subseteq BOOLEAN
ASSUME BoundsAssumption == MaxActs \in Nat /\ MaxPubs \in Nat /\ MaxCrashes \in Nat

VARIABLES
  events,    \* store.events: written, flushed and visible, in seq order
  durable,   \* the prefix of the file an fdatasync has covered
  broken,    \* store._broken: the store is poisoned
  region,    \* holder of the gate's DecideRegion lock
  writer,    \* holder of store._write_lock
  appender,  \* holder of GroupCommit._appender
  queue,     \* GroupCommit._queue: whose submissions wait for a barrier
  batch,     \* the batch the appender is working on
  mark,      \* what the barrier in flight covers: the file at its call
  verdict,   \* what the appender will tell the members of its batch
  pc,        \* where each thread is
  act,       \* number of the act each thread is in (counts its acts)
  saw,       \* the fold the region's act decided on: Len(events) at entry
  pubs,      \* top-level publications of the region's act
  cur,       \* seq of the record the write lock's holder is publishing
  pending,   \* GroupCommit._pending.subs, per thread, in list order
  err,       \* an exception is travelling to this thread's caller
  reply,     \* Submission.done and .error of the one the thread waits on
  acked,     \* records whose durability was reported as a success
  crashes

regionVars   == <<region, saw, pubs>>
writerVars   == <<writer, cur>>
appenderVars == <<appender, batch, mark, verdict>>
logVars      == <<events, durable, acked, crashes>>
threadVars   == <<pending, err, reply>>
vars == <<logVars, broken, regionVars, writerVars, appenderVars, queue, pc, act, threadVars>>

Parts == {"main", "mirror-a", "mirror-b"}

Record == [by : Threads, act : Nat, pub : Nat, part : Parts,
           saw : Nat, gated : BOOLEAN, late : BOOLEAN, audited : BOOLEAN]

Phases == {"idle", "deciding", "locking", "writing", "mirror-a", "mirror-b",
           "published", "exiting", "awaiting", "waiting", "draining",
           "closing", "syncing", "releasing"}

Elements(s) == {s[i] : i \in 1 .. Len(s)}

-----------------------------------------------------------------------------
Init ==
  /\ events = <<>> /\ durable = 0 /\ acked = {} /\ crashes = 0
  /\ broken = FALSE
  /\ region = None /\ saw = 0 /\ pubs = 0
  /\ writer = None /\ cur = 0
  /\ appender = None /\ batch = <<>> /\ mark = 0 /\ verdict = "none"
  /\ queue = <<>>
  /\ pc      = [t \in Threads |-> "idle"]
  /\ act     = [t \in Threads |-> 0]
  /\ pending = [t \in Threads |-> <<>>]
  /\ err     = [t \in Threads |-> FALSE]
  /\ reply   = [t \in Threads |-> "none"]

Goto(t, phase) == pc' = [pc EXCEPT ![t] = phase]

-----------------------------------------------------------------------------
(* The deciding thread: Gate.execute and Store._publish *)

(* Mutant: a region that excludes nobody. *)
EnterRegionUnlocked(t) ==
  /\ pc[t] = "idle" /\ t \notin Direct /\ act[t] < MaxActs
  /\ region' = t /\ saw' = Len(events) /\ pubs' = 0
  /\ act' = [act EXCEPT ![t] = @ + 1]
  /\ Goto(t, "deciding")
  /\ UNCHANGED <<logVars, broken, writerVars, appenderVars, queue, threadVars>>

(* Gate.execute: the outermost entry takes the region; the decide that     *)
(* follows reads the folds over `events` as they are now.                  *)
EnterRegion(t) ==
  /\ pc[t] = "idle" /\ t \notin Direct /\ act[t] < MaxActs
  /\ region = None
  /\ region' = t /\ saw' = Len(events) /\ pubs' = 0
  /\ act' = [act EXCEPT ![t] = @ + 1]
  /\ Goto(t, "deciding")
  /\ UNCHANGED <<logVars, broken, writerVars, appenderVars, queue, threadVars>>

(* Store._append by a caller that holds no region (boot, the observe seam).*)
(* The poison check is taken before the write lock.                        *)
AppendDirectly(t) ==
  /\ pc[t] = "idle" /\ t \in Direct /\ act[t] < MaxActs
  /\ act' = [act EXCEPT ![t] = @ + 1]
  /\ Goto(t, IF broken THEN "idle" ELSE "locking")
  /\ UNCHANGED <<logVars, broken, regionVars, writerVars, appenderVars, queue, threadVars>>

(* Inside the region the act writes its one record - a permit, a refusal   *)
(* (Gate.refuse) or an effect failure - and a sweep writes its overturns.  *)
(* _publish_one reads _broken with no lock held.                           *)
Publish(t) ==
  /\ pc[t] = "deciding" /\ pubs < MaxPubs
  /\ pubs' = pubs + 1
  /\ err' = [err EXCEPT ![t] = broken]
  /\ Goto(t, IF broken THEN "exiting" ELSE "locking")
  /\ UNCHANGED <<logVars, broken, region, saw, writerVars, appenderVars, queue, act,
                 pending, reply>>

(* The act appends nothing more (a read-only op appends nothing at all).   *)
Decided(t) ==
  /\ pc[t] = "deciding"
  /\ Goto(t, "exiting")
  /\ UNCHANGED <<logVars, broken, regionVars, writerVars, appenderVars, queue, act, threadVars>>

AcquireWriteLock(t) ==
  /\ pc[t] = "locking" /\ writer = None
  /\ writer' = t
  /\ Goto(t, "writing")
  /\ UNCHANGED <<logVars, broken, regionVars, cur, appenderVars, queue, act, threadVars>>

(* _append_one: the record takes the next seq, is written, flushed and     *)
(* made visible, before any barrier.                                       *)
Extend(t, part, audited) ==
  events' = Append(events,
              [by |-> t, act |-> act[t], part |-> part, gated |-> t \notin Direct,
               pub |-> IF t \in Direct THEN 1 ELSE pubs,
               saw |-> IF t \in Direct THEN 0 ELSE saw,
               late |-> broken, audited |-> audited])

(* An exception inside _append_one (its own, or a listener's) becomes      *)
(* sub.error: the lock is released, publish() raises it, and the           *)
(* submission never joins the thread's pending list.  A direct caller's    *)
(* _append does not reach its await; a gated one leaves through execute's  *)
(* finally clause.                                                         *)
PublishRaises(t) ==
  /\ writer' = None /\ cur' = 0
  /\ err' = [err EXCEPT ![t] = t \notin Direct]
  /\ Goto(t, IF t \in Direct THEN "idle" ELSE "exiting")
  /\ UNCHANGED <<logVars, regionVars, appenderVars, queue, act, pending, reply>>

Write(t) ==
  /\ pc[t] = "writing"
  /\ \E audited \in Audited :
       /\ Extend(t, "main", audited)
       /\ Goto(t, IF audited THEN "mirror-a" ELSE "published")
  /\ cur' = Len(events) + 1
  /\ UNCHANGED <<durable, acked, crashes, broken, regionVars, writer, appenderVars, queue, act,
                 threadVars>>

(* Mutant: the mirrors swallow the refusal, as if a listener's failure     *)
(* spared the primary path.                                                *)
CountersignRefusalSwallowed(t) ==
  /\ "countersign" \in Faults
  /\ pc[t] \in {"mirror-a", "mirror-b"}
  /\ Goto(t, "published")
  /\ UNCHANGED <<logVars, broken, regionVars, writerVars, appenderVars, queue, act, threadVars>>

(* The countersign hook refuses before the write: nothing lands.           *)
CountersignRefuses(t) ==
  /\ "countersign" \in Faults
  /\ pc[t] \in {"writing", "mirror-a", "mirror-b"}
  /\ PublishRaises(t)
  /\ UNCHANGED broken

(* write or flush fails: _poison, before the record is visible.            *)
WriteFails(t) ==
  /\ "write" \in Faults
  /\ pc[t] \in {"writing", "mirror-a", "mirror-b"}
  /\ PublishRaises(t)
  /\ broken' = TRUE

(* The two audit listeners append from inside the publish, under the same  *)
(* re-entrant lock: their submissions join the pending list first, and     *)
(* their own await is a no-op (publishing_here).                           *)
Mirror(t, part, next) ==
  /\ pc[t] = part
  /\ ~broken
  /\ Extend(t, part, FALSE)
  /\ pending' = [pending EXCEPT ![t] = Append(@, Len(events) + 1)]
  /\ Goto(t, next)
  /\ UNCHANGED <<durable, acked, crashes, broken, regionVars, writerVars, appenderVars, queue,
                 act, err, reply>>

MirrorA(t) == Mirror(t, "mirror-a", "mirror-b")
MirrorB(t) == Mirror(t, "mirror-b", "published")

(* A listener raises: the mirrors' own nested publish on a poisoned store, *)
(* or any other listener on its own account.                               *)
ListenerRaises(t) ==
  /\ \/ pc[t] \in {"mirror-a", "mirror-b"} /\ broken
     \/ pc[t] \in {"mirror-a", "mirror-b", "published"} /\ "listener" \in Faults
  /\ PublishRaises(t)
  /\ UNCHANGED broken

(* _publish_one returns, the write lock is released and publish() files    *)
(* the submission - after the ones its listeners filed.                    *)
Published(t) ==
  /\ pc[t] = "published"
  /\ writer' = None /\ cur' = 0
  /\ pending' = [pending EXCEPT ![t] = Append(@, cur)]
  /\ Goto(t, IF t \in Direct THEN "awaiting" ELSE "deciding")
  /\ UNCHANGED <<logVars, broken, regionVars, appenderVars, queue, act, err, reply>>

(* The finally clause of execute: the region ends first, the durability    *)
(* wait follows, and only if this thread published something.              *)
ExitRegion(t) ==
  /\ pc[t] = "exiting"
  /\ region' = None /\ saw' = 0 /\ pubs' = 0
  /\ IF pending[t] = <<>>
       THEN Goto(t, "idle") /\ err' = [err EXCEPT ![t] = FALSE]
       ELSE Goto(t, "awaiting") /\ UNCHANGED err
  /\ UNCHANGED <<logVars, broken, writerVars, appenderVars, queue, act, pending, reply>>

-----------------------------------------------------------------------------
(* GroupCommit.await_pending, _drain, _take_batch, _commit *)

(* One submission - the last of the pending list - stands for everything   *)
(* the thread published.                                                   *)
Enqueue(t) ==
  /\ pc[t] = "awaiting"
  /\ queue' = Append(queue, t)
  /\ Goto(t, "waiting")
  /\ UNCHANGED <<logVars, broken, regionVars, writerVars, appenderVars, act, threadVars>>

(* A waiter whose reply is not there tries the appender role; if it is     *)
(* taken it waits for its event or FOLLOWER_POLL_S and tries again.        *)
TakeRole(t) ==
  /\ pc[t] = "waiting" /\ reply[t] = "none" /\ appender = None
  /\ appender' = t
  /\ Goto(t, "draining")
  /\ UNCHANGED <<logVars, broken, regionVars, writerVars, batch, mark, verdict, queue, act,
                 threadVars>>

(* Mutant: the batch has no width. *)
TakeOneUncapped(t) ==
  /\ pc[t] = "draining" /\ queue # <<>>
  /\ batch' = Append(batch, Head(queue))
  /\ queue' = Tail(queue)
  /\ UNCHANGED <<logVars, broken, regionVars, writerVars, appender, mark, verdict, pc, act,
                 threadVars>>

(* Mutant: the newest submission first. *)
TakeNewest(t) ==
  /\ pc[t] = "draining" /\ queue # <<>> /\ Len(batch) < Width
  /\ batch' = Append(batch, queue[Len(queue)])
  /\ queue' = SubSeq(queue, 1, Len(queue) - 1)
  /\ UNCHANGED <<logVars, broken, regionVars, writerVars, appender, mark, verdict, pc, act,
                 threadVars>>

(* _take_batch pops one submission at a time while the batch is narrower   *)
(* than the width, and closes on an empty queue or a full batch.  The      *)
(* window's deadline is consulted only when the queue is empty, where the  *)
(* batch closes anyway.                                                    *)
TakeOne(t) ==
  /\ pc[t] = "draining" /\ queue # <<>> /\ Len(batch) < Width
  /\ batch' = Append(batch, Head(queue))
  /\ queue' = Tail(queue)
  /\ UNCHANGED <<logVars, broken, regionVars, writerVars, appender, mark, verdict, pc, act,
                 threadVars>>

CloseBatch(t) ==
  /\ pc[t] = "draining" /\ batch # <<>>
  /\ queue = <<>> \/ Len(batch) >= Width
  /\ Goto(t, "closing")
  /\ UNCHANGED <<logVars, broken, regionVars, writerVars, appenderVars, queue, act, threadVars>>

(* An empty queue and no batch: _drain returns and the role is released.   *)
LeaveRole(t) ==
  /\ pc[t] = "draining" /\ batch = <<>> /\ queue = <<>>
  /\ appender' = None
  /\ Goto(t, "waiting")
  /\ UNCHANGED <<logVars, broken, regionVars, writerVars, batch, mark, verdict, queue, act,
                 threadVars>>

(* _commit_batch refuses on a poisoned store and with the region held;     *)
(* otherwise the fdatasync starts and will cover what is written now.      *)
StartBarrier(t) ==
  /\ pc[t] = "closing"
  /\ IF broken \/ region = t
       THEN Goto(t, "releasing") /\ verdict' = "failed" /\ UNCHANGED mark
       ELSE Goto(t, "syncing") /\ mark' = Len(events) /\ UNCHANGED verdict
  /\ UNCHANGED <<logVars, broken, regionVars, writerVars, appender, batch, queue, act,
                 threadVars>>

BarrierReturns(t) ==
  /\ pc[t] = "syncing"
  /\ durable' = IF mark > durable THEN mark ELSE durable
  /\ verdict' = "ok"
  /\ Goto(t, "releasing")
  /\ UNCHANGED <<events, acked, crashes, broken, regionVars, writerVars, appender, batch, mark,
                 queue, act, threadVars>>

(* Mutant: the async-ack trap - a failed sync still releases successes.    *)
BarrierFailsSilently(t) ==
  /\ "barrier" \in Faults
  /\ pc[t] = "syncing"
  /\ broken' = TRUE
  /\ verdict' = "ok"
  /\ Goto(t, "releasing")
  /\ UNCHANGED <<logVars, regionVars, writerVars, appender, batch, mark, queue, act, threadVars>>

BarrierFails(t) ==
  /\ "barrier" \in Faults
  /\ pc[t] = "syncing"
  /\ broken' = TRUE
  /\ verdict' = "failed"
  /\ Goto(t, "releasing")
  /\ UNCHANGED <<logVars, regionVars, writerVars, appender, batch, mark, queue, act, threadVars>>

(* The finally clause of _commit sets the done event of every member.      *)
Release(t) ==
  /\ pc[t] = "releasing"
  /\ reply' = [u \in Threads |->
                 IF u \in Elements(batch) THEN verdict ELSE reply[u]]
  /\ batch' = <<>> /\ mark' = 0 /\ verdict' = "none"
  /\ Goto(t, "draining")
  /\ UNCHANGED <<logVars, broken, regionVars, writerVars, appender, queue, act, pending, err>>

(* Mutant: the waiter does not look at its submission's error. *)
AnswerIgnoringError(t) ==
  /\ pc[t] = "waiting" /\ reply[t] # "none"
  /\ acked' = acked \cup {events[i] : i \in Elements(pending[t])}
  /\ pending' = [pending EXCEPT ![t] = <<>>]
  /\ reply' = [reply EXCEPT ![t] = "none"]
  /\ err' = [err EXCEPT ![t] = FALSE]
  /\ Goto(t, "idle")
  /\ UNCHANGED <<events, durable, crashes, broken, regionVars, writerVars, appenderVars, queue,
                 act>>

(* The caller gets its answer: the travelling exception, BatchFailed, an   *)
(* EchoMismatch, or the success of everything it published.                *)
Answer(t) ==
  /\ pc[t] = "waiting" /\ reply[t] # "none"
  /\ \/ /\ reply[t] = "ok" /\ ~err[t]
        /\ acked' = acked \cup {events[i] : i \in Elements(pending[t])}
     \/ /\ reply[t] = "failed" \/ err[t] \/ "echo" \in Faults
        /\ UNCHANGED acked
  /\ pending' = [pending EXCEPT ![t] = <<>>]
  /\ reply' = [reply EXCEPT ![t] = "none"]
  /\ err' = [err EXCEPT ![t] = FALSE]
  /\ Goto(t, "idle")
  /\ UNCHANGED <<events, durable, crashes, broken, regionVars, writerVars, appenderVars, queue,
                 act>>

-----------------------------------------------------------------------------
(* The process dies.  The file keeps at least the durable prefix and any   *)
(* further whole lines the kernel had written out; the queue, the locks,   *)
(* the pending lists and the poison are process-local and are gone.        *)
Crash ==
  /\ crashes < MaxCrashes
  /\ crashes' = crashes + 1
  /\ durable' \in durable .. Len(events)
  /\ events' = SubSeq(events, 1, durable')
  /\ broken' = FALSE
  /\ region' = None /\ saw' = 0 /\ pubs' = 0
  /\ writer' = None /\ cur' = 0
  /\ appender' = None /\ batch' = <<>> /\ mark' = 0 /\ verdict' = "none"
  /\ queue' = <<>>
  /\ pc'      = [t \in Threads |-> "idle"]
  /\ pending' = [t \in Threads |-> <<>>]
  /\ err'     = [t \in Threads |-> FALSE]
  /\ reply'   = [t \in Threads |-> "none"]
  /\ UNCHANGED <<act, acked>>

(* Every thread has done its bounded share of acts. *)
Finished ==
  /\ \A t \in Threads : pc[t] = "idle" /\ act[t] = MaxActs
  /\ UNCHANGED vars

Deciding(t) ==
  \/ EnterRegion(t) \/ AppendDirectly(t) \/ Publish(t) \/ Decided(t)
  \/ AcquireWriteLock(t) \/ Write(t) \/ CountersignRefuses(t) \/ WriteFails(t)
  \/ MirrorA(t) \/ MirrorB(t) \/ ListenerRaises(t) \/ Published(t) \/ ExitRegion(t)

Committing(t) ==
  \/ Enqueue(t) \/ TakeRole(t) \/ TakeOne(t) \/ CloseBatch(t) \/ LeaveRole(t)
  \/ StartBarrier(t) \/ BarrierReturns(t) \/ BarrierFails(t) \/ Release(t) \/ Answer(t)

Step(t) == Deciding(t) \/ Committing(t)

Next == (\E t \in Threads : Step(t)) \/ Crash \/ Finished

Spec == Init /\ [][Next]_vars

(* The host schedules every thread and every system call returns.  A crash *)
(* is not promised.                                                        *)
FairSpec == Spec /\ \A t \in Threads : WF_vars(Step(t))

-----------------------------------------------------------------------------
(* Properties *)

(* Every variable has its type, and no batch outgrows GroupCommit.width    *)
(* (_take_batch).                                                          *)
TypeOK ==
  /\ events \in Seq(Record)
  /\ durable \in Nat /\ mark \in Nat /\ crashes \in Nat
  /\ broken \in BOOLEAN
  /\ region \in Threads \cup {None}
  /\ writer \in Threads \cup {None}
  /\ appender \in Threads \cup {None}
  /\ queue \in Seq(Threads) /\ batch \in Seq(Threads) /\ Len(batch) <= Width
  /\ verdict \in {"none", "ok", "failed"}
  /\ pc \in [Threads -> Phases]
  /\ act \in [Threads -> Nat]
  /\ saw \in Nat /\ pubs \in Nat /\ cur \in Nat
  /\ pending \in [Threads -> Seq(Nat)]
  /\ err \in [Threads -> BOOLEAN]
  /\ reply \in [Threads -> {"none", "ok", "failed"}]
  /\ acked \subseteq Record

DurableRecords == {events[i] : i \in 1 .. durable}

(* Invariant 1 of group commit (commit.py _commit): no success reaches a   *)
(* caller before the sync covering its record, and no later crash takes    *)
(* the record back - through batching, nested appends, failed barriers and *)
(* restarts.                                                               *)
ReplyImpliesDurable == acked \subseteq DurableRecords

(* One wait covers the whole act (await_pending): it waits only on the     *)
(* last submission of the list, which the listeners' own records follow in *)
(* the file.  When an audited record is acknowledged, both of its audit    *)
(* mirrors are durable with it.                                            *)
AckedActIsWhole ==
  \A r \in acked : r.audited =>
    \A part \in {"mirror-a", "mirror-b"} :
      \E m \in DurableRecords :
        m.part = part /\ m.by = r.by /\ m.act = r.act /\ m.pub = r.pub

(* The decide region's purpose (_publish, "act N+1's decide reads a fold   *)
(* that CONTAINS act N"): every gated act decided on exactly the prefix    *)
(* its first record extends, so no two decides read the same world.        *)
DecidesOnItsPrefix ==
  \A i \in 1 .. Len(events) :
    events[i].gated /\ events[i].part = "main" /\ events[i].pub = 1
      => events[i].saw = i - 1

(* _poison: the store refuses to go on "with a durability claim it cannot  *)
(* make".  A record that slipped in after the poison (_publish_one reads   *)
(* _broken before it takes the write lock) is never acknowledged.          *)
LateRecordsNeverAcked == \A r \in acked : ~r.late

(* RegionHeldAtBarrier (store._commit_batch) is never raised: the thread   *)
(* that issues the barrier has left the decide region, also when it drains *)
(* the submissions of others.                                              *)
NoRegionAtBarrier ==
  \A t \in Threads : pc[t] \in {"closing", "syncing"} => region # t

(* The decide region does its work: acts decide one after another, each on  *)
(* the whole record before it, and nobody holds the region through a disk  *)
(* barrier.                                                                *)
DecidesAreSerial == DecidesOnItsPrefix /\ NoRegionAtBarrier

(* Every path out of _commit releases every reply, and the follower's poll *)
(* closes the race with a leader that has just found the queue empty: who  *)
(* waits for its submission is told, or the process dies - also when       *)
(* others go on submitting for ever.                                       *)
EveryWaitIsTold ==
  \A t \in Threads : (pc[t] = "awaiting") ~> (pc[t] = "idle" \/ reply[t] # "none")

(* A leader whose own reply is set goes on draining while others submit    *)
(* (_drain): its act ends only because they pause.                         *)
Pause == <>[][\A t \in Threads : pc[t] = "idle" => pc'[t] = "idle"]_vars

(* Once no act begins any more, every act that began ends: nobody is left  *)
(* holding the region, the write lock or the appender's role.              *)
EveryActEnds == Pause => <>[](\A t \in Threads : pc[t] = "idle")

(* Both: who waits for a submission is told whatever the others do, and     *)
(* once they pause every act ends (await_pending, _drain).                  *)
CallersAreServed == EveryWaitIsTold /\ EveryActEnds

(* The write path implements the abstract record log. *)
Log == INSTANCE RecordLog WITH log <- events
ImplementsRecordLog == Log!Spec
=============================================================================
