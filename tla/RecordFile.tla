------------------------------ MODULE RecordFile ------------------------------
(***************************************************************************)
(* The record file and its single-writer lock over the life of several     *)
(* stores (kernel/store.py EventStore.__init__, _acquire_lock,             *)
(* _release_lock, _require_fh, close; bridge/host_seam.py lock_write,      *)
(* lock_read, lock_unlink).                                                *)
(*                                                                         *)
(* The file is a sequence of newline-terminated lines and possibly an      *)
(* unterminated tail.  The lock is a path that names an inode; the OS lock *)
(* is on the inode and belongs to a process, which loses it when it closes *)
(* any descriptor on that inode.  The barrier and the batches are          *)
(* GroupCommit's subject: here a store writes and syncs one record at a    *)
(* time.  Stores of one process open one after the other.                  *)
(***************************************************************************)
EXTENDS Naturals, Sequences, FiniteSets

CONSTANTS
  Stores,     \* EventStore objects opened with lock=True over one record
  Procs,      \* operating system processes, named by their pid
  ProcOf,     \* the process each store lives in
  Closers,    \* stores whose owner calls close(); the others run until killed
  None,       \* no inode, no process, no store, no bytes
  Bad,        \* a newline-terminated line that does not parse
  Faults,     \* what may happen to the writes, a subset of FaultKinds
  MaxInodes,  \* bound: lock files created
  MaxRecords, \* bound: records minted
  MaxDeaths   \* bound: processes killed and power cuts

FaultKinds == {"torn", "failed", "power"}

ASSUME ProcAssumption == ProcOf \in [Stores -> Procs]
ASSUME ClosersAssumption == Closers \subseteq Stores
ASSUME NoneAssumption == None \notin Stores \cup Procs \cup Nat
ASSUME FaultsAssumption == Faults \subseteq FaultKinds
ASSUME BoundsAssumption == MaxInodes \in Nat /\ MaxRecords \in Nat /\ MaxDeaths \in Nat

VARIABLES
  lines,    \* the newline-terminated lines of the record file
  tail,     \* the record whose bytes follow the last newline, Bad if the bytes
            \* of two records do, or None
  sidecar,  \* what <record>.incomplete-tail holds
  synced,   \* how many lines a barrier has covered
  path,     \* the inode the lock path names
  pidIn,    \* per inode, the pid written in it
  owner,    \* per inode, the process that holds its POSIX lock
  inodes,   \* number of lock files created so far
  alive,    \* the processes that run
  live,     \* per process, _live_writers for this record
  st,       \* where each store is
  fd,       \* the lock inode each store has open
  mem,      \* store.events
  buf,      \* the record a failed flush left in the file object's buffer
  minted,   \* number of records minted so far
  acked,    \* records whose append returned
  deaths

fileVars == <<lines, tail, sidecar, synced>>
lockVars == <<path, pidIn, owner, inodes>>
procVars == <<alive, live, deaths>>
logVars  == <<mem, buf, minted, acked>>
vars == <<fileVars, lockVars, procVars, st, fd, logVars>>

Inodes == 1 .. MaxInodes
Record == [id : 1 .. MaxRecords, seq : Nat, by : Stores]

Phases == {"closed", "looking", "checked", "opening", "stamping", "loading", "rereading",
           "writer", "written", "broken", "reader", "failed", "unlinking"}

(* The phases in which a store believes the writer role is its own. *)
Writing == {"writer", "written"}

Elements(s) == {s[i] : i \in 1 .. Len(s)}

Init ==
  /\ lines = <<>> /\ tail = None /\ sidecar = None /\ synced = 0
  /\ path = None /\ inodes = 0
  /\ pidIn = [i \in Inodes |-> None] /\ owner = [i \in Inodes |-> None]
  /\ alive = Procs /\ live = [p \in Procs |-> None] /\ deaths = 0
  /\ st = [s \in Stores |-> "closed"] /\ fd = [s \in Stores |-> None]
  /\ mem = [s \in Stores |-> <<>>] /\ buf = [s \in Stores |-> None]
  /\ minted = 0 /\ acked = {}

Goto(s, phase) == st' = [st EXCEPT ![s] = phase]

(* Nobody else of the same process is in the middle of an open. *)
OpensAlone(s) ==
  \A o \in Stores : ProcOf[o] = ProcOf[s] /\ o # s =>
    st[o] \in {"closed", "writer", "written", "broken", "reader", "failed"}

(* Closing a descriptor on inode i drops the POSIX lock p has on it. *)
Dropped(i, p) == [j \in Inodes |-> IF j = i /\ owner[j] = p THEN None ELSE owner[j]]

-----------------------------------------------------------------------------
(* Opening: _acquire_lock *)

LookForLock(s) ==
  /\ st[s] = "closed" /\ ProcOf[s] \in alive /\ OpensAlone(s)
  /\ Goto(s, IF path = None THEN "checked" ELSE "looking")
  /\ UNCHANGED <<fileVars, lockVars, procVars, fd, logVars>>

(* lock_read and the pid check: a live foreign pid refuses the open; an    *)
(* empty file reads as pid -1.  Reading closes a descriptor on the inode.  *)
(* The file may have been unlinked since, and then the read raises.        *)
ReadLock(s) ==
  /\ st[s] = "looking"
  /\ IF path = None
       THEN Goto(s, "closed") /\ UNCHANGED owner
       ELSE /\ owner' = Dropped(path, ProcOf[s])
            /\ Goto(s, IF pidIn[path] \in alive \ {ProcOf[s]} THEN "closed" ELSE "checked")
  /\ UNCHANGED <<fileVars, path, pidIn, inodes, procVars, fd, logVars>>

(* A live writer of this process holds the record: the store is a reader   *)
(* for its life, with no lock.                                             *)
Demote(s) ==
  /\ st[s] = "checked" /\ live[ProcOf[s]] # None
  /\ Goto(s, "rereading")
  /\ UNCHANGED <<fileVars, lockVars, procVars, fd, logVars>>

(* Mutant: the register of live writers is not looked at; the lock of the  *)
(* operating system keeps no two stores of one process apart.              *)
OpenLockUnregistered(s) ==
  /\ st[s] = "checked"
  /\ IF path = None
       THEN /\ inodes < MaxInodes
            /\ inodes' = inodes + 1 /\ path' = inodes + 1
            /\ fd' = [fd EXCEPT ![s] = inodes + 1]
       ELSE /\ fd' = [fd EXCEPT ![s] = path] /\ UNCHANGED <<path, inodes>>
  /\ Goto(s, "opening")
  /\ UNCHANGED <<fileVars, pidIn, owner, procVars, logVars>>

(* lock_write: os.open with O_CREAT. *)
OpenLock(s) ==
  /\ st[s] = "checked" /\ live[ProcOf[s]] = None
  /\ IF path = None
       THEN /\ inodes < MaxInodes
            /\ inodes' = inodes + 1 /\ path' = inodes + 1
            /\ fd' = [fd EXCEPT ![s] = inodes + 1]
       ELSE /\ fd' = [fd EXCEPT ![s] = path] /\ UNCHANGED <<path, inodes>>
  /\ Goto(s, "opening")
  /\ UNCHANGED <<fileVars, pidIn, owner, procVars, logVars>>

(* lock_write: lockf, non-blocking, then the truncate.  A refused lock     *)
(* closes the descriptor and the open raises.                              *)
TakeLock(s) ==
  /\ st[s] = "opening"
  /\ IF owner[fd[s]] \in {None, ProcOf[s]}
       THEN /\ owner' = [owner EXCEPT ![fd[s]] = ProcOf[s]]
            /\ pidIn' = [pidIn EXCEPT ![fd[s]] = None]
            /\ Goto(s, "stamping") /\ UNCHANGED fd
       ELSE Goto(s, "closed") /\ fd' = [fd EXCEPT ![s] = None] /\ UNCHANGED <<owner, pidIn>>
  /\ UNCHANGED <<fileVars, path, inodes, procVars, logVars>>

(* lock_write stamps the pid and the store registers as the live writer.   *)
Stamp(s) ==
  /\ st[s] = "stamping"
  /\ pidIn' = [pidIn EXCEPT ![fd[s]] = ProcOf[s]]
  /\ live' = [live EXCEPT ![ProcOf[s]] = s]
  /\ Goto(s, "loading")
  /\ UNCHANGED <<fileVars, path, owner, inodes, alive, deaths, fd, logVars>>

(* The rest of __init__: the committed prefix is loaded and an incomplete  *)
(* tail is copied to the sidecar; the file itself is not touched.  A       *)
(* committed line that does not parse raises LoadInteriorCorruption, with  *)
(* the lock taken and the store registered as the live writer.             *)
Load(s) ==
  /\ st[s] \in {"loading", "rereading"}
  /\ IF Bad \in Elements(lines)
       THEN /\ Goto(s, IF st[s] = "loading" THEN "failed" ELSE "closed")
            /\ UNCHANGED <<mem, sidecar>>
       ELSE /\ mem' = [mem EXCEPT ![s] = lines]
            /\ sidecar' = IF tail = None THEN sidecar ELSE tail
            /\ Goto(s, IF st[s] = "loading" THEN "writer" ELSE "reader")
  /\ UNCHANGED <<lines, tail, synced, lockVars, procVars, fd, buf, minted, acked>>

-----------------------------------------------------------------------------
(* Appending *)

NewRecord(s) == [id |-> minted + 1, seq |-> Len(mem[s]) + 1, by |-> s]

(* The file is open in append mode: the line's bytes follow whatever is    *)
(* there.  Two records' bytes on one line do not parse.                    *)
LineOf(r) == IF tail \in {None, r} THEN r ELSE Bad

(* _append_one: the seq is minted from the store's own replay cache, the   *)
(* line and its newline are flushed as one unit.                           *)
Append1(s) ==
  /\ st[s] = "writer" /\ minted < MaxRecords
  /\ minted' = minted + 1
  /\ lines' = Append(lines, LineOf(NewRecord(s))) /\ tail' = None
  /\ mem' = [mem EXCEPT ![s] = Append(@, NewRecord(s))]
  /\ Goto(s, "written")
  /\ UNCHANGED <<sidecar, synced, lockVars, procVars, fd, buf, acked>>

(* The flush fails with some or none of the bytes written: _poison.  The   *)
(* rest of the line stays in the file object's buffer.                     *)
AppendFails(s) ==
  /\ "failed" \in Faults
  /\ st[s] = "writer" /\ minted < MaxRecords
  /\ minted' = minted + 1
  /\ tail' \in {tail, LineOf(NewRecord(s))}
  /\ buf' = [buf EXCEPT ![s] = NewRecord(s)]
  /\ Goto(s, "broken")
  /\ UNCHANGED <<lines, sidecar, synced, lockVars, procVars, fd, mem, acked>>

(* The barrier covers the file as it is, and the caller is answered.       *)
Barrier(s) ==
  /\ st[s] = "written"
  /\ synced' = Len(lines)
  /\ acked' = acked \cup {mem[s][Len(mem[s])]}
  /\ Goto(s, "writer")
  /\ UNCHANGED <<lines, tail, sidecar, lockVars, procVars, fd, mem, buf, minted>>

BarrierFails(s) ==
  /\ "failed" \in Faults
  /\ st[s] = "written"
  /\ Goto(s, "broken")
  /\ UNCHANGED <<fileVars, lockVars, procVars, fd, logVars>>

(* A store demoted to a reader is refused at _require_fh, by name, before  *)
(* a byte is written: it has no append action.                             *)

-----------------------------------------------------------------------------
(* Closing: the record descriptor, then _release_lock *)

(* _close_handle closes the file object, whose buffer is flushed once      *)
(* more: the line a failed flush left behind may now be completed.         *)
(* lock_unlink then closes the lock descriptor, which drops the OS lock.   *)
CloseStore(s) ==
  /\ s \in Closers
  /\ st[s] \in {"writer", "broken"}
  /\ \/ UNCHANGED <<lines, tail>>
     \/ /\ buf[s] # None
        /\ lines' = Append(lines, LineOf(buf[s])) /\ tail' = None
  /\ owner' = Dropped(fd[s], ProcOf[s])
  /\ live' = [live EXCEPT ![ProcOf[s]] = None]
  /\ fd' = [fd EXCEPT ![s] = None]
  /\ mem' = [mem EXCEPT ![s] = <<>>] /\ buf' = [buf EXCEPT ![s] = None]
  /\ Goto(s, "unlinking")
  /\ UNCHANGED <<sidecar, synced, path, pidIn, inodes, alive, deaths, minted, acked>>

(* ... and only then unlinks the path, whatever it names by now.           *)
Unlink(s) ==
  /\ st[s] = "unlinking"
  /\ path' = None
  /\ Goto(s, "closed")
  /\ UNCHANGED <<fileVars, pidIn, owner, inodes, procVars, fd, logVars>>

CloseReader(s) ==
  /\ s \in Closers
  /\ st[s] = "reader"
  /\ mem' = [mem EXCEPT ![s] = <<>>]
  /\ Goto(s, "closed")
  /\ UNCHANGED <<fileVars, lockVars, procVars, fd, buf, minted, acked>>

(* A store whose open raised after the lock was taken has no owner to      *)
(* close it; the atexit hook releases it when the process ends.            *)
ReleaseAtExit(s) ==
  /\ st[s] = "failed" /\ s \in Closers
  /\ owner' = Dropped(fd[s], ProcOf[s])
  /\ live' = [live EXCEPT ![ProcOf[s]] = None]
  /\ fd' = [fd EXCEPT ![s] = None]
  /\ Goto(s, "unlinking")
  /\ UNCHANGED <<fileVars, path, pidIn, inodes, alive, deaths, logVars>>

-----------------------------------------------------------------------------
(* Process death, power loss, and a process under the same pid again *)

Forget(ps) ==
  /\ alive' = alive \ ps
  /\ live' = [p \in Procs |-> IF p \in ps THEN None ELSE live[p]]
  /\ owner' = [i \in Inodes |-> IF owner[i] \in ps THEN None ELSE owner[i]]
  /\ st' = [s \in Stores |-> IF ProcOf[s] \in ps THEN "closed" ELSE st[s]]
  /\ fd' = [s \in Stores |-> IF ProcOf[s] \in ps THEN None ELSE fd[s]]
  /\ mem' = [s \in Stores |-> IF ProcOf[s] \in ps THEN <<>> ELSE mem[s]]
  /\ buf' = [s \in Stores |-> IF ProcOf[s] \in ps THEN None ELSE buf[s]]
  /\ deaths < MaxDeaths /\ deaths' = deaths + 1

(* What is flushed survives the process.  A write in progress is cut.      *)
Die(p) ==
  /\ p \in alive
  /\ Forget({p})
  /\ \/ UNCHANGED <<tail, minted>>
     \/ \E s \in Stores :
          /\ "torn" \in Faults
          /\ ProcOf[s] = p /\ st[s] = "writer" /\ minted < MaxRecords
          /\ minted' = minted + 1
          /\ tail' = LineOf(NewRecord(s))
  /\ UNCHANGED <<lines, sidecar, synced, path, pidIn, inodes, acked>>

(* The file is cut at some byte after the last sync: whole lines are lost, *)
(* and what is left of the first lost one is an unterminated tail.         *)
PowerLoss ==
  /\ "power" \in Faults
  /\ Forget(Procs)
  /\ \E k \in synced .. Len(lines) :
       /\ lines' = SubSeq(lines, 1, k)
       /\ tail' \in {None, IF k < Len(lines) THEN lines[k + 1] ELSE tail}
       /\ synced' = k
  /\ UNCHANGED <<sidecar, path, pidIn, inodes, minted, acked>>

Start(p) ==
  /\ p \notin alive
  /\ alive' = alive \cup {p}
  /\ UNCHANGED <<fileVars, lockVars, live, deaths, st, fd, logVars>>

StoreStep(s) ==
  \/ LookForLock(s) \/ ReadLock(s) \/ Demote(s) \/ OpenLock(s) \/ TakeLock(s) \/ Stamp(s)
  \/ Load(s) \/ Append1(s) \/ AppendFails(s) \/ Barrier(s) \/ BarrierFails(s)
  \/ CloseStore(s) \/ Unlink(s) \/ CloseReader(s) \/ ReleaseAtExit(s)

Next ==
  \/ \E s \in Stores : StoreStep(s)
  \/ \E p \in Procs : Die(p) \/ Start(p)
  \/ PowerLoss

Spec == Init /\ [][Next]_vars

-----------------------------------------------------------------------------
(* Properties *)

(* Every variable has its type.                                            *)
TypeOK ==
  /\ lines \in Seq(Record \cup {Bad})
  /\ tail \in Record \cup {None, Bad} /\ sidecar \in Record \cup {None, Bad}
  /\ synced \in 0 .. Len(lines)
  /\ inodes \in 0 .. MaxInodes /\ path \in 1 .. inodes \cup {None}
  /\ pidIn \in [Inodes -> Procs \cup {None}] /\ owner \in [Inodes -> Procs \cup {None}]
  /\ alive \subseteq Procs /\ live \in [Procs -> Stores \cup {None}]
  /\ st \in [Stores -> Phases] /\ fd \in [Stores -> Inodes \cup {None}]
  /\ mem \in [Stores -> Seq(Record)] /\ buf \in [Stores -> Record \cup {None}]
  /\ minted \in 0 .. MaxRecords /\ acked \subseteq Record

(* "One writer at a time is a property of the record": no two stores are   *)
(* admitted as writers at once, across processes that race to open it, are *)
(* killed and come back (_acquire_lock, lock_write).                       *)
OneWriter ==
  \A s, o \in Stores :
    st[s] \in Writing \cup {"loading"} /\ st[o] \in Writing \cup {"loading"} => s = o

(* The store mints seq = len(events) + 1 and the file is the truth: a      *)
(* seq names one record of the file, and the record at its place.          *)
SeqNamesOneRecord ==
  \A i \in 1 .. Len(lines) : lines[i] # Bad => lines[i].seq = i

(* The loader's contract (__init__): a corrupted committed record is       *)
(* "refused at open ... never silently dropped".  Whatever a crash, a      *)
(* failed write or a power cut left in the file, a store that is open for  *)
(* appending has replayed every record whose success was ever reported.    *)
WriterKnowsAcked ==
  \A s \in Stores : st[s] \in Writing => acked \subseteq Elements(mem[s])

(* The tail contract (_split_committed_prefix): an unterminated line is    *)
(* not part of the record.  A store replays exactly what is on the file    *)
(* as whole lines, and what it holds beyond that is what it appended.      *)
ReplayIsCommitted ==
  \A s \in Stores : st[s] \in {"writer", "written", "broken", "reader"} =>
    \A i \in 1 .. Len(mem[s]) :
      mem[s][i].by # s => i <= Len(lines) /\ lines[i] = mem[s][i]

(* What an open for writing promises (_acquire_lock, __init__): one store  *)
(* at a time is admitted, it has replayed all that was ever acknowledged,  *)
(* and after a crash or a power cut a seq still names one record and only  *)
(* whole lines count.                                                      *)
WriterHoldsTheRecord ==
  OneWriter /\ WriterKnowsAcked /\ SeqNamesOneRecord /\ ReplayIsCommitted

(* _append_one: "a crash mid-write leaves either a full line or none (a    *)
(* partial line has no closing newline and is dropped on reload)": no      *)
(* crash makes a committed line unreadable.                                *)
NoInteriorCorruption == Bad \notin Elements(lines)
=============================================================================
