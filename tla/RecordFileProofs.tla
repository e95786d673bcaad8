-------------------------- MODULE RecordFileProofs --------------------------
(***************************************************************************)
(* Proofs about the record file and its lock, for any number of stores,    *)
(* processes, deaths and faults: of the stores of one process one at a     *)
(* time is the writer; where the lock keeps processes apart the same holds *)
(* across them; and the one writer there is has replayed all that was ever *)
(* acknowledged.  Then, from KernelPort on, about the file acts in the     *)
(* record and the port that folds them, for any tree, requests and audited *)
(* acts: a fill answers the fold of its prefix, a recover restores what    *)
(* its target held, and the gate's names are the port's; after the mount,  *)
(* that the port's tree is whole and indexed as it is.  From RecordsFs on, *)
(* about the user-space mount: for any number of handles, processes and    *)
(* bytes, calls that are refused and calls that fail, it serves the fold   *)
(* of the record, no two processes hold locks that exclude each other,     *)
(* bytes accepted from a handle leave its burst only into the record, but  *)
(* for the one burst a failed call was closing, and, at the end, a handle  *)
(* reaches its own file through the name libfuse has for it and reads what *)
(* was written to it.                                                      *)
(***************************************************************************)
EXTENDS RecordFile, SequenceTheorems, FiniteSetTheorems, WellFoundedInduction, TLAPS

-----------------------------------------------------------------------------
(* The inductive invariants *)

(* Phases of an open, and the phases in which a store is _live_writers'    *)
(* entry of its process.                                                   *)
OpeningPhases == {"looking", "checked", "opening", "stamping", "loading", "rereading"}
Registered    == {"loading", "writer", "written", "broken", "failed"}
Holding       == {"stamping"} \cup Registered

Typed == TypeOK /\ \A s \in Stores : st[s] = "written" => mem[s] # <<>>

(* Within a process opens come one after the other, the registry names the *)
(* store that passed, and nobody goes for the lock while it names one.     *)
RegistryOK ==
  /\ \A s, o \in Stores :
       ProcOf[s] = ProcOf[o] /\ st[s] \in OpeningPhases /\ st[o] \in OpeningPhases => s = o
  /\ \A s \in Stores : st[s] \in Registered => live[ProcOf[s]] = s
  /\ \A s \in Stores : st[s] \in {"opening", "stamping"} => live[ProcOf[s]] = None

(* With nobody to unlink the path, a descriptor open for the lock is on    *)
(* the file the path names, and who took the lock has it.                  *)
LockOK ==
  \A s \in Stores :
    /\ st[s] # "unlinking"
    /\ st[s] \in {"opening"} \cup Holding => path # None /\ fd[s] = path
    /\ st[s] \in Holding => owner[path] = ProcOf[s]

Sole == \A s, o \in Stores : st[s] \in Registered /\ st[o] \in Registered => s = o

(* Line i holds r, or what became of r when it was glued to a torn tail.   *)
Holds(list, i, r) == list[i] = r \/ list[i] = Bad

(* What was acknowledged is synced, or a line that does not parse is and   *)
(* nobody will open the record again.                                      *)
AckedOnFile(list, n, told) ==
  (\E i \in 1 .. n : list[i] = Bad) \/ \A r \in told : \E i \in 1 .. n : list[i] = r

(* What a store wrote and has not synced is on the file.                   *)
WrittenOnFile ==
  \A s \in Stores : st[s] = "written" =>
    \E i \in 1 .. Len(lines) : Holds(lines, i, mem[s][Len(mem[s])])

(* A writer mints for the line that comes next, and so was the record a    *)
(* failed flush left behind.                                               *)
NextIsNext ==
  /\ \A s \in Stores : st[s] \in Writing => Len(mem[s]) = Len(lines)
  /\ \A s \in Stores : buf[s] # None => st[s] = "broken" /\ buf[s].seq = Len(lines) + 1

FileOK ==
  /\ AckedOnFile(lines, synced, acked) /\ WrittenOnFile /\ NextIsNext
  /\ WriterKnowsAcked /\ SeqNamesOneRecord /\ ReplayIsCommitted

-----------------------------------------------------------------------------
(* Type correctness *)

LEMMA InitTypeOK == Init => TypeOK
<1> SUFFICES ASSUME Init PROVE TypeOK
  OBVIOUS
<1> USE BoundsAssumption, NoneAssumption, ProcAssumption DEF Init
<1>1. lines \in Seq(Record \cup {Bad}) /\ Len(lines) = 0
  OBVIOUS
<1>2. mem \in [Stores -> Seq(Record)]
  OBVIOUS
<1> QED
  BY <1>1, <1>2 DEF TypeOK, Phases

(* Records fit their type. *)
LEMMA NewRecordType ==
  ASSUME TypeOK, NEW s \in Stores, minted < MaxRecords
  PROVE  /\ NewRecord(s) \in Record
         /\ LineOf(NewRecord(s)) \in Record \cup {Bad}
         /\ minted + 1 \in 0 .. MaxRecords
<1>1. Len(mem[s]) \in Nat /\ minted \in 0 .. MaxRecords
  BY DEF TypeOK
<1> QED
  BY <1>1, BoundsAssumption DEF NewRecord, LineOf, Record

LEMMA AppendType ==
  ASSUME NEW S, NEW q \in Seq(S), NEW x \in S
  PROVE  Append(q, x) \in Seq(S) /\ Len(Append(q, x)) = Len(q) + 1
  OBVIOUS

LEMMA PlainLines ==
  ASSUME NEW q \in Seq(Record \cup {Bad}), Bad \notin Elements(q)
  PROVE  q \in Seq(Record)
<1>1. \A i \in 1 .. Len(q) : q[i] \in Record
  BY DEF Elements
<1>2. Len(q) \in Nat /\ q = [i \in 1 .. Len(q) |-> q[i]]
  OBVIOUS
<1> QED
  BY <1>1, <1>2

LEMMA PrefixFacts ==
  ASSUME NEW S, NEW q \in Seq(S), NEW k \in 0 .. Len(q)
  PROVE  /\ SubSeq(q, 1, k) \in Seq(S) /\ Len(SubSeq(q, 1, k)) = k
         /\ \A i \in 1 .. k : SubSeq(q, 1, k)[i] = q[i]
         /\ k < Len(q) => q[k + 1] \in S
  OBVIOUS

(* A process that ends takes its stores with it. *)
LEMMA ForgetMem ==
  ASSUME TypeOK, NEW ps, Forget(ps)
  PROVE  mem' \in [Stores -> Seq(Record)]
<1>1. <<>> \in Seq(Record)
  OBVIOUS
<1> QED
  BY <1>1 DEF Forget, TypeOK

LEMMA NextTypeOK == Typed /\ [Next]_vars => TypeOK'
<1> SUFFICES ASSUME Typed, [Next]_vars PROVE TypeOK'
  OBVIOUS
<1> TypeOK
  BY DEF Typed
<1> USE BoundsAssumption, ProcAssumption
        DEF Goto, fileVars, lockVars, procVars, logVars, Inodes, Phases
<1>1. ASSUME NEW s \in Stores, LookForLock(s) PROVE TypeOK'
  BY <1>1 DEF LookForLock, TypeOK, Dropped
<1>2. ASSUME NEW s \in Stores, ReadLock(s) PROVE TypeOK'
  BY <1>2, ZenonT(60) DEF ReadLock, TypeOK, Dropped
<1>3. ASSUME NEW s \in Stores, Demote(s) PROVE TypeOK'
  BY <1>3 DEF Demote, TypeOK, Dropped
<1>4. ASSUME NEW s \in Stores, OpenLock(s) PROVE TypeOK'
  <2>1. /\ inodes' \in 0 .. MaxInodes /\ path' \in 1 .. inodes' \cup {None}
        /\ fd' \in [Stores -> (1 .. MaxInodes) \cup {None}]
    <3>0. /\ inodes \in 0 .. MaxInodes /\ path \in 1 .. inodes \cup {None}
          /\ fd \in [Stores -> (1 .. MaxInodes) \cup {None}] /\ MaxInodes \in Nat
      BY DEF TypeOK
    <3>1. CASE path = None
      <4>1. inodes < MaxInodes /\ inodes' = inodes + 1 /\ path' = inodes + 1
            /\ fd' = [fd EXCEPT ![s] = inodes + 1]
        BY <1>4, <3>1 DEF OpenLock
      <4>2. inodes + 1 \in 1 .. MaxInodes
        BY <3>0, <4>1
      <4> QED
        BY <3>0, <4>1, <4>2
    <3>2. CASE path # None
      <4>1. fd' = [fd EXCEPT ![s] = path] /\ path' = path /\ inodes' = inodes
        BY <1>4, <3>2 DEF OpenLock
      <4>2. path \in 1 .. MaxInodes
        BY <3>0, <3>2
      <4> QED
        BY <3>0, <4>1, <4>2
    <3> QED
      BY <3>1, <3>2
  <2>2. st' \in [Stores -> Phases]
    BY <1>4 DEF OpenLock, TypeOK
  <2> QED
    BY <1>4, <2>1, <2>2 DEF OpenLock, TypeOK
<1>5. ASSUME NEW s \in Stores, TakeLock(s) PROVE TypeOK'
  BY <1>5 DEF TakeLock, TypeOK, Dropped
<1>6. ASSUME NEW s \in Stores, Stamp(s) PROVE TypeOK'
  <2>1. pidIn' \in [Inodes -> Procs \cup {None}] /\ live' \in [Procs -> Stores \cup {None}]
    BY <1>6 DEF Stamp, TypeOK
  <2> QED
    BY <1>6, <2>1 DEF Stamp, TypeOK
<1>7. ASSUME NEW s \in Stores, Load(s) PROVE TypeOK'
  <2>1. Bad \notin Elements(lines) => lines \in Seq(Record)
    BY PlainLines DEF TypeOK
  <2>2. mem' \in [Stores -> Seq(Record)]
    BY <1>7, <2>1 DEF TypeOK, Load
  <2>3. sidecar' \in Record \cup {None, Bad} /\ st' \in [Stores -> Phases]
    BY <1>7 DEF TypeOK, Load
  <2> QED
    BY <1>7, <2>2, <2>3 DEF TypeOK, Load
<1>8. ASSUME NEW s \in Stores, Append1(s) PROVE TypeOK'
  <2>1. NewRecord(s) \in Record /\ LineOf(NewRecord(s)) \in Record \cup {Bad}
        /\ minted + 1 \in 0 .. MaxRecords
    BY <1>8, NewRecordType DEF Append1
  <2>2. lines' \in Seq(Record \cup {Bad}) /\ Len(lines') = Len(lines) + 1
    BY <1>8, <2>1, AppendType DEF Append1, TypeOK
  <2>3. mem' \in [Stores -> Seq(Record)]
    BY <1>8, <2>1, AppendType DEF Append1, TypeOK
  <2> QED
    BY <1>8, <2>1, <2>2, <2>3 DEF TypeOK, Append1
<1>9. ASSUME NEW s \in Stores, AppendFails(s) PROVE TypeOK'
  <2>1. NewRecord(s) \in Record /\ LineOf(NewRecord(s)) \in Record \cup {Bad}
        /\ minted + 1 \in 0 .. MaxRecords
    BY <1>9, NewRecordType DEF AppendFails
  <2> QED
    BY <1>9, <2>1 DEF TypeOK, AppendFails
<1>10. ASSUME NEW s \in Stores, Barrier(s) PROVE TypeOK'
  <2>1. Len(lines) \in Nat
    BY DEF TypeOK
  <2>2. mem[s] \in Seq(Record) /\ mem[s] # <<>>
    BY <1>10 DEF Typed, TypeOK, Barrier
  <2>3. mem[s][Len(mem[s])] \in Record
    BY <2>2
  <2> QED
    BY <1>10, <2>1, <2>3 DEF TypeOK, Barrier
<1>11. ASSUME NEW s \in Stores, BarrierFails(s) PROVE TypeOK'
  BY <1>11 DEF BarrierFails, TypeOK, Dropped
<1>12. ASSUME NEW s \in Stores, CloseStore(s) PROVE TypeOK'
  <2>1. buf[s] # None => LineOf(buf[s]) \in Record \cup {Bad}
    BY DEF TypeOK, LineOf
  <2>2. /\ lines' \in Seq(Record \cup {Bad}) /\ Len(lines) <= Len(lines')
        /\ tail' \in Record \cup {None, Bad}
    <3>1. CASE UNCHANGED <<lines, tail>>
      BY <3>1 DEF TypeOK
    <3>2. CASE buf[s] # None /\ lines' = Append(lines, LineOf(buf[s])) /\ tail' = None
      BY <3>2, <2>1, AppendType DEF TypeOK
    <3> QED
      BY <1>12, <3>1, <3>2 DEF CloseStore
  <2>3. owner' \in [Inodes -> Procs \cup {None}]
    BY <1>12 DEF CloseStore, Dropped, TypeOK
  <2>4. mem' \in [Stores -> Seq(Record)]
    BY <1>12 DEF CloseStore, TypeOK
  <2> QED
    BY <1>12, <2>2, <2>3, <2>4 DEF TypeOK, CloseStore
<1>13. ASSUME NEW s \in Stores, Unlink(s) PROVE TypeOK'
  BY <1>13 DEF Unlink, TypeOK, Dropped
<1>14. ASSUME NEW s \in Stores, CloseReader(s) PROVE TypeOK'
  <2>1. mem' \in [Stores -> Seq(Record)]
    BY <1>14 DEF CloseReader, TypeOK
  <2> QED
    BY <1>14, <2>1 DEF TypeOK, CloseReader
<1>15. ASSUME NEW s \in Stores, ReleaseAtExit(s) PROVE TypeOK'
  BY <1>15 DEF ReleaseAtExit, TypeOK, Dropped
<1>16. ASSUME NEW p \in Procs, Die(p) PROVE TypeOK'
  <2>1. /\ tail' \in Record \cup {None, Bad} /\ minted' \in 0 .. MaxRecords
    BY <1>16, NewRecordType DEF Die, TypeOK
  <2>2. Forget({p})
    BY <1>16 DEF Die
  <2>3. mem' \in [Stores -> Seq(Record)]
    BY <2>2, ForgetMem
  <2> QED
    BY <1>16, <2>1, <2>2, <2>3 DEF TypeOK, Die, Forget
<1>17. ASSUME NEW p \in Procs, Start(p) PROVE TypeOK'
  BY <1>17 DEF Start, TypeOK
<1>18. ASSUME PowerLoss PROVE TypeOK'
  <2>1. Forget(Procs)
    BY <1>18 DEF PowerLoss
  <2>2. PICK k \in synced .. Len(lines) :
          /\ lines' = SubSeq(lines, 1, k) /\ synced' = k
          /\ tail' \in {None, IF k < Len(lines) THEN lines[k + 1] ELSE tail}
    BY <1>18 DEF PowerLoss
  <2>3. lines \in Seq(Record \cup {Bad}) /\ synced \in 0 .. Len(lines)
    BY DEF TypeOK
  <2>4. /\ lines' \in Seq(Record \cup {Bad}) /\ Len(lines') = k
        /\ k < Len(lines) => lines[k + 1] \in Record \cup {Bad}
    BY <2>2, <2>3, PrefixFacts
  <2>5. mem' \in [Stores -> Seq(Record)]
    BY <2>1, ForgetMem
  <2> QED
    BY <1>18, <2>1, <2>2, <2>3, <2>4, <2>5 DEF TypeOK, PowerLoss, Forget
<1>19. CASE UNCHANGED vars
  BY <1>19 DEF vars, TypeOK
<1> QED
  BY <1>1, <1>2, <1>3, <1>4, <1>5, <1>6, <1>7, <1>8, <1>9, <1>10, <1>11, <1>12, <1>13, <1>14,
     <1>15, <1>16, <1>17, <1>18, <1>19 DEF Next, StoreStep

(* What a store has written stays in its replay until it is synced. *)
LEMMA NextTyped == Typed /\ [Next]_vars => Typed'
<1> SUFFICES ASSUME Typed, [Next]_vars PROVE Typed'
  OBVIOUS
<1> DEFINE Wrote == \A s \in Stores : st[s] = "written" => mem[s] # <<>>
<1>0. TypeOK' /\ TypeOK /\ Wrote
  BY NextTypeOK DEF Typed
<1> SUFFICES Wrote'
  BY <1>0 DEF Typed
<1>a. st \in [Stores -> Phases] /\ mem \in [Stores -> Seq(Record)]
  BY <1>0 DEF TypeOK
<1> USE <1>0, <1>a DEF Goto, procVars, logVars
<1>1. ASSUME NEW s \in Stores, LookForLock(s) PROVE Wrote'
  BY <1>1 DEF LookForLock, Phases
<1>2. ASSUME NEW s \in Stores, ReadLock(s) PROVE Wrote'
  BY <1>2 DEF ReadLock, Phases
<1>3. ASSUME NEW s \in Stores, Demote(s) PROVE Wrote'
  BY <1>3 DEF Demote, Phases
<1>4. ASSUME NEW s \in Stores, OpenLock(s) PROVE Wrote'
  BY <1>4 DEF OpenLock, Phases
<1>5. ASSUME NEW s \in Stores, TakeLock(s) PROVE Wrote'
  BY <1>5 DEF TakeLock, Phases
<1>6. ASSUME NEW s \in Stores, Stamp(s) PROVE Wrote'
  BY <1>6 DEF Stamp, Phases
<1>7. ASSUME NEW s \in Stores, Load(s) PROVE Wrote'
  BY <1>7 DEF Load, Phases
<1>8. ASSUME NEW s \in Stores, Append1(s) PROVE Wrote'
  <2>1. NewRecord(s) \in Record /\ mem[s] \in Seq(Record)
    BY <1>8, NewRecordType DEF Append1
  <2>2. Append(mem[s], NewRecord(s)) # <<>>
    BY <2>1
  <2> QED
    BY <1>8, <2>2 DEF Append1
<1>9. ASSUME NEW s \in Stores, AppendFails(s) PROVE Wrote'
  BY <1>9 DEF AppendFails, Phases
<1>10. ASSUME NEW s \in Stores, Barrier(s) PROVE Wrote'
  BY <1>10 DEF Barrier, Phases
<1>11. ASSUME NEW s \in Stores, BarrierFails(s) PROVE Wrote'
  BY <1>11 DEF BarrierFails, Phases
<1>12. ASSUME NEW s \in Stores, CloseStore(s) PROVE Wrote'
  BY <1>12 DEF CloseStore, Phases
<1>13. ASSUME NEW s \in Stores, Unlink(s) PROVE Wrote'
  BY <1>13 DEF Unlink, Phases
<1>14. ASSUME NEW s \in Stores, CloseReader(s) PROVE Wrote'
  BY <1>14 DEF CloseReader, Phases
<1>15. ASSUME NEW s \in Stores, ReleaseAtExit(s) PROVE Wrote'
  BY <1>15 DEF ReleaseAtExit, Phases
<1>16. ASSUME NEW p \in Procs, Die(p) PROVE Wrote'
  BY <1>16 DEF Die, Forget, Phases
<1>17. ASSUME NEW p \in Procs, Start(p) PROVE Wrote'
  BY <1>17 DEF Start, Phases
<1>18. ASSUME PowerLoss PROVE Wrote'
  BY <1>18 DEF PowerLoss, Forget, Phases
<1>19. CASE UNCHANGED vars
  BY <1>19 DEF vars, Phases
<1> QED
  BY <1>1, <1>2, <1>3, <1>4, <1>5, <1>6, <1>7, <1>8, <1>9, <1>10, <1>11, <1>12, <1>13, <1>14,
     <1>15, <1>16, <1>17, <1>18, <1>19 DEF Next, StoreStep

-----------------------------------------------------------------------------
(* One process: the registry of live writers *)

LEMMA NextRegistry == TypeOK /\ RegistryOK /\ [Next]_vars => RegistryOK'
<1> SUFFICES ASSUME TypeOK, RegistryOK, [Next]_vars PROVE RegistryOK'
  OBVIOUS
<1>a. /\ st \in [Stores -> Phases] /\ live \in [Procs -> Stores \cup {None}]
      /\ ProcOf \in [Stores -> Procs] /\ None \notin Stores
  BY ProcAssumption, NoneAssumption DEF TypeOK
<1> USE <1>a DEF Goto, procVars, lockVars, RegistryOK, OpeningPhases, Registered
<1>1. ASSUME NEW s \in Stores, LookForLock(s) PROVE RegistryOK'
  BY <1>1 DEF LookForLock, OpensAlone, Phases
<1>2. ASSUME NEW s \in Stores, ReadLock(s) PROVE RegistryOK'
  BY <1>2 DEF ReadLock, Phases
<1>3. ASSUME NEW s \in Stores, Demote(s) PROVE RegistryOK'
  BY <1>3 DEF Demote, Phases
<1>4. ASSUME NEW s \in Stores, OpenLock(s) PROVE RegistryOK'
  BY <1>4 DEF OpenLock, Phases
<1>5. ASSUME NEW s \in Stores, TakeLock(s) PROVE RegistryOK'
  BY <1>5 DEF TakeLock, Phases
<1>6. ASSUME NEW s \in Stores, Stamp(s) PROVE RegistryOK'
  BY <1>6 DEF Stamp, Phases
<1>7. ASSUME NEW s \in Stores, Load(s) PROVE RegistryOK'
  BY <1>7 DEF Load, Phases
<1>8. ASSUME NEW s \in Stores, Append1(s) PROVE RegistryOK'
  BY <1>8 DEF Append1, Phases
<1>9. ASSUME NEW s \in Stores, AppendFails(s) PROVE RegistryOK'
  BY <1>9 DEF AppendFails, Phases
<1>10. ASSUME NEW s \in Stores, Barrier(s) PROVE RegistryOK'
  BY <1>10 DEF Barrier, Phases
<1>11. ASSUME NEW s \in Stores, BarrierFails(s) PROVE RegistryOK'
  BY <1>11 DEF BarrierFails, Phases
<1>12. ASSUME NEW s \in Stores, CloseStore(s) PROVE RegistryOK'
  BY <1>12 DEF CloseStore, Phases
<1>13. ASSUME NEW s \in Stores, Unlink(s) PROVE RegistryOK'
  BY <1>13 DEF Unlink, Phases
<1>14. ASSUME NEW s \in Stores, CloseReader(s) PROVE RegistryOK'
  BY <1>14 DEF CloseReader, Phases
<1>15. ASSUME NEW s \in Stores, ReleaseAtExit(s) PROVE RegistryOK'
  BY <1>15 DEF ReleaseAtExit, Phases
<1>16. ASSUME NEW p \in Procs, Die(p) PROVE RegistryOK'
  BY <1>16 DEF Die, Forget, Phases
<1>17. ASSUME NEW p \in Procs, Start(p) PROVE RegistryOK'
  BY <1>17 DEF Start, Phases
<1>18. ASSUME PowerLoss PROVE RegistryOK'
  BY <1>18 DEF PowerLoss, Forget, Phases
<1>19. CASE UNCHANGED vars
  BY <1>19 DEF vars, Phases
<1> QED
  BY <1>1, <1>2, <1>3, <1>4, <1>5, <1>6, <1>7, <1>8, <1>9, <1>10, <1>11, <1>12, <1>13, <1>14,
     <1>15, <1>16, <1>17, <1>18, <1>19 DEF Next, StoreStep

LEMMA InitRegistry == Init => RegistryOK
  BY DEF Init, RegistryOK, OpeningPhases, Registered

-----------------------------------------------------------------------------
(* Several processes: the lock on the file the path names *)

(* Each process opens the record once, and nobody closes it. *)
Racers ==
  /\ Closers = {}
  /\ \A s, o \in Stores : ProcOf[s] = ProcOf[o] => s = o

LEMMA NextLock == Racers /\ TypeOK /\ LockOK /\ [Next]_vars => LockOK'
<1> SUFFICES ASSUME Racers, TypeOK, LockOK, [Next]_vars PROVE LockOK'
  OBVIOUS
<1>a. /\ st \in [Stores -> Phases] /\ fd \in [Stores -> Inodes \cup {None}]
      /\ owner \in [Inodes -> Procs \cup {None}] /\ path \in Inodes \cup {None}
      /\ ProcOf \in [Stores -> Procs] /\ None \notin Procs /\ None \notin Nat
      /\ inodes \in Nat
  BY ProcAssumption, NoneAssumption, BoundsAssumption DEF TypeOK, Inodes
<1>b. Closers = {} /\ \A s, o \in Stores : ProcOf[s] = ProcOf[o] => s = o
  BY DEF Racers
<1> USE <1>a, <1>b DEF Goto, procVars, lockVars, LockOK, Holding, Registered
<1>1. ASSUME NEW s \in Stores, LookForLock(s) PROVE LockOK'
  BY <1>1 DEF LookForLock, Dropped, Phases
<1>2. ASSUME NEW s \in Stores, ReadLock(s) PROVE LockOK'
  BY <1>2 DEF ReadLock, Dropped, Phases
<1>3. ASSUME NEW s \in Stores, Demote(s) PROVE LockOK'
  BY <1>3 DEF Demote, Dropped, Phases
<1>4. ASSUME NEW s \in Stores, OpenLock(s) PROVE LockOK'
  BY <1>4 DEF OpenLock, Dropped, Phases
<1>5. ASSUME NEW s \in Stores, TakeLock(s) PROVE LockOK'
  BY <1>5 DEF TakeLock, Dropped, Phases
<1>6. ASSUME NEW s \in Stores, Stamp(s) PROVE LockOK'
  BY <1>6 DEF Stamp, Dropped, Phases
<1>7. ASSUME NEW s \in Stores, Load(s) PROVE LockOK'
  BY <1>7 DEF Load, Dropped, Phases
<1>8. ASSUME NEW s \in Stores, Append1(s) PROVE LockOK'
  BY <1>8 DEF Append1, Dropped, Phases
<1>9. ASSUME NEW s \in Stores, AppendFails(s) PROVE LockOK'
  BY <1>9 DEF AppendFails, Dropped, Phases
<1>10. ASSUME NEW s \in Stores, Barrier(s) PROVE LockOK'
  BY <1>10 DEF Barrier, Dropped, Phases
<1>11. ASSUME NEW s \in Stores, BarrierFails(s) PROVE LockOK'
  BY <1>11 DEF BarrierFails, Dropped, Phases
<1>12. ASSUME NEW s \in Stores, CloseStore(s) PROVE LockOK'
  BY <1>12 DEF CloseStore, Dropped, Phases
<1>13. ASSUME NEW s \in Stores, Unlink(s) PROVE LockOK'
  BY <1>13 DEF Unlink, Dropped, Phases
<1>14. ASSUME NEW s \in Stores, CloseReader(s) PROVE LockOK'
  BY <1>14 DEF CloseReader, Dropped, Phases
<1>15. ASSUME NEW s \in Stores, ReleaseAtExit(s) PROVE LockOK'
  BY <1>15 DEF ReleaseAtExit, Dropped, Phases
<1>16. ASSUME NEW p \in Procs, Die(p) PROVE LockOK'
  BY <1>16 DEF Die, Forget, Dropped, Phases
<1>17. ASSUME NEW p \in Procs, Start(p) PROVE LockOK'
  BY <1>17 DEF Start, Dropped, Phases
<1>18. ASSUME PowerLoss PROVE LockOK'
  BY <1>18 DEF PowerLoss, Forget, Dropped, Phases
<1>19. CASE UNCHANGED vars
  BY <1>19 DEF vars, Dropped, Phases
<1> QED
  BY <1>1, <1>2, <1>3, <1>4, <1>5, <1>6, <1>7, <1>8, <1>9, <1>10, <1>11, <1>12, <1>13, <1>14,
     <1>15, <1>16, <1>17, <1>18, <1>19 DEF Next, StoreStep

LEMMA InitLock == Init => LockOK
  BY DEF Init, LockOK, Holding, Registered

-----------------------------------------------------------------------------
(* One writer: what it appends, what it acknowledges, what it replayed *)

(* A longer file whose lines stay where they are. *)
Extends(list, list2) ==
  /\ Len(list) <= Len(list2)
  /\ \A i \in 1 .. Len(list) : list2[i] = list[i]

LEMMA AppendExtends ==
  ASSUME NEW S, NEW q \in Seq(S), NEW x \in S
  PROVE  /\ Append(q, x) \in Seq(S) /\ Len(Append(q, x)) = Len(q) + 1
         /\ Append(q, x)[Len(q) + 1] = x
         /\ Extends(q, Append(q, x))
  BY DEF Extends

(* What the steps that write do to the file and to the writer's replay. *)
LEMMA AppendStep ==
  ASSUME Typed, NEW s \in Stores, Append1(s)
  PROVE  /\ NewRecord(s) \in Record
         /\ lines' \in Seq(Record \cup {Bad}) /\ Len(lines') = Len(lines) + 1
         /\ lines'[Len(lines) + 1] \in {NewRecord(s), Bad}
         /\ Extends(lines, lines')
         /\ mem'[s] = Append(mem[s], NewRecord(s)) /\ mem'[s] \in Seq(Record)
         /\ Len(mem'[s]) = Len(mem[s]) + 1 /\ mem'[s][Len(mem[s]) + 1] = NewRecord(s)
         /\ Extends(mem[s], mem'[s])
         /\ \A o \in Stores \ {s} : mem'[o] = mem[o] /\ st'[o] = st[o]
<1>a. /\ lines \in Seq(Record \cup {Bad}) /\ mem \in [Stores -> Seq(Record)]
      /\ st \in [Stores -> Phases] /\ TypeOK
  BY DEF Typed, TypeOK
<1>1. NewRecord(s) \in Record /\ LineOf(NewRecord(s)) \in {NewRecord(s), Bad}
  BY <1>a, NewRecordType DEF Append1, LineOf
<1>2. lines' = Append(lines, LineOf(NewRecord(s))) /\ mem' = [mem EXCEPT ![s] = Append(@, NewRecord(s))]
      /\ st' = [st EXCEPT ![s] = "written"]
  BY DEF Append1, Goto
<1>3. /\ lines' \in Seq(Record \cup {Bad}) /\ Len(lines') = Len(lines) + 1
      /\ lines'[Len(lines) + 1] = LineOf(NewRecord(s)) /\ Extends(lines, lines')
  <2> LineOf(NewRecord(s)) \in Record \cup {Bad}
    BY <1>1
  <2> QED
    BY <1>a, <1>2, AppendExtends
<1>4. mem'[s] = Append(mem[s], NewRecord(s))
  BY <1>a, <1>2
<1>5. /\ mem'[s] \in Seq(Record) /\ Len(mem'[s]) = Len(mem[s]) + 1
      /\ mem'[s][Len(mem[s]) + 1] = NewRecord(s) /\ Extends(mem[s], mem'[s])
  <2> mem[s] \in Seq(Record)
    BY <1>a
  <2> QED
    BY <1>1, <1>4, AppendExtends
<1> QED
  BY <1>a, <1>1, <1>2, <1>3, <1>4, <1>5

LEMMA CloseStep ==
  ASSUME TypeOK, NEW s \in Stores, CloseStore(s)
  PROVE  /\ lines' \in Seq(Record \cup {Bad}) /\ Extends(lines, lines')
         /\ \/ lines' = lines
            \/ /\ buf[s] \in Record /\ buf[s] # None /\ Len(lines') = Len(lines) + 1
               /\ lines'[Len(lines) + 1] \in {buf[s], Bad}
<1>a. lines \in Seq(Record \cup {Bad}) /\ buf \in [Stores -> Record \cup {None}]
  BY DEF TypeOK
<1>1. CASE lines' = lines
  BY <1>a, <1>1 DEF Extends
<1>2. CASE buf[s] # None /\ lines' = Append(lines, LineOf(buf[s]))
  <2>1. buf[s] \in Record /\ LineOf(buf[s]) \in {buf[s], Bad}
    BY <1>a, <1>2 DEF LineOf
  <2>2. LineOf(buf[s]) \in Record \cup {Bad}
    BY <2>1
  <2> QED
    BY <1>a, <1>2, <2>1, <2>2, AppendExtends
<1> QED
  BY <1>1, <1>2 DEF CloseStore

(* Power loss keeps what is synced and closes every store. *)
LEMMA PowerStep ==
  ASSUME TypeOK, PowerLoss
  PROVE  /\ \E k \in synced .. Len(lines) :
               /\ synced' = k /\ lines' \in Seq(Record \cup {Bad}) /\ Len(lines') = k
               /\ \A i \in 1 .. k : lines'[i] = lines[i]
         /\ \A s \in Stores : st'[s] = "closed" /\ mem'[s] = <<>> /\ buf'[s] = None
         /\ acked' = acked
<1>1. PICK k \in synced .. Len(lines) : lines' = SubSeq(lines, 1, k) /\ synced' = k
  BY DEF PowerLoss
<1>2. lines \in Seq(Record \cup {Bad}) /\ synced \in 0 .. Len(lines) /\ k \in 0 .. Len(lines)
  BY <1>1 DEF TypeOK
<1>3. /\ lines' \in Seq(Record \cup {Bad}) /\ Len(lines') = k
      /\ \A i \in 1 .. k : lines'[i] = lines[i]
  BY <1>1, <1>2, PrefixFacts
<1> QED
  BY <1>1, <1>3, ProcAssumption DEF PowerLoss, Forget

LEMMA AckedStays ==
  ASSUME NEW list, NEW list2, NEW n \in Nat, NEW n2 \in Nat, NEW told,
         n <= n2, \A i \in 1 .. n : list2[i] = list[i], AckedOnFile(list, n, told)
  PROVE  AckedOnFile(list2, n2, told)
<1>1. \A i \in 1 .. n : i \in 1 .. n2
  OBVIOUS
<1> QED
  BY <1>1 DEF AckedOnFile

LEMMA NextAcked ==
  ASSUME Typed, WrittenOnFile, AckedOnFile(lines, synced, acked), [Next]_vars
  PROVE  AckedOnFile(lines', synced', acked')
<1>a. /\ st \in [Stores -> Phases] /\ mem \in [Stores -> Seq(Record)]
      /\ lines \in Seq(Record \cup {Bad}) /\ synced \in 0 .. Len(lines)
      /\ buf \in [Stores -> Record \cup {None}] /\ ProcOf \in [Stores -> Procs]
      /\ minted \in Nat
  BY ProcAssumption, BoundsAssumption DEF Typed, TypeOK
<1> USE <1>a DEF Goto, procVars, lockVars, fileVars, logVars
<1>1. ASSUME NEW s \in Stores, LookForLock(s) PROVE AckedOnFile(lines, synced, acked)'
  BY <1>1 DEF LookForLock, AckedOnFile
<1>2. ASSUME NEW s \in Stores, ReadLock(s) PROVE AckedOnFile(lines, synced, acked)'
  BY <1>2 DEF ReadLock, AckedOnFile
<1>3. ASSUME NEW s \in Stores, Demote(s) PROVE AckedOnFile(lines, synced, acked)'
  BY <1>3 DEF Demote, AckedOnFile
<1>4. ASSUME NEW s \in Stores, OpenLock(s) PROVE AckedOnFile(lines, synced, acked)'
  BY <1>4 DEF OpenLock, AckedOnFile
<1>5. ASSUME NEW s \in Stores, TakeLock(s) PROVE AckedOnFile(lines, synced, acked)'
  BY <1>5 DEF TakeLock, AckedOnFile
<1>6. ASSUME NEW s \in Stores, Stamp(s) PROVE AckedOnFile(lines, synced, acked)'
  BY <1>6 DEF Stamp, AckedOnFile
<1>7. ASSUME NEW s \in Stores, Load(s) PROVE AckedOnFile(lines, synced, acked)'
  BY <1>7 DEF Load, AckedOnFile
<1>8. ASSUME NEW s \in Stores, Append1(s) PROVE AckedOnFile(lines, synced, acked)'
  <2>1. Extends(lines, lines') /\ UNCHANGED <<synced, acked>>
    BY <1>8, AppendStep DEF Append1
  <2> QED
    BY <2>1, AckedStays DEF Extends
<1>9. ASSUME NEW s \in Stores, AppendFails(s) PROVE AckedOnFile(lines, synced, acked)'
  BY <1>9 DEF AppendFails, AckedOnFile
<1>10. ASSUME NEW s \in Stores, Barrier(s) PROVE AckedOnFile(lines, synced, acked)'
  <2>1. /\ synced' = Len(lines) /\ lines' = lines /\ st[s] = "written"
        /\ acked' = acked \cup {mem[s][Len(mem[s])]}
    BY <1>10 DEF Barrier
  <2>2. AckedOnFile(lines, Len(lines), acked)
    BY AckedStays
  <2>3. PICK i \in 1 .. Len(lines) : Holds(lines, i, mem[s][Len(mem[s])])
    BY <2>1 DEF WrittenOnFile
  <2> QED
    BY <2>1, <2>2, <2>3 DEF AckedOnFile, Holds
<1>11. ASSUME NEW s \in Stores, BarrierFails(s) PROVE AckedOnFile(lines, synced, acked)'
  BY <1>11 DEF BarrierFails, AckedOnFile
<1>12. ASSUME NEW s \in Stores, CloseStore(s) PROVE AckedOnFile(lines, synced, acked)'
  <2>1. Extends(lines, lines') /\ UNCHANGED <<synced, acked>>
    BY <1>12, CloseStep DEF CloseStore, Typed
  <2> QED
    BY <2>1, AckedStays DEF Extends
<1>13. ASSUME NEW s \in Stores, Unlink(s) PROVE AckedOnFile(lines, synced, acked)'
  BY <1>13 DEF Unlink, AckedOnFile
<1>14. ASSUME NEW s \in Stores, CloseReader(s) PROVE AckedOnFile(lines, synced, acked)'
  BY <1>14 DEF CloseReader, AckedOnFile
<1>15. ASSUME NEW s \in Stores, ReleaseAtExit(s) PROVE AckedOnFile(lines, synced, acked)'
  BY <1>15 DEF ReleaseAtExit, AckedOnFile
<1>16. ASSUME NEW p \in Procs, Die(p) PROVE AckedOnFile(lines, synced, acked)'
  BY <1>16 DEF Die, Forget, AckedOnFile
<1>17. ASSUME NEW p \in Procs, Start(p) PROVE AckedOnFile(lines, synced, acked)'
  BY <1>17 DEF Start, AckedOnFile
<1>18. ASSUME PowerLoss PROVE AckedOnFile(lines, synced, acked)'
  <2>1. PICK k \in synced .. Len(lines) :
          synced' = k /\ \A i \in 1 .. k : lines'[i] = lines[i]
    BY <1>18, PowerStep DEF Typed
  <2>2. k \in Nat /\ synced \in Nat /\ synced <= k /\ \A i \in 1 .. synced : i \in 1 .. k
    OBVIOUS
  <2>3. acked' = acked
    BY <1>18 DEF PowerLoss
  <2> QED
    BY <2>1, <2>2, <2>3, AckedStays
<1>19. CASE UNCHANGED vars
  BY <1>19 DEF vars, AckedOnFile
<1> QED
  BY <1>1, <1>2, <1>3, <1>4, <1>5, <1>6, <1>7, <1>8, <1>9, <1>10, <1>11, <1>12, <1>13, <1>14,
     <1>15, <1>16, <1>17, <1>18, <1>19 DEF Next, StoreStep

LEMMA NextWritten ==
  ASSUME Typed, WrittenOnFile, [Next]_vars
  PROVE  WrittenOnFile'
<1>a. /\ st \in [Stores -> Phases] /\ mem \in [Stores -> Seq(Record)]
      /\ lines \in Seq(Record \cup {Bad}) /\ synced \in 0 .. Len(lines)
      /\ buf \in [Stores -> Record \cup {None}] /\ ProcOf \in [Stores -> Procs]
      /\ minted \in Nat
  BY ProcAssumption, BoundsAssumption DEF Typed, TypeOK
<1> USE <1>a DEF Goto, procVars, lockVars, fileVars, logVars
<1>1. ASSUME NEW s \in Stores, LookForLock(s) PROVE WrittenOnFile'
  BY <1>1 DEF LookForLock, WrittenOnFile, Holds
<1>2. ASSUME NEW s \in Stores, ReadLock(s) PROVE WrittenOnFile'
  BY <1>2 DEF ReadLock, WrittenOnFile, Holds
<1>3. ASSUME NEW s \in Stores, Demote(s) PROVE WrittenOnFile'
  BY <1>3 DEF Demote, WrittenOnFile, Holds
<1>4. ASSUME NEW s \in Stores, OpenLock(s) PROVE WrittenOnFile'
  BY <1>4 DEF OpenLock, WrittenOnFile, Holds
<1>5. ASSUME NEW s \in Stores, TakeLock(s) PROVE WrittenOnFile'
  BY <1>5 DEF TakeLock, WrittenOnFile, Holds
<1>6. ASSUME NEW s \in Stores, Stamp(s) PROVE WrittenOnFile'
  BY <1>6 DEF Stamp, WrittenOnFile, Holds
<1>7. ASSUME NEW s \in Stores, Load(s) PROVE WrittenOnFile'
  BY <1>7 DEF Load, WrittenOnFile, Holds
<1>8. ASSUME NEW s \in Stores, Append1(s) PROVE WrittenOnFile'
  <2>1. /\ Len(lines') = Len(lines) + 1 /\ Extends(lines, lines')
        /\ lines'[Len(lines) + 1] \in {NewRecord(s), Bad}
        /\ mem'[s][Len(mem'[s])] = NewRecord(s)
        /\ \A o \in Stores \ {s} : mem'[o] = mem[o] /\ st'[o] = st[o]
    BY <1>8, AppendStep
  <2>2. Len(lines) + 1 \in 1 .. Len(lines')
    BY <2>1
  <2>3. \A i \in 1 .. Len(lines) : i \in 1 .. Len(lines') /\ lines'[i] = lines[i]
    BY <2>1 DEF Extends
  <2> QED
    BY <2>1, <2>2, <2>3, ZenonT(60) DEF WrittenOnFile, Holds
<1>9. ASSUME NEW s \in Stores, AppendFails(s) PROVE WrittenOnFile'
  BY <1>9 DEF AppendFails, WrittenOnFile, Holds
<1>10. ASSUME NEW s \in Stores, Barrier(s) PROVE WrittenOnFile'
  BY <1>10 DEF Barrier, WrittenOnFile, Holds
<1>11. ASSUME NEW s \in Stores, BarrierFails(s) PROVE WrittenOnFile'
  BY <1>11 DEF BarrierFails, WrittenOnFile, Holds
<1>12. ASSUME NEW s \in Stores, CloseStore(s) PROVE WrittenOnFile'
  <2>1. Extends(lines, lines') /\ lines' \in Seq(Record \cup {Bad})
    BY <1>12, CloseStep DEF Typed
  <2>2. \A i \in 1 .. Len(lines) : i \in 1 .. Len(lines') /\ lines'[i] = lines[i]
    BY <2>1 DEF Extends
  <2>3. \A o \in Stores : st'[o] = "written" => st[o] = "written" /\ mem'[o] = mem[o]
    BY <1>12 DEF CloseStore
  <2> QED
    BY <2>2, <2>3 DEF WrittenOnFile, Holds
<1>13. ASSUME NEW s \in Stores, Unlink(s) PROVE WrittenOnFile'
  BY <1>13 DEF Unlink, WrittenOnFile, Holds
<1>14. ASSUME NEW s \in Stores, CloseReader(s) PROVE WrittenOnFile'
  BY <1>14 DEF CloseReader, WrittenOnFile, Holds
<1>15. ASSUME NEW s \in Stores, ReleaseAtExit(s) PROVE WrittenOnFile'
  BY <1>15 DEF ReleaseAtExit, WrittenOnFile, Holds
<1>16. ASSUME NEW p \in Procs, Die(p) PROVE WrittenOnFile'
  BY <1>16 DEF Die, Forget, WrittenOnFile, Holds
<1>17. ASSUME NEW p \in Procs, Start(p) PROVE WrittenOnFile'
  BY <1>17 DEF Start, WrittenOnFile, Holds
<1>18. ASSUME PowerLoss PROVE WrittenOnFile'
  BY <1>18, PowerStep DEF WrittenOnFile, Typed
<1>19. CASE UNCHANGED vars
  BY <1>19 DEF vars, WrittenOnFile, Holds
<1> QED
  BY <1>1, <1>2, <1>3, <1>4, <1>5, <1>6, <1>7, <1>8, <1>9, <1>10, <1>11, <1>12, <1>13, <1>14,
     <1>15, <1>16, <1>17, <1>18, <1>19 DEF Next, StoreStep

LEMMA NextKnows ==
  ASSUME Typed, Sole, WriterKnowsAcked, AckedOnFile(lines, synced, acked), [Next]_vars
  PROVE  WriterKnowsAcked'
<1>a. /\ st \in [Stores -> Phases] /\ mem \in [Stores -> Seq(Record)]
      /\ lines \in Seq(Record \cup {Bad}) /\ synced \in 0 .. Len(lines)
      /\ buf \in [Stores -> Record \cup {None}] /\ ProcOf \in [Stores -> Procs]
      /\ minted \in Nat
  BY ProcAssumption, BoundsAssumption DEF Typed, TypeOK
<1> USE <1>a DEF Goto, procVars, lockVars, fileVars, logVars
<1>1. ASSUME NEW s \in Stores, LookForLock(s) PROVE WriterKnowsAcked'
  BY <1>1 DEF LookForLock, WriterKnowsAcked, Writing
<1>2. ASSUME NEW s \in Stores, ReadLock(s) PROVE WriterKnowsAcked'
  BY <1>2 DEF ReadLock, WriterKnowsAcked, Writing
<1>3. ASSUME NEW s \in Stores, Demote(s) PROVE WriterKnowsAcked'
  BY <1>3 DEF Demote, WriterKnowsAcked, Writing
<1>4. ASSUME NEW s \in Stores, OpenLock(s) PROVE WriterKnowsAcked'
  BY <1>4 DEF OpenLock, WriterKnowsAcked, Writing
<1>5. ASSUME NEW s \in Stores, TakeLock(s) PROVE WriterKnowsAcked'
  BY <1>5 DEF TakeLock, WriterKnowsAcked, Writing
<1>6. ASSUME NEW s \in Stores, Stamp(s) PROVE WriterKnowsAcked'
  BY <1>6 DEF Stamp, WriterKnowsAcked, Writing
<1>7. ASSUME NEW s \in Stores, Load(s) PROVE WriterKnowsAcked'
  <2>1. CASE Bad \in Elements(lines)
    BY <1>7, <2>1 DEF Load, WriterKnowsAcked, Writing
  <2>2. CASE Bad \notin Elements(lines)
    <3>1. acked \subseteq Elements(lines)
      BY <2>2, SMTT(30) DEF AckedOnFile, Elements
    <3>2. /\ acked' = acked /\ mem'[s] = lines
          /\ \A o \in Stores \ {s} : mem'[o] = mem[o] /\ st'[o] = st[o]
      BY <1>7, <2>2 DEF Load
    <3> QED
      BY <3>1, <3>2 DEF WriterKnowsAcked
  <2> QED
    BY <2>1, <2>2
<1>8. ASSUME NEW s \in Stores, Append1(s) PROVE WriterKnowsAcked'
  <2>1. /\ Extends(mem[s], mem'[s]) /\ mem'[s] \in Seq(Record) /\ acked' = acked
        /\ st[s] = "writer"
        /\ \A o \in Stores \ {s} : mem'[o] = mem[o] /\ st'[o] = st[o]
    BY <1>8, AppendStep DEF Append1
  <2>2. Elements(mem[s]) \subseteq Elements(mem'[s])
    BY <2>1 DEF Extends, Elements
  <2> QED
    BY <2>1, <2>2 DEF WriterKnowsAcked, Writing
<1>9. ASSUME NEW s \in Stores, AppendFails(s) PROVE WriterKnowsAcked'
  BY <1>9 DEF AppendFails, WriterKnowsAcked, Writing
<1>10. ASSUME NEW s \in Stores, Barrier(s) PROVE WriterKnowsAcked'
  <2>1. /\ acked' = acked \cup {mem[s][Len(mem[s])]} /\ mem' = mem /\ st[s] = "written"
        /\ st' = [st EXCEPT ![s] = "writer"]
    BY <1>10 DEF Barrier
  <2>2. \A o \in Stores : st'[o] \in Writing => o = s
    BY <2>1 DEF Sole, Registered, Writing
  <2>3. mem[s] \in Seq(Record) /\ mem[s] # <<>>
    BY <2>1 DEF Typed
  <2>4. Len(mem[s]) \in 1 .. Len(mem[s])
    BY <2>3
  <2> QED
    BY <2>1, <2>2, <2>4 DEF WriterKnowsAcked, Writing, Elements
<1>11. ASSUME NEW s \in Stores, BarrierFails(s) PROVE WriterKnowsAcked'
  BY <1>11 DEF BarrierFails, WriterKnowsAcked, Writing
<1>12. ASSUME NEW s \in Stores, CloseStore(s) PROVE WriterKnowsAcked'
  BY <1>12 DEF CloseStore, WriterKnowsAcked, Writing
<1>13. ASSUME NEW s \in Stores, Unlink(s) PROVE WriterKnowsAcked'
  BY <1>13 DEF Unlink, WriterKnowsAcked, Writing
<1>14. ASSUME NEW s \in Stores, CloseReader(s) PROVE WriterKnowsAcked'
  BY <1>14 DEF CloseReader, WriterKnowsAcked, Writing
<1>15. ASSUME NEW s \in Stores, ReleaseAtExit(s) PROVE WriterKnowsAcked'
  BY <1>15 DEF ReleaseAtExit, WriterKnowsAcked, Writing
<1>16. ASSUME NEW p \in Procs, Die(p) PROVE WriterKnowsAcked'
  BY <1>16 DEF Die, Forget, WriterKnowsAcked, Writing
<1>17. ASSUME NEW p \in Procs, Start(p) PROVE WriterKnowsAcked'
  BY <1>17 DEF Start, WriterKnowsAcked, Writing
<1>18. ASSUME PowerLoss PROVE WriterKnowsAcked'
  BY <1>18, PowerStep DEF WriterKnowsAcked, Typed, Writing
<1>19. CASE UNCHANGED vars
  BY <1>19 DEF vars, WriterKnowsAcked, Writing
<1> QED
  BY <1>1, <1>2, <1>3, <1>4, <1>5, <1>6, <1>7, <1>8, <1>9, <1>10, <1>11, <1>12, <1>13, <1>14,
     <1>15, <1>16, <1>17, <1>18, <1>19 DEF Next, StoreStep

LEMMA NextMinting ==
  ASSUME Typed, Sole, NextIsNext, [Next]_vars
  PROVE  NextIsNext'
<1>a. /\ st \in [Stores -> Phases] /\ mem \in [Stores -> Seq(Record)]
      /\ lines \in Seq(Record \cup {Bad}) /\ synced \in 0 .. Len(lines)
      /\ buf \in [Stores -> Record \cup {None}] /\ ProcOf \in [Stores -> Procs]
      /\ minted \in Nat
  BY ProcAssumption, BoundsAssumption DEF Typed, TypeOK
<1> USE <1>a DEF Goto, procVars, lockVars, fileVars, logVars
<1>b. /\ \A s \in Stores : st[s] \in {"writer", "written"} => Len(mem[s]) = Len(lines)
      /\ \A s \in Stores : buf[s] # None => st[s] = "broken" /\ buf[s].seq = Len(lines) + 1
  BY DEF NextIsNext, Writing
<1>c. \A s, o \in Stores :
        st[s] \in {"writer", "written", "broken"} /\ st[o] \in {"writer", "written", "broken"}
          => s = o
  BY DEF Sole, Registered
<1>1. ASSUME NEW s \in Stores, LookForLock(s) PROVE NextIsNext'
  BY <1>1 DEF LookForLock, NextIsNext, Writing
<1>2. ASSUME NEW s \in Stores, ReadLock(s) PROVE NextIsNext'
  BY <1>2 DEF ReadLock, NextIsNext, Writing
<1>3. ASSUME NEW s \in Stores, Demote(s) PROVE NextIsNext'
  BY <1>3 DEF Demote, NextIsNext, Writing
<1>4. ASSUME NEW s \in Stores, OpenLock(s) PROVE NextIsNext'
  BY <1>4 DEF OpenLock, NextIsNext, Writing
<1>5. ASSUME NEW s \in Stores, TakeLock(s) PROVE NextIsNext'
  BY <1>5 DEF TakeLock, NextIsNext, Writing
<1>6. ASSUME NEW s \in Stores, Stamp(s) PROVE NextIsNext'
  BY <1>6 DEF Stamp, NextIsNext, Writing
<1>7. ASSUME NEW s \in Stores, Load(s) PROVE NextIsNext'
  <2>1. /\ lines' = lines /\ buf' = buf /\ st[s] \in {"loading", "rereading"}
        /\ st'[s] \in Writing => mem'[s] = lines
        /\ \A o \in Stores \ {s} : mem'[o] = mem[o] /\ st'[o] = st[o]
    BY <1>7 DEF Load, Writing
  <2> QED
    BY <1>b, <2>1 DEF NextIsNext, Writing
<1>8. ASSUME NEW s \in Stores, Append1(s) PROVE NextIsNext'
  <2>1. /\ Len(mem'[s]) = Len(mem[s]) + 1 /\ Len(lines') = Len(lines) + 1
        /\ buf' = buf /\ st[s] = "writer" /\ st'[s] = "written"
        /\ \A o \in Stores \ {s} : mem'[o] = mem[o] /\ st'[o] = st[o]
    BY <1>8, AppendStep DEF Append1
  <2>2. \A o \in Stores \ {s} : st'[o] \notin Writing /\ buf'[o] = None
    BY <1>b, <1>c, <2>1 DEF Writing
  <2> QED
    BY <1>b, <2>1, <2>2 DEF NextIsNext, Writing
<1>9. ASSUME NEW s \in Stores, AppendFails(s) PROVE NextIsNext'
  <2>1. /\ buf' = [buf EXCEPT ![s] = NewRecord(s)] /\ lines' = lines /\ mem' = mem
        /\ st' = [st EXCEPT ![s] = "broken"] /\ st[s] = "writer"
    BY <1>9 DEF AppendFails
  <2>2. NewRecord(s).seq = Len(lines) + 1
    BY <1>b, <2>1 DEF NewRecord
  <2> QED
    BY <1>b, <2>1, <2>2 DEF NextIsNext, Writing
<1>10. ASSUME NEW s \in Stores, Barrier(s) PROVE NextIsNext'
  BY <1>10 DEF Barrier, NextIsNext, Writing
<1>11. ASSUME NEW s \in Stores, BarrierFails(s) PROVE NextIsNext'
  BY <1>11 DEF BarrierFails, NextIsNext, Writing
<1>12. ASSUME NEW s \in Stores, CloseStore(s) PROVE NextIsNext'
  <2>1. /\ buf' = [buf EXCEPT ![s] = None] /\ mem' = [mem EXCEPT ![s] = <<>>]
        /\ st' = [st EXCEPT ![s] = "unlinking"] /\ st[s] \in {"writer", "broken"}
    BY <1>12 DEF CloseStore
  <2>2. \A o \in Stores : st'[o] \notin Writing /\ buf'[o] = None
    BY <1>b, <1>c, <2>1 DEF Writing
  <2> QED
    BY <2>2 DEF NextIsNext
<1>13. ASSUME NEW s \in Stores, Unlink(s) PROVE NextIsNext'
  BY <1>13 DEF Unlink, NextIsNext, Writing
<1>14. ASSUME NEW s \in Stores, CloseReader(s) PROVE NextIsNext'
  BY <1>14 DEF CloseReader, NextIsNext, Writing
<1>15. ASSUME NEW s \in Stores, ReleaseAtExit(s) PROVE NextIsNext'
  BY <1>15 DEF ReleaseAtExit, NextIsNext, Writing
<1>16. ASSUME NEW p \in Procs, Die(p) PROVE NextIsNext'
  BY <1>16 DEF Die, Forget, NextIsNext, Writing
<1>17. ASSUME NEW p \in Procs, Start(p) PROVE NextIsNext'
  BY <1>17 DEF Start, NextIsNext, Writing
<1>18. ASSUME PowerLoss PROVE NextIsNext'
  BY <1>18, PowerStep DEF NextIsNext, Typed, Writing
<1>19. CASE UNCHANGED vars
  BY <1>19 DEF vars, NextIsNext, Writing
<1> QED
  BY <1>1, <1>2, <1>3, <1>4, <1>5, <1>6, <1>7, <1>8, <1>9, <1>10, <1>11, <1>12, <1>13, <1>14,
     <1>15, <1>16, <1>17, <1>18, <1>19 DEF Next, StoreStep

LEMMA NextSeqs ==
  ASSUME Typed, NextIsNext, SeqNamesOneRecord, [Next]_vars
  PROVE  SeqNamesOneRecord'
<1>a. /\ st \in [Stores -> Phases] /\ mem \in [Stores -> Seq(Record)]
      /\ lines \in Seq(Record \cup {Bad}) /\ synced \in 0 .. Len(lines)
      /\ buf \in [Stores -> Record \cup {None}] /\ ProcOf \in [Stores -> Procs]
      /\ minted \in Nat
  BY ProcAssumption, BoundsAssumption DEF Typed, TypeOK
<1> USE <1>a DEF Goto, procVars, lockVars, fileVars, logVars
<1>1. ASSUME NEW s \in Stores, LookForLock(s) PROVE SeqNamesOneRecord'
  BY <1>1 DEF LookForLock, SeqNamesOneRecord
<1>2. ASSUME NEW s \in Stores, ReadLock(s) PROVE SeqNamesOneRecord'
  BY <1>2 DEF ReadLock, SeqNamesOneRecord
<1>3. ASSUME NEW s \in Stores, Demote(s) PROVE SeqNamesOneRecord'
  BY <1>3 DEF Demote, SeqNamesOneRecord
<1>4. ASSUME NEW s \in Stores, OpenLock(s) PROVE SeqNamesOneRecord'
  BY <1>4 DEF OpenLock, SeqNamesOneRecord
<1>5. ASSUME NEW s \in Stores, TakeLock(s) PROVE SeqNamesOneRecord'
  BY <1>5 DEF TakeLock, SeqNamesOneRecord
<1>6. ASSUME NEW s \in Stores, Stamp(s) PROVE SeqNamesOneRecord'
  BY <1>6 DEF Stamp, SeqNamesOneRecord
<1>7. ASSUME NEW s \in Stores, Load(s) PROVE SeqNamesOneRecord'
  BY <1>7 DEF Load, SeqNamesOneRecord
<1>8. ASSUME NEW s \in Stores, Append1(s) PROVE SeqNamesOneRecord'
  <2>1. /\ Extends(lines, lines') /\ Len(lines') = Len(lines) + 1
        /\ lines'[Len(lines) + 1] \in {NewRecord(s), Bad}
    BY <1>8, AppendStep
  <2>2. NewRecord(s).seq = Len(lines) + 1
    BY <1>8 DEF NextIsNext, Writing, Append1, NewRecord
  <2>3. \A i \in 1 .. Len(lines') : i \in 1 .. Len(lines) \/ i = Len(lines) + 1
    BY <2>1
  <2> QED
    BY <2>1, <2>2, <2>3 DEF SeqNamesOneRecord, Extends
<1>9. ASSUME NEW s \in Stores, AppendFails(s) PROVE SeqNamesOneRecord'
  BY <1>9 DEF AppendFails, SeqNamesOneRecord
<1>10. ASSUME NEW s \in Stores, Barrier(s) PROVE SeqNamesOneRecord'
  BY <1>10 DEF Barrier, SeqNamesOneRecord
<1>11. ASSUME NEW s \in Stores, BarrierFails(s) PROVE SeqNamesOneRecord'
  BY <1>11 DEF BarrierFails, SeqNamesOneRecord
<1>12. ASSUME NEW s \in Stores, CloseStore(s) PROVE SeqNamesOneRecord'
  <2>1. CASE lines' = lines
    BY <2>1 DEF SeqNamesOneRecord
  <2>2. CASE /\ buf[s] # None /\ Len(lines') = Len(lines) + 1
             /\ lines'[Len(lines) + 1] \in {buf[s], Bad}
    <3>1. buf[s].seq = Len(lines) + 1
      BY <2>2 DEF NextIsNext
    <3>2. Extends(lines, lines')
      BY <1>12, CloseStep DEF Typed
    <3>3. \A i \in 1 .. Len(lines') : i \in 1 .. Len(lines) \/ i = Len(lines) + 1
      BY <2>2
    <3> QED
      BY <2>2, <3>1, <3>2, <3>3 DEF SeqNamesOneRecord, Extends
  <2> QED
    BY <1>12, <2>1, <2>2, CloseStep DEF Typed
<1>13. ASSUME NEW s \in Stores, Unlink(s) PROVE SeqNamesOneRecord'
  BY <1>13 DEF Unlink, SeqNamesOneRecord
<1>14. ASSUME NEW s \in Stores, CloseReader(s) PROVE SeqNamesOneRecord'
  BY <1>14 DEF CloseReader, SeqNamesOneRecord
<1>15. ASSUME NEW s \in Stores, ReleaseAtExit(s) PROVE SeqNamesOneRecord'
  BY <1>15 DEF ReleaseAtExit, SeqNamesOneRecord
<1>16. ASSUME NEW p \in Procs, Die(p) PROVE SeqNamesOneRecord'
  BY <1>16 DEF Die, Forget, SeqNamesOneRecord
<1>17. ASSUME NEW p \in Procs, Start(p) PROVE SeqNamesOneRecord'
  BY <1>17 DEF Start, SeqNamesOneRecord
<1>18. ASSUME PowerLoss PROVE SeqNamesOneRecord'
  <2>1. PICK k \in synced .. Len(lines) :
          Len(lines') = k /\ \A i \in 1 .. k : lines'[i] = lines[i]
    BY <1>18, PowerStep DEF Typed
  <2>2. \A i \in 1 .. k : i \in 1 .. Len(lines)
    OBVIOUS
  <2> QED
    BY <2>1, <2>2 DEF SeqNamesOneRecord
<1>19. CASE UNCHANGED vars
  BY <1>19 DEF vars, SeqNamesOneRecord
<1> QED
  BY <1>1, <1>2, <1>3, <1>4, <1>5, <1>6, <1>7, <1>8, <1>9, <1>10, <1>11, <1>12, <1>13, <1>14,
     <1>15, <1>16, <1>17, <1>18, <1>19 DEF Next, StoreStep

LEMMA NextReplay ==
  ASSUME Typed, ReplayIsCommitted, [Next]_vars
  PROVE  ReplayIsCommitted'
<1>a. /\ st \in [Stores -> Phases] /\ mem \in [Stores -> Seq(Record)]
      /\ lines \in Seq(Record \cup {Bad}) /\ synced \in 0 .. Len(lines)
      /\ buf \in [Stores -> Record \cup {None}] /\ ProcOf \in [Stores -> Procs]
      /\ minted \in Nat
  BY ProcAssumption, BoundsAssumption DEF Typed, TypeOK
<1> USE <1>a DEF Goto, procVars, lockVars, fileVars, logVars
<1> DEFINE Open == {"writer", "written", "broken", "reader"}
           Replayed(s) == \A i \in 1 .. Len(mem[s]) :
             mem[s][i].by # s => i \in 1 .. Len(lines) /\ lines[i] = mem[s][i]
           Replayed2(s) == \A i \in 1 .. Len(mem'[s]) :
             mem'[s][i].by # s => i \in 1 .. Len(lines') /\ lines'[i] = mem'[s][i]
<1>b. \A s \in Stores : st[s] \in Open => Replayed(s)
  BY DEF ReplayIsCommitted
<1>c. ASSUME Extends(lines, lines'), Len(lines') \in Nat,
             \A s \in Stores : st'[s] \in Open => st[s] \in Open /\ mem'[s] = mem[s]
      PROVE  ReplayIsCommitted'
  <2>1. \A i \in 1 .. Len(lines) : i \in 1 .. Len(lines') /\ lines'[i] = lines[i]
    BY <1>c DEF Extends
  <2> QED
    BY <1>b, <1>c, <2>1 DEF ReplayIsCommitted
<1>d. Extends(lines, lines) /\ Len(lines) \in Nat
  BY DEF Extends
<1>e. (\A o \in Stores : st'[o] \in Open => Replayed2(o)) => ReplayIsCommitted'
  BY DEF ReplayIsCommitted
<1>1. ASSUME NEW s \in Stores, LookForLock(s) PROVE ReplayIsCommitted'
  BY <1>c, <1>d, <1>1 DEF LookForLock, Dropped
<1>2. ASSUME NEW s \in Stores, ReadLock(s) PROVE ReplayIsCommitted'
  BY <1>c, <1>d, <1>2 DEF ReadLock, Dropped
<1>3. ASSUME NEW s \in Stores, Demote(s) PROVE ReplayIsCommitted'
  BY <1>c, <1>d, <1>3 DEF Demote, Dropped
<1>4. ASSUME NEW s \in Stores, OpenLock(s) PROVE ReplayIsCommitted'
  BY <1>c, <1>d, <1>4 DEF OpenLock, Dropped
<1>5. ASSUME NEW s \in Stores, TakeLock(s) PROVE ReplayIsCommitted'
  BY <1>c, <1>d, <1>5 DEF TakeLock, Dropped
<1>6. ASSUME NEW s \in Stores, Stamp(s) PROVE ReplayIsCommitted'
  BY <1>c, <1>d, <1>6 DEF Stamp, Dropped
<1>7. ASSUME NEW s \in Stores, Load(s) PROVE ReplayIsCommitted'
  <2>1. /\ lines' = lines /\ \A o \in Stores \ {s} : mem'[o] = mem[o] /\ st'[o] = st[o]
        /\ st'[s] \in Open => mem'[s] = lines
    BY <1>7 DEF Load
  <2> QED
    BY <1>b, <2>1 DEF ReplayIsCommitted
<1>8. ASSUME NEW s \in Stores, Append1(s) PROVE ReplayIsCommitted'
  <2>1. /\ Extends(lines, lines') /\ Len(lines') = Len(lines) + 1 /\ st[s] = "writer"
        /\ Extends(mem[s], mem'[s]) /\ Len(mem'[s]) = Len(mem[s]) + 1
        /\ mem'[s][Len(mem[s]) + 1] = NewRecord(s) /\ NewRecord(s).by = s
        /\ \A o \in Stores \ {s} : mem'[o] = mem[o] /\ st'[o] = st[o]
    BY <1>8, AppendStep DEF Append1, NewRecord
  <2>2. \A i \in 1 .. Len(lines) : i \in 1 .. Len(lines') /\ lines'[i] = lines[i]
    BY <2>1 DEF Extends
  <2>3. \A i \in 1 .. Len(mem'[s]) : i \in 1 .. Len(mem[s]) \/ i = Len(mem[s]) + 1
    BY <2>1
  <2>4. Replayed2(s)
    BY <1>b, <2>1, <2>2, <2>3 DEF Extends
  <2>5. \A o \in Stores \ {s} : st'[o] \in Open => Replayed2(o)
    BY <1>b, <2>1, <2>2
  <2> QED
    BY <1>e, <2>4, <2>5
<1>9. ASSUME NEW s \in Stores, AppendFails(s) PROVE ReplayIsCommitted'
  BY <1>c, <1>d, <1>9 DEF AppendFails, Dropped
<1>10. ASSUME NEW s \in Stores, Barrier(s) PROVE ReplayIsCommitted'
  BY <1>c, <1>d, <1>10 DEF Barrier, Dropped
<1>11. ASSUME NEW s \in Stores, BarrierFails(s) PROVE ReplayIsCommitted'
  BY <1>c, <1>d, <1>11 DEF BarrierFails, Dropped
<1>12. ASSUME NEW s \in Stores, CloseStore(s) PROVE ReplayIsCommitted'
  <2>1. Extends(lines, lines') /\ lines' \in Seq(Record \cup {Bad})
    BY <1>12, CloseStep DEF Typed
  <2>2. \A o \in Stores : st'[o] \in Open => st[o] \in Open /\ mem'[o] = mem[o]
    BY <1>12 DEF CloseStore
  <2> QED
    BY <1>c, <2>1, <2>2
<1>13. ASSUME NEW s \in Stores, Unlink(s) PROVE ReplayIsCommitted'
  BY <1>c, <1>d, <1>13 DEF Unlink, Dropped
<1>14. ASSUME NEW s \in Stores, CloseReader(s) PROVE ReplayIsCommitted'
  BY <1>c, <1>d, <1>14 DEF CloseReader, Dropped
<1>15. ASSUME NEW s \in Stores, ReleaseAtExit(s) PROVE ReplayIsCommitted'
  BY <1>c, <1>d, <1>15 DEF ReleaseAtExit, Dropped
<1>16. ASSUME NEW p \in Procs, Die(p) PROVE ReplayIsCommitted'
  BY <1>c, <1>d, <1>16 DEF Die, Forget
<1>17. ASSUME NEW p \in Procs, Start(p) PROVE ReplayIsCommitted'
  BY <1>c, <1>d, <1>17 DEF Start
<1>18. ASSUME PowerLoss PROVE ReplayIsCommitted'
  BY <1>18, PowerStep DEF ReplayIsCommitted, Typed
<1>19. CASE UNCHANGED vars
  BY <1>c, <1>d, <1>19 DEF vars
<1> QED
  BY <1>1, <1>2, <1>3, <1>4, <1>5, <1>6, <1>7, <1>8, <1>9, <1>10, <1>11, <1>12, <1>13, <1>14,
     <1>15, <1>16, <1>17, <1>18, <1>19 DEF Next, StoreStep

LEMMA NextFile == Typed /\ Sole /\ FileOK /\ [Next]_vars => FileOK'
  BY NextAcked, NextWritten, NextKnows, NextMinting, NextSeqs, NextReplay DEF FileOK

LEMMA InitFile == Init => Typed /\ FileOK
<1> SUFFICES ASSUME Init PROVE Typed /\ FileOK
  OBVIOUS
<1>1. /\ lines = <<>> /\ synced = 0 /\ acked = {}
      /\ \A s \in Stores : st[s] = "closed" /\ mem[s] = <<>> /\ buf[s] = None
  BY DEF Init
<1>2. Typed
  BY <1>1, InitTypeOK DEF Typed
<1>3. AckedOnFile(lines, synced, acked) /\ SeqNamesOneRecord
  BY <1>1 DEF AckedOnFile, SeqNamesOneRecord
<1>4. WrittenOnFile /\ NextIsNext /\ WriterKnowsAcked /\ ReplayIsCommitted
  BY <1>1 DEF WrittenOnFile, NextIsNext, WriterKnowsAcked, ReplayIsCommitted, Writing
<1> QED
  BY <1>2, <1>3, <1>4 DEF FileOK

-----------------------------------------------------------------------------
(* Theorems *)

(* Every variable has its type, through torn and failed writes, kills and  *)
(* power cuts (EventStore.__init__, _append_one, close).                   *)
THEOREM RecordFileTypes == Spec => []TypeOK
<1>1. Typed => TypeOK
  BY DEF Typed
<1> QED
  BY <1>1, InitFile, NextTyped, PTL DEF Spec

(* Of the stores of one process one at a time is admitted as the writer,   *)
(* whatever the lock does: the registry of live writers sees to it         *)
(* (_live_writers, _acquire_lock).                                         *)
OneWriterPerProcess ==
  \A s, o \in Stores :
    ProcOf[s] = ProcOf[o] /\ st[s] \in Registered /\ st[o] \in Registered => s = o

THEOREM ProcessAdmitsOneWriter == Spec => []OneWriterPerProcess
<1>1. RegistryOK => OneWriterPerProcess
  BY DEF RegistryOK, OneWriterPerProcess
<1> QED
  BY <1>1, RecordFileTypes, InitRegistry, NextRegistry, PTL DEF Spec

LEMMA SoleIsOneWriter == Sole /\ FileOK => WriterHoldsTheRecord
<1>1. Sole => OneWriter
  BY DEF Sole, OneWriter, Registered, Writing
<1> QED
  BY <1>1 DEF FileOK, WriterHoldsTheRecord

(* One process may open, close and reopen the record with as many stores   *)
(* as it likes, be killed and started again, lose power and meet failed    *)
(* and torn writes: one store is the writer, and it has replayed           *)
(* everything that was ever acknowledged (EventStore.__init__, close).     *)
THEOREM OneProcessHoldsTheRecord ==
  ASSUME \A s, o \in Stores : ProcOf[s] = ProcOf[o]
  PROVE  Spec => []WriterHoldsTheRecord
<1>1. RegistryOK => Sole
  BY DEF RegistryOK, Sole
<1>2. Typed => TypeOK
  BY DEF Typed
<1> QED
  BY <1>1, <1>2, InitRegistry, NextRegistry, InitFile, NextTyped, NextFile, SoleIsOneWriter,
     PTL DEF Spec

(* Processes that each open the record once race for the lock, are killed  *)
(* and started again: as long as nobody unlinks the lock file, what the OS *)
(* lock promises is enough, whatever the pid in it says (lock_write).      *)
THEOREM RacersHoldTheRecord ==
  ASSUME Racers
  PROVE  Spec => []WriterHoldsTheRecord
<1>1. LockOK => Sole
  BY DEF LockOK, Sole, Racers, Holding
<1>2. Typed => TypeOK
  BY DEF Typed
<1>3. TypeOK /\ LockOK /\ [Next]_vars => LockOK'
  BY NextLock
<1> QED
  BY <1>1, <1>2, <1>3, InitLock, InitFile, NextTyped, NextFile, SoleIsOneWriter, PTL DEF Spec

-----------------------------------------------------------------------------
(* The files seam to the kernel module (KernelPort)                        *)

CONSTANTS Names, Uids, Mapped, Depth, Empty, MaxRec, Ops, Audited, NodeTypes, Contents, Owners,
          MoveTrees, Recovers
VARIABLES rec, todo, state, locks, high, above, undone

Seam == INSTANCE KernelPort

LEMMA LeastOf ==
  ASSUME NEW S, S \subseteq Nat, S # {}
  PROVE  \E n \in S : \A m \in S : n <= m
<1>1. PICK n \in S : \A m \in S : ~(<<m, n>> \in OpToRel(<, Nat))
  BY WFMin, NatLessThanWellFounded
<1>2. \A m \in S : ~(m < n)
  BY <1>1 DEF OpToRel
<1> QED
  BY <1>2

(* What holds at 0 and from each number to the next fails nowhere.          *)
LEMMA Climb ==
  ASSUME NEW n \in Nat, NEW D, D \subseteq 0..n, 0 \notin D, \A k \in 1..n : k \in D => k - 1 \in D
  PROVE  D = {}
<1> SUFFICES ASSUME D # {} PROVE FALSE
  OBVIOUS
<1>0. D \subseteq Nat
  OBVIOUS
<1>1. PICK k \in D : \A m \in D : k <= m
  BY <1>0, LeastOf
<1>2. k \in 1..n
  OBVIOUS
<1> QED BY <1>1, <1>2

LEMMA GreatestOf ==
  ASSUME NEW n \in Nat, NEW S, S \subseteq 1..n, S # {}
  PROVE  \E k \in S : \A m \in S : m <= k
<1> DEFINE D == {n - k : k \in S}
<1>0. \A k \in S : k \in 1..n
  OBVIOUS
<1>1. D \subseteq Nat /\ D # {}
  <2>1. \A k \in S : n - k \in Nat
    BY <1>0
  <2> QED BY <2>1
<1>2. PICK d \in D : \A m \in D : d <= m
  BY <1>1, LeastOf
<1>3. PICK k \in S : d = n - k
  OBVIOUS
<1>4. \A m \in S : n - k <= n - m
  BY <1>2, <1>3
<1> QED BY <1>3, <1>4

(* The equation by which the local live is defined (RecoveredPoints). *)
LiveIs(r, f) ==
  f = [i \in 1..Len(r) |-> /\ r[i].op = "RECOVER"
                           /\ \A l \in (i+1)..Len(r) : f[l] => i <= r[l].val]

LEMMA OneLive ==
  ASSUME NEW r, Len(r) \in Nat, NEW f, NEW g, LiveIs(r, f), LiveIs(r, g)
  PROVE  f = g
<1> DEFINE D == {i \in 1..Len(r) : f[i] # g[i]}
<1>1. \A i \in 1..Len(r) : f[i] = (r[i].op = "RECOVER" /\ \A l \in (i+1)..Len(r) : f[l] => i <= r[l].val)
  BY DEF LiveIs
<1>2. \A i \in 1..Len(r) : g[i] = (r[i].op = "RECOVER" /\ \A l \in (i+1)..Len(r) : g[l] => i <= r[l].val)
  BY DEF LiveIs
<1>3. D = {}
  <2> SUFFICES ASSUME D # {} PROVE FALSE
    OBVIOUS
  <2>1. PICK k \in D : \A m \in D : m <= k
    BY GreatestOf
  <2>2. \A l \in (k+1)..Len(r) : f[l] = g[l]
    BY <2>1
  <2>3. f[k] = g[k]
    BY <1>1, <1>2, <2>1, <2>2
  <2> QED BY <2>1, <2>3
<1>4. \A i \in 1..Len(r) : f[i] = g[i]
  BY <1>3
<1>5. DOMAIN f = 1..Len(r) /\ DOMAIN g = 1..Len(r) /\ f = [i \in DOMAIN f |-> f[i]] /\ g = [i \in DOMAIN g |-> g[i]]
  BY DEF LiveIs
<1> QED BY <1>4, <1>5

(* From the k-th record on. *)
LiveFrom(r, k, f) ==
  f = [i \in k..Len(r) |-> /\ r[i].op = "RECOVER"
                           /\ \A l \in (i+1)..Len(r) : f[l] => i <= r[l].val]

LEMMA SomeLive ==
  ASSUME NEW r, Len(r) \in Nat
  PROVE  \E f : LiveIs(r, f)
<1> DEFINE n == Len(r)
           Bad0 == {k \in 0..n : ~ \E f : LiveFrom(r, n + 1 - k, f)}
<1>1. Bad0 = {}
  <2> SUFFICES ASSUME Bad0 # {} PROVE FALSE
    OBVIOUS
  <2>0. Bad0 \subseteq Nat
    OBVIOUS
  <2>1. PICK k \in Bad0 : \A m \in Bad0 : k <= m
    BY <2>0, LeastOf
  <2>2. CASE k = 0
    <3>1. LiveFrom(r, n + 1, [i \in {} |-> TRUE])
      BY DEF LiveFrom
    <3> QED BY <2>1, <2>2, <3>1
  <2>3. CASE k # 0
    <3>1. k - 1 \in 0..n /\ k - 1 \notin Bad0 /\ n + 1 - (k - 1) = n + 2 - k
      BY <2>1, <2>3
    <3>2. PICK f : LiveFrom(r, n + 2 - k, f)
      BY <3>1
    <3> DEFINE j == n + 1 - k
               g == [i \in j..n |-> IF i = j
                       THEN /\ r[j].op = "RECOVER"
                            /\ \A l \in (j+1)..n : f[l] => j <= r[l].val
                       ELSE f[i]]
    <3>3. j \in 1..n /\ j + 1 = n + 2 - k
      BY <2>1, <2>3
    <3>4. \A i \in (j+1)..n : f[i] = (r[i].op = "RECOVER" /\ \A l \in (i+1)..n : f[l] => i <= r[l].val)
      BY <3>2, <3>3 DEF LiveFrom
    <3> DEFINE atJ == r[j].op = "RECOVER" /\ \A l \in (j+1)..n : f[l] => j <= r[l].val
    <3>8. g = [i \in j..n |-> IF i = j THEN atJ ELSE f[i]]
      OBVIOUS
    <3>9. \A i \in (j+1)..n : i \in j..n /\ i # j
      BY <3>3
    <3>10. j \in j..n
      BY <3>3
    <3> HIDE DEF g, atJ
    <3>5. \A i \in (j+1)..n : g[i] = f[i] /\ i # j
      BY <3>8, <3>9
    <3>11. g[j] = atJ
      BY <3>8, <3>10
    <3>6. \A i \in j..n : g[i] = (r[i].op = "RECOVER" /\ \A l \in (i+1)..n : g[l] => i <= r[l].val)
      <4> TAKE i \in j..n
      <4>1. \A l \in (i+1)..n : g[l] = f[l]
        <5>1. \A l \in (i+1)..n : l \in (j+1)..n
          BY <3>3
        <5> QED BY <3>5, <5>1
      <4>2. CASE i = j
        BY <3>11, <4>1, <4>2 DEF atJ
      <4>3. CASE i # j
        <5>1. i \in (j+1)..n
          BY <3>3, <4>3
        <5> QED BY <3>4, <3>5, <4>1, <5>1
      <4> QED BY <4>2, <4>3
    <3>7. LiveFrom(r, j, g)
      BY <3>6, <3>8 DEF LiveFrom
    <3> QED BY <2>1, <3>7
  <2> QED BY <2>2, <2>3
<1>2. n \notin Bad0 /\ n \in 0..n /\ n + 1 - n = 1
  BY <1>1
<1>3. PICK f : LiveFrom(r, 1, f)
  BY <1>2
<1> QED BY <1>3 DEF LiveFrom, LiveIs

(* The recoveries in force, by what they are. *)
LEMMA PointsAre ==
  ASSUME NEW r, Len(r) \in Nat
  PROVE  \E f : LiveIs(r, f) /\ Seam!RecoveredPoints(r) = {i \in 1..Len(r) : f[i]}
<1> DEFINE force == CHOOSE f : LiveIs(r, f)
<1>1. LiveIs(r, force)
  BY SomeLive
<1>2. Seam!RecoveredPoints(r) = {i \in 1..Len(r) : force[i]}
  BY DEF Seam!RecoveredPoints, LiveIs
<1> QED BY <1>1, <1>2

(* A record that recovers nothing leaves them as they were. *)
LEMMA PointsStay ==
  ASSUME NEW S, NEW r \in Seq(S), NEW e \in S, e.op # "RECOVER"
  PROVE  Seam!RecoveredPoints(Append(r, e)) = Seam!RecoveredPoints(r)
<1> DEFINE q == Append(r, e)
           n == Len(r)
<1>1. /\ n \in Nat /\ Len(q) = n + 1 /\ q[n + 1] = e /\ Len(q) \in Nat
      /\ \A i \in 1..n : q[i] = r[i]
  BY AppendProperties, LenProperties
<1>2. PICK f : LiveIs(r, f) /\ Seam!RecoveredPoints(r) = {i \in 1..n : f[i]}
  BY <1>1, PointsAre
<1>4. \A i \in 1..n : f[i] = (r[i].op = "RECOVER" /\ \A l \in (i+1)..n : f[l] => i <= r[l].val)
  BY <1>2 DEF LiveIs
<1> DEFINE g == [i \in 1..(n + 1) |-> IF i = n + 1 THEN FALSE ELSE f[i]]
<1>5. /\ g = [i \in 1..(n + 1) |-> g[i]]
      /\ g[n + 1] = FALSE
      /\ \A i \in 1..n : g[i] = f[i]
  <2>1. n + 1 \in 1..(n + 1)
    BY <1>1
  <2>2. \A i \in 1..n : i \in 1..(n + 1) /\ i # n + 1
    BY <1>1
  <2> HIDE DEF n
  <2> QED BY <2>1, <2>2
<1> HIDE DEF q, n, g
<1>3. PICK h : LiveIs(q, h) /\ Seam!RecoveredPoints(q) = {i \in 1..(n + 1) : h[i]}
  BY <1>1, PointsAre
<1>6. \A i \in 1..(n + 1) :
        g[i] = (q[i].op = "RECOVER" /\ \A l \in (i+1)..(n + 1) : g[l] => i <= q[l].val)
  <2> TAKE i \in 1..(n + 1)
  <2>1. CASE i = n + 1
    BY <1>1, <1>5, <2>1
  <2>2. CASE i # n + 1
    <3>0. i \in 1..n
      BY <1>1, <2>2
    <3>1. i \in 1..n /\ q[i] = r[i] /\ g[i] = f[i]
      BY <1>1, <1>5, <3>0
    <3>2. (\A l \in (i+1)..(n + 1) : g[l] => i <= q[l].val)
          <=> (\A l \in (i+1)..n : f[l] => i <= r[l].val)
      <4>1. \A l \in (i+1)..n : l \in (i+1)..(n + 1) /\ l \in 1..n
        BY <1>1, <3>1
      <4>2. \A l \in (i+1)..(n + 1) : l = n + 1 \/ l \in (i+1)..n
        BY <1>1
      <4>3. \A l \in (i+1)..n : g[l] = f[l] /\ q[l] = r[l]
        BY <1>1, <1>5, <4>1
      <4> QED BY <1>5, <4>1, <4>2, <4>3
    <3>3. f[i] = (r[i].op = "RECOVER" /\ \A l \in (i+1)..n : f[l] => i <= r[l].val)
      BY <1>4, <3>1
    <3> QED BY <3>1, <3>2, <3>3
  <2> QED BY <2>1, <2>2
<1>7. LiveIs(q, g)
  BY <1>1, <1>5, <1>6 DEF LiveIs
<1>8. h = g
  BY <1>1, <1>3, <1>7, OneLive
<1>9. Seam!RecoveredPoints(q) = Seam!RecoveredPoints(r)
  <2>1. /\ \A i \in 1..(n + 1) : i = n + 1 \/ i \in 1..n
        /\ \A i \in 1..n : i \in 1..(n + 1)
    BY <1>1
  <2>2. h[n + 1] = FALSE /\ \A i \in 1..n : h[i] = f[i]
    BY <1>5, <1>8
  <2>3. {i \in 1..(n + 1) : h[i]} = {i \in 1..n : f[i]}
    BY <2>1, <2>2
  <2> QED BY <1>2, <1>3, <2>3
<1> QED BY <1>9 DEF q

(* The equation of the fold over the record, but for what was given up.     *)
SkippedIn(r, i) == \E p \in Seam!RecoveredPoints(r) : r[p].val < i /\ i <= p

FoldIs(r, n, s) ==
  s = [i \in 0..n |-> IF i = 0 THEN Seam!EmptyState
                      ELSE IF SkippedIn(r, i) THEN s[i - 1] ELSE Seam!Apply(s[i - 1], r[i], i)]

LEMMA SomeFold ==
  ASSUME NEW r, NEW n \in Nat
  PROVE  \E s : FoldIs(r, n, s)
<1> DEFINE D == {k \in 0..n : ~ \E s : FoldIs(r, k, s)}
<1>1. D = {}
  <2> SUFFICES ASSUME D # {} PROVE FALSE
    OBVIOUS
  <2>0. D \subseteq Nat
    OBVIOUS
  <2>1. PICK k \in D : \A m \in D : k <= m
    BY <2>0, LeastOf
  <2>2. CASE k = 0
    <3>1. FoldIs(r, 0, [i \in 0..0 |-> Seam!EmptyState])
      BY DEF FoldIs
    <3> QED BY <2>1, <2>2, <3>1
  <2>3. CASE k # 0
    <3>1. k \in 1..n /\ k - 1 \in 0..n /\ k - 1 \notin D
      BY <2>1, <2>3
    <3>2. PICK s : FoldIs(r, k - 1, s)
      BY <3>1
    <3> DEFINE new == IF SkippedIn(r, k) THEN s[k - 1] ELSE Seam!Apply(s[k - 1], r[k], k)
    <3> HIDE DEF new
    <3> DEFINE t == [i \in 0..k |-> IF i = k THEN new ELSE s[i]]
    <3>3. t[k] = new /\ \A i \in 0..(k-1) : t[i] = s[i] /\ i # k
      BY <3>1
    <3>4. \A i \in 0..(k-1) : s[i] = IF i = 0 THEN Seam!EmptyState
                ELSE IF SkippedIn(r, i) THEN s[i - 1] ELSE Seam!Apply(s[i - 1], r[i], i)
      BY <3>2 DEF FoldIs
    <3>5. t = [i \in 0..k |-> t[i]]
      OBVIOUS
    <3> HIDE DEF t
    <3>6. \A i \in 0..k : t[i] = IF i = 0 THEN Seam!EmptyState
                ELSE IF SkippedIn(r, i) THEN t[i - 1] ELSE Seam!Apply(t[i - 1], r[i], i)
      <4> TAKE i \in 0..k
      <4>1. CASE i = k
        <5>1. k - 1 \in 0..(k-1) /\ t[k-1] = s[k-1]
          BY <3>1, <3>3
        <5> QED BY <3>1, <3>3, <4>1, <5>1 DEF new
      <4>2. CASE i # k
        <5>1. i \in 0..(k-1) /\ (i # 0 => i - 1 \in 0..(k-1))
          BY <3>1, <4>2
        <5>2. t[i] = s[i] /\ (i # 0 => t[i-1] = s[i-1])
          BY <3>3, <5>1
        <5> QED BY <3>4, <5>1, <5>2
      <4> QED BY <4>1, <4>2
    <3>7. FoldIs(r, k, t)
      BY <3>5, <3>6 DEF FoldIs
    <3> QED BY <2>1, <3>7
  <2> QED BY <2>2, <2>3
<1> QED BY <1>1

LEMMA FoldAre ==
  ASSUME NEW r, Len(r) \in Nat
  PROVE  \E s : FoldIs(r, Len(r), s) /\ Seam!Fold(r) = s[Len(r)]
<1> DEFINE fold == CHOOSE s : FoldIs(r, Len(r), s)
<1>1. FoldIs(r, Len(r), fold)
  BY SomeFold
<1>2. Seam!Fold(r) = fold[Len(r)]
  BY DEF Seam!Fold, FoldIs, SkippedIn
<1> QED BY <1>1, <1>2

(* One record more is folded by one step more, unless it recovers.          *)
LEMMA FoldGrows ==
  ASSUME NEW S, NEW r \in Seq(S), NEW e \in S, e.op # "RECOVER"
  PROVE  Seam!Fold(Append(r, e)) = Seam!Apply(Seam!Fold(r), e, Len(r) + 1)
<1> DEFINE q == Append(r, e)
           n == Len(r)
<1>1. /\ n \in Nat /\ Len(q) = n + 1 /\ q[n + 1] = e /\ Len(q) \in Nat
      /\ \A i \in 1..n : q[i] = r[i]
  BY AppendProperties, LenProperties
<1>2. PICK s : FoldIs(r, n, s) /\ Seam!Fold(r) = s[n]
  BY <1>1, FoldAre
<1>4. Seam!RecoveredPoints(q) = Seam!RecoveredPoints(r)
  BY PointsStay
<1>5. Seam!RecoveredPoints(r) \subseteq 1..n
  BY DEF Seam!RecoveredPoints
<1> HIDE DEF q, n
<1>3. PICK t : FoldIs(q, n + 1, t) /\ Seam!Fold(q) = t[n + 1]
  BY <1>1, FoldAre
<1>6. \A i \in 1..(n + 1) : SkippedIn(q, i) <=> SkippedIn(r, i)
  BY <1>1, <1>4, <1>5 DEF SkippedIn
<1>7. ~SkippedIn(q, n + 1)
  BY <1>1, <1>4, <1>5 DEF SkippedIn
<1>8. \A i \in 0..n : s[i] = IF i = 0 THEN Seam!EmptyState
                ELSE IF SkippedIn(r, i) THEN s[i - 1] ELSE Seam!Apply(s[i - 1], r[i], i)
  BY <1>2 DEF FoldIs
<1>9. \A i \in 0..(n + 1) : t[i] = IF i = 0 THEN Seam!EmptyState
                ELSE IF SkippedIn(q, i) THEN t[i - 1] ELSE Seam!Apply(t[i - 1], q[i], i)
  BY <1>3 DEF FoldIs
<1>10. \A i \in 0..n : t[i] = s[i]
  <2> DEFINE D == {i \in 0..n : t[i] # s[i]}
  <2> SUFFICES ASSUME D # {} PROVE FALSE
    OBVIOUS
  <2>0. D \subseteq Nat
    BY <1>1
  <2>1. PICK k \in D : \A m \in D : k <= m
    BY <2>0, LeastOf
  <2>2. CASE k = 0
    BY <1>1, <1>8, <1>9, <2>1, <2>2
  <2>3. CASE k # 0
    <3>1. k \in 1..n /\ k \in 0..(n+1) /\ k \in 1..(n+1) /\ k - 1 \in 0..n /\ k - 1 \notin D
      BY <1>1, <2>1, <2>3
    <3>2. t[k - 1] = s[k - 1]
      BY <3>1
    <3>3. t[k] = IF SkippedIn(q, k) THEN t[k - 1] ELSE Seam!Apply(t[k - 1], q[k], k)
      BY <1>9, <2>3, <3>1
    <3>4. s[k] = IF SkippedIn(r, k) THEN s[k - 1] ELSE Seam!Apply(s[k - 1], r[k], k)
      BY <1>8, <2>3, <3>1
    <3> QED BY <1>1, <1>6, <2>1, <3>1, <3>2, <3>3, <3>4
  <2> QED BY <2>2, <2>3
<1>11. t[n + 1] = Seam!Apply(t[n], e, n + 1)
  <2>1. n + 1 \in 0..(n + 1) /\ n + 1 # 0 /\ (n + 1) - 1 = n
    BY <1>1
  <2> QED BY <1>1, <1>7, <1>9, <2>1
<1>12. n \in 0..n
  BY <1>1
<1> QED BY <1>2, <1>3, <1>10, <1>11, <1>12 DEF q, n

(* A recovery to v gives up what came after v, the recoveries there with    *)
(* it, and leaves those up to v in force that were so at v.                 *)
LEMMA PointsBack ==
  ASSUME NEW q, NEW n \in Nat, Len(q) = n, NEW p, NEW v \in Nat, Len(p) = v, v < n,
         \A i \in 1..v : q[i] = p[i],
         q[n].op = "RECOVER", q[n].val = v
  PROVE  Seam!RecoveredPoints(q) = Seam!RecoveredPoints(p) \cup {n}
<1>1. PICK f : LiveIs(q, f) /\ Seam!RecoveredPoints(q) = {i \in 1..n : f[i]}
  BY PointsAre
<1>2. PICK g : LiveIs(p, g) /\ Seam!RecoveredPoints(p) = {i \in 1..v : g[i]}
  BY PointsAre
<1>3. \A i \in 1..n : f[i] = (q[i].op = "RECOVER" /\ \A l \in (i+1)..n : f[l] => i <= q[l].val)
  BY <1>1 DEF LiveIs
<1>4. \A i \in 1..v : g[i] = (p[i].op = "RECOVER" /\ \A l \in (i+1)..v : g[l] => i <= p[l].val)
  BY <1>2 DEF LiveIs
<1>5. f[n]
  <2>1. n \in 1..n /\ \A l \in (n+1)..n : FALSE
    OBVIOUS
  <2> QED BY <1>3, <2>1
<1>6. \A i \in (v+1)..(n-1) : ~f[i]
  <2> TAKE i \in (v+1)..(n-1)
  <2>1. i \in 1..n /\ n \in (i+1)..n /\ ~(i <= v)
    OBVIOUS
  <2> QED BY <1>3, <1>5, <2>1
<1>7. \A i \in 1..v : f[i] = g[i]
  <2> DEFINE D == {i \in 1..v : f[i] # g[i]}
  <2> SUFFICES ASSUME D # {} PROVE FALSE
    OBVIOUS
  <2>1. PICK k \in D : \A m \in D : m <= k
    BY GreatestOf
  <2>2. k \in 1..v /\ k \in 1..n /\ k <= v
    OBVIOUS
  <2>3. \A l \in (k+1)..v : f[l] = g[l] /\ q[l] = p[l] /\ l \in (k+1)..n
    <3> TAKE l \in (k+1)..v
    <3>1. l \in 1..v /\ ~(l <= k) /\ l \in (k+1)..n
      BY <2>2
    <3> QED BY <2>1, <3>1
  <2>4. \A l \in (k+1)..n : l \in (k+1)..v \/ l \in (v+1)..(n-1) \/ l = n
    BY <2>2
  <2>5. (\A l \in (k+1)..n : f[l] => k <= q[l].val) <=> (\A l \in (k+1)..v : g[l] => k <= p[l].val)
    BY <1>6, <2>2, <2>3, <2>4
  <2>6. f[k] = g[k]
    BY <1>3, <1>4, <2>2, <2>5
  <2> QED BY <2>1, <2>6
<1>8. /\ \A i \in 1..n : i \in 1..v \/ i \in (v+1)..(n-1) \/ i = n
      /\ \A i \in 1..v : i \in 1..n
      /\ n \in 1..n
  OBVIOUS
<1>9. {i \in 1..n : f[i]} = {i \in 1..v : g[i]} \cup {n}
  BY <1>5, <1>6, <1>7, <1>8
<1> QED BY <1>1, <1>2, <1>9

LEMMA RecoverRestores ==
  ASSUME NEW q, NEW n \in Nat, Len(q) = n, NEW p, NEW v \in Nat, Len(p) = v, v < n,
         \A i \in 1..v : q[i] = p[i],
         q[n].op = "RECOVER", q[n].val = v
  PROVE  Seam!Fold(q) = Seam!Fold(p)
<1>1. PICK s : FoldIs(q, n, s) /\ Seam!Fold(q) = s[n]
  BY FoldAre
<1>2. PICK t : FoldIs(p, v, t) /\ Seam!Fold(p) = t[v]
  BY FoldAre
<1>3. Seam!RecoveredPoints(q) = Seam!RecoveredPoints(p) \cup {n}
  BY PointsBack
<1>4. Seam!RecoveredPoints(p) \subseteq 1..v
  BY DEF Seam!RecoveredPoints
<1>5. \A i \in 1..v : SkippedIn(q, i) <=> SkippedIn(p, i)
  BY <1>3, <1>4 DEF SkippedIn
<1>6. \A i \in (v+1)..n : SkippedIn(q, i)
  BY <1>3 DEF SkippedIn
<1>7. \A i \in 0..n : s[i] = IF i = 0 THEN Seam!EmptyState
                ELSE IF SkippedIn(q, i) THEN s[i - 1] ELSE Seam!Apply(s[i - 1], q[i], i)
  BY <1>1 DEF FoldIs
<1>8. \A i \in 0..v : t[i] = IF i = 0 THEN Seam!EmptyState
                ELSE IF SkippedIn(p, i) THEN t[i - 1] ELSE Seam!Apply(t[i - 1], p[i], i)
  BY <1>2 DEF FoldIs
<1>9. \A i \in 0..v : s[i] = t[i]
  <2> DEFINE D == {i \in 0..v : s[i] # t[i]}
  <2> SUFFICES ASSUME D # {} PROVE FALSE
    OBVIOUS
  <2>0. D \subseteq Nat
    OBVIOUS
  <2>1. PICK k \in D : \A m \in D : k <= m
    BY <2>0, LeastOf
  <2>2. CASE k = 0
    <3>1. 0 \in 0..n /\ 0 \in 0..v
      OBVIOUS
    <3> QED BY <1>7, <1>8, <2>1, <2>2, <3>1
  <2>3. CASE k # 0
    <3>1. k \in 1..v /\ k \in 0..n /\ k \in 0..v /\ k - 1 \in 0..v /\ k - 1 \notin D
      BY <2>1, <2>3
    <3>2. s[k - 1] = t[k - 1]
      BY <3>1
    <3>3. s[k] = IF SkippedIn(q, k) THEN s[k - 1] ELSE Seam!Apply(s[k - 1], q[k], k)
      BY <1>7, <2>3, <3>1
    <3>4. t[k] = IF SkippedIn(p, k) THEN t[k - 1] ELSE Seam!Apply(t[k - 1], p[k], k)
      BY <1>8, <2>3, <3>1
    <3> QED BY <1>5, <2>1, <3>1, <3>2, <3>3, <3>4
  <2> QED BY <2>2, <2>3
<1>10. \A i \in v..n : s[i] = s[v]
  <2> DEFINE D == {i \in v..n : s[i] # s[v]}
  <2> SUFFICES ASSUME D # {} PROVE FALSE
    OBVIOUS
  <2>0. D \subseteq Nat
    OBVIOUS
  <2>1. PICK k \in D : \A m \in D : k <= m
    BY <2>0, LeastOf
  <2>2. k # v
    BY <2>1
  <2>3. k \in (v+1)..n /\ k \in 0..n /\ k # 0 /\ k - 1 \in v..n /\ k - 1 \notin D
    BY <2>1, <2>2
  <2>4. s[k] = s[k - 1]
    BY <1>6, <1>7, <2>3
  <2> QED BY <2>1, <2>3, <2>4
<1>11. n \in v..n /\ v \in 0..v
  OBVIOUS
<1> QED BY <1>1, <1>2, <1>9, <1>10, <1>11

-----------------------------------------------------------------------------
(* The invariant of the seam                                               *)

Held(r) == {r[i] : i \in DOMAIN r}
UpTo(n) == SubSeq(rec, 1, n)

RecoversPointBack ==
  \A n \in 1..Len(rec) : rec[n].op = "RECOVER" => rec[n].val \in 1..(n - 1)

(* What a publish still has to do: its act is delivered last, the mirrors   *)
(* appended from within it one by one before that.                          *)
Publishing ==
  /\ todo # << >> /\ high < Len(rec) /\ todo[Len(todo)] = high + 1
  /\ \A k \in (high + 2)..Len(rec) : rec[k].op = "MIRROR"
  /\ \A j \in 1..(Len(todo) - 1) :
       todo[j] = 0 \/ (j = 1 /\ todo[1] = Len(rec) /\ Len(rec) > high + 1)
  /\ above = ((high + 2)..Len(rec)) \ {todo[1]}

InStep ==
  /\ rec \in Seq(Held(rec)) /\ high \in 0..Len(rec) /\ todo \in Seq(Nat) /\ undone \in BOOLEAN
  /\ RecoversPointBack
  /\ (todo = << >> /\ high = Len(rec) /\ above = {}) \/ Publishing
  /\ ~undone => state = Seam!Fold(UpTo(high))

LEMMA OneMore ==
  ASSUME NEW r, r \in Seq(Held(r)), NEW e
  PROVE  /\ Append(r, e) \in Seq(Held(Append(r, e)))
         /\ Len(r) \in Nat /\ Len(Append(r, e)) = Len(r) + 1
         /\ Append(r, e)[Len(r) + 1] = e
         /\ \A i \in 1..Len(r) : Append(r, e)[i] = r[i]
<1> DEFINE S == Held(r) \cup {e}
           q == Append(r, e)
<1>1. r \in Seq(S) /\ e \in S
  <2>1. Held(r) \subseteq S
    OBVIOUS
  <2> HIDE DEF S
  <2>2. r \in Seq(S)
    BY <2>1
  <2> QED BY <2>2 DEF S
<1> HIDE DEF S
<1>2. /\ q \in Seq(S) /\ Len(r) \in Nat /\ Len(q) = Len(r) + 1 /\ q[Len(r) + 1] = e
      /\ \A i \in 1..Len(r) : q[i] = r[i]
  BY <1>1, AppendProperties, LenProperties
<1> HIDE DEF q
<1>3. q = [i \in 1..Len(q) |-> q[i]] /\ DOMAIN q = 1..Len(q) /\ Len(q) \in Nat
  BY <1>2
<1>4. \A i \in 1..Len(q) : q[i] \in Held(q)
  BY <1>3 DEF Held
<1>5. q \in Seq(Held(q))
  BY <1>3, <1>4
<1> QED BY <1>2, <1>5 DEF q

LEMMA Prefix ==
  ASSUME NEW S, NEW r \in Seq(S), NEW h \in 0..Len(r)
  PROVE  /\ SubSeq(r, 1, h) \in Seq(S) /\ Len(SubSeq(r, 1, h)) = h
         /\ \A i \in 1..h : SubSeq(r, 1, h)[i] = r[i]
  BY SubSeqProperties

LEMMA PrefixGrows ==
  ASSUME NEW S, NEW r \in Seq(S), NEW h \in 0..(Len(r) - 1)
  PROVE  SubSeq(r, 1, h + 1) = Append(SubSeq(r, 1, h), r[h + 1])
<1> DEFINE a == SubSeq(r, 1, h + 1)
           b == SubSeq(r, 1, h)
<1>1. Len(r) \in Nat /\ h \in 0..Len(r) /\ h + 1 \in 0..Len(r) /\ h + 1 \in 1..Len(r)
  OBVIOUS
<1>2. a \in Seq(S) /\ Len(a) = h + 1 /\ \A i \in 1..(h + 1) : a[i] = r[i]
  BY <1>1, Prefix
<1>3. b \in Seq(S) /\ Len(b) = h /\ (\A i \in 1..h : b[i] = r[i]) /\ r[h + 1] \in S
  BY <1>1, Prefix
<1> DEFINE c == Append(b, r[h + 1])
<1> HIDE DEF a, b
<1>4. /\ c \in Seq(S) /\ Len(c) = h + 1 /\ c[h + 1] = r[h + 1]
      /\ \A i \in 1..h : c[i] = b[i]
  BY <1>3, AppendProperties
<1> HIDE DEF c
<1>5. \A i \in 1..(h + 1) : i \in 1..h \/ i = h + 1
  OBVIOUS
<1>6. \A i \in 1..(h + 1) : a[i] = c[i]
  BY <1>2, <1>3, <1>4, <1>5
<1>7. a = c
  BY <1>2, <1>4, <1>6, SeqEqual
<1> QED BY <1>7 DEF a, b, c

LEMMA MirrorsApplyNothing ==
  ASSUME NEW s, NEW e, NEW n, e.op = "MIRROR"
  PROVE  Seam!Apply(s, e, n) = s
  BY DEF Seam!Apply, Seam!Minting, Seam!AttrOps

LEMMA MirrorsFoldAway ==
  ASSUME NEW S, NEW r \in Seq(S), NEW h \in 0..Len(r),
         \A k \in (h + 1)..Len(r) : r[k].op = "MIRROR"
  PROVE  Seam!Fold(r) = Seam!Fold(SubSeq(r, 1, h))
<1> DEFINE F(k) == Seam!Fold(SubSeq(r, 1, k))
           D == {k \in h..Len(r) : F(k) # F(h)}
<1>0. Len(r) \in Nat
  OBVIOUS
<1>1. D = {}
  <2> SUFFICES ASSUME D # {} PROVE FALSE
    OBVIOUS
  <2>0. D \subseteq Nat
    BY <1>0
  <2>1. PICK k \in D : \A m \in D : k <= m
    BY <2>0, LeastOf
  <2>2. k # h /\ k \in h..Len(r)
    BY <2>1
  <2>3. k \in (h + 1)..Len(r) /\ k - 1 \in h..Len(r) /\ k - 1 \in 0..(Len(r) - 1) /\ ~(k <= k - 1)
        /\ (k - 1) + 1 = k /\ k \in 1..Len(r)
    BY <1>0, <2>2
  <2>4. F(k - 1) = F(h)
    BY <2>1, <2>3
  <2> DEFINE b == SubSeq(r, 1, k - 1)
  <2>5. SubSeq(r, 1, k) = Append(b, r[k])
    BY <2>3, PrefixGrows
  <2>6. b \in Seq(S)
    BY <2>3, Prefix, <1>0
  <2>7. r[k] \in S /\ r[k].op = "MIRROR"
    BY <2>3
  <2> HIDE DEF b
  <2>8. Seam!Fold(Append(b, r[k])) = Seam!Apply(Seam!Fold(b), r[k], Len(b) + 1)
    BY <2>6, <2>7, FoldGrows
  <2>9. Seam!Fold(Append(b, r[k])) = Seam!Fold(b)
    BY <2>7, <2>8, MirrorsApplyNothing
  <2>10. F(k) = F(k - 1)
    BY <2>5, <2>9 DEF b
  <2> QED BY <2>1, <2>4, <2>10
<1>2. Len(r) \in h..Len(r)
  BY <1>0
<1>3. F(Len(r)) = F(h)
  BY <1>1, <1>2
<1>4. SubSeq(r, 1, Len(r)) = r
  OBVIOUS
<1> QED BY <1>3, <1>4

LEMMA RequestsRecoverNothing ==
  \A e \in Seam!NameRequests \cup Seam!NodeRequests \cup Seam!LockRequests : e.op # "RECOVER"
<1>1. \A e \in Seam!NameRequests : e.op # "RECOVER"
  BY DEF Seam!NameRequests, Seam!Rec
<1>2. \A e \in Seam!NodeRequests : e.op # "RECOVER"
  <2>1. /\ \A i, c : Seam!FileWrite(i, c).op # "RECOVER" /\ Seam!FileTruncate(i, c).op # "RECOVER"
        /\ \A i, c : Seam!FilePerm(i, c).op # "RECOVER" /\ Seam!FileChown(i, c).op # "RECOVER"
        /\ \A i : /\ Seam!FileHandle("FILE-OPEN", i).op # "RECOVER"
                 /\ Seam!FileHandle("FILE-CLOSE", i).op # "RECOVER"
                 /\ Seam!FileReadAggregate(i).op # "RECOVER"
        /\ \A op, i, c : op # "RECOVER" => Seam!FileAttr(op, i, c).op # "RECOVER"
        /\ \A op \in Seam!AttrOps : op # "RECOVER"
    BY DEF Seam!Rec, Seam!FileWrite, Seam!FileTruncate, Seam!FilePerm,
         Seam!FileHandle, Seam!FileReadAggregate, Seam!FileAttr, Seam!FileChown, Seam!AttrOps
  <2> DEFINE A == UNION {{Seam!FileWrite(i, c), Seam!FileTruncate(i, c)} : i \in Seam!Inodes, c \in Contents}
             B == UNION {{Seam!FilePerm(i, Seam!NoVal), Seam!FileHandle("FILE-OPEN", i),
                          Seam!FileHandle("FILE-CLOSE", i), Seam!FileReadAggregate(i)} : i \in Seam!Inodes}
             C == {Seam!FileAttr(op, i, Seam!NoVal) : op \in Seam!AttrOps \ {"FILE-PERM", "FILE-CHOWN"},
                                                      i \in Seam!Inodes}
             D == {Seam!FileChown(i, u) : i \in Seam!Inodes, u \in Uids}
  <2>2. \A e \in A : e.op # "RECOVER"
    BY <2>1
  <2>3. \A e \in B : e.op # "RECOVER"
    BY <2>1
  <2>4. \A e \in C : e.op # "RECOVER"
    BY <2>1
  <2>5. \A e \in D : e.op # "RECOVER"
    BY <2>1
  <2>6. Seam!NodeRequests = A \cup B \cup C \cup D
    BY DEF Seam!NodeRequests
  <2> HIDE DEF A, B, C, D
  <2> QED BY <2>2, <2>3, <2>4, <2>5, <2>6
<1>3. \A e \in Seam!LockRequests : e.op # "RECOVER"
  BY DEF Seam!LockRequests, Seam!FileRange, Seam!Rec
<1> QED BY <1>1, <1>2, <1>3

LEMMA InitInStep == Seam!Init => InStep
<1> SUFFICES ASSUME Seam!Init PROVE InStep
  OBVIOUS
<1>1. rec = << >> /\ todo = << >> /\ state = Seam!Fold(rec) /\ high = Len(rec) /\ above = {} /\ undone = FALSE
  BY DEF Seam!Init
<1>2. Len(rec) = 0 /\ high = 0 /\ UpTo(high) = rec /\ rec \in Seq(Held(rec)) /\ todo \in Seq(Nat)
  BY <1>1 DEF UpTo
<1>3. \A n \in 1..0 : FALSE
  OBVIOUS
<1>4. RecoversPointBack
  BY <1>2, <1>3 DEF RecoversPointBack
<1>5. state = Seam!Fold(UpTo(high))
  BY <1>1, <1>2
<1>6. high \in 0..Len(rec) /\ undone \in BOOLEAN
  <2>1. 0 \in 0..0
    OBVIOUS
  <2> QED BY <1>1, <1>2, <2>1
<1> QED BY <1>1, <1>2, <1>4, <1>5, <1>6 DEF InStep

LEMMA PublishKeepsStep ==
  ASSUME InStep, NEW e, e.op = "RECOVER" => e.val \in 1..Len(rec), Seam!Publish(e)
  PROVE  InStep'
<1> DEFINE n == Len(rec)
<1>1. /\ todo = << >> /\ rec' = Append(rec, e)
      /\ UNCHANGED <<state, locks, high, above, undone>>
      /\ todo' = <<0, 0, n + 1>> \/ todo' = <<n + 1>>
  BY DEF Seam!Publish, Seam!Mirrored
<1>2. /\ high = n /\ above = {} /\ undone \in BOOLEAN
      /\ rec \in Seq(Held(rec)) /\ n \in Nat
      /\ ~undone => state = Seam!Fold(UpTo(high))
  BY <1>1 DEF InStep, Publishing
<1>3. /\ rec' \in Seq(Held(rec')) /\ Len(rec') = n + 1 /\ rec'[n + 1] = e
      /\ \A i \in 1..n : rec'[i] = rec[i]
  BY <1>1, <1>2, OneMore
<1> HIDE DEF n
<1>4. RecoversPointBack'
  <2> SUFFICES ASSUME NEW k \in 1..(n + 1), rec'[k].op = "RECOVER"
               PROVE  rec'[k].val \in 1..(k - 1)
    BY <1>3 DEF RecoversPointBack
  <2>1. CASE k = n + 1
    BY <1>2, <1>3, <2>1 DEF n
  <2>2. CASE k # n + 1
    <3>1. k \in 1..n
      BY <1>2, <2>2
    <3> QED BY <1>3, <3>1 DEF InStep, RecoversPointBack, n
  <2> QED BY <2>1, <2>2
<1>5. Publishing'
  <2>1. CASE todo' = <<n + 1>>
    <3>1. todo' # << >> /\ Len(todo') = 1 /\ todo'[1] = n + 1 /\ high' = n /\ above' = {}
      BY <1>1, <1>2, <2>1
    <3> QED BY <1>2, <1>3, <3>1 DEF Publishing
  <2>2. CASE todo' = <<0, 0, n + 1>>
    <3>1. /\ todo' # << >> /\ Len(todo') = 3 /\ todo'[1] = 0 /\ todo'[2] = 0 /\ todo'[3] = n + 1
          /\ high' = n /\ above' = {}
      BY <1>1, <1>2, <2>2
    <3> QED BY <1>2, <1>3, <3>1 DEF Publishing
  <2> QED BY <1>1, <2>1, <2>2
<1>6. UpTo(high)' = UpTo(high)
  <2>1. n + 1 \in Nat /\ n \in 0..(n + 1) /\ n \in 0..n
    BY <1>2
  <2>2. /\ SubSeq(rec', 1, n) \in Seq(Held(rec')) /\ Len(SubSeq(rec', 1, n)) = n
        /\ \A i \in 1..n : SubSeq(rec', 1, n)[i] = rec'[i]
    BY <1>3, <2>1, Prefix
  <2>3. SubSeq(rec', 1, n) = rec
    BY <1>2, <1>3, <2>2, SeqEqual DEF n
  <2>4. SubSeq(rec, 1, n) = rec
    BY <1>2 DEF n
  <2> QED BY <1>1, <1>2, <2>3, <2>4 DEF UpTo
<1>7. todo' \in Seq(Nat)
  <2>1. n + 1 \in Nat /\ 0 \in Nat
    BY <1>2
  <2>2. <<n + 1>> \in Seq(Nat) /\ <<0, 0, n + 1>> \in Seq(Nat)
    BY <2>1
  <2> QED BY <1>1, <2>2
<1>8. high' \in 0..Len(rec') /\ undone' \in BOOLEAN
  BY <1>1, <1>2, <1>3
<1> QED BY <1>1, <1>2, <1>3, <1>4, <1>5, <1>6, <1>7, <1>8 DEF InStep

(* What takes the place of the head. *)
LEMMA NewHead ==
  ASSUME NEW w \in Seq(Nat), w # << >>, NEW x \in Nat
  PROVE  /\ <<x>> \o Tail(w) \in Seq(Nat) /\ Len(<<x>> \o Tail(w)) = Len(w)
         /\ (<<x>> \o Tail(w))[1] = x
         /\ \A j \in 2..Len(w) : (<<x>> \o Tail(w))[j] = w[j]
<1> DEFINE a == <<x>>
           b == Tail(w)
<1>1. a \in Seq(Nat) /\ Len(a) = 1 /\ a[1] = x
  OBVIOUS
<1>2. /\ b \in Seq(Nat) /\ Len(b) = Len(w) - 1 /\ Len(w) \in Nat \ {0}
      /\ \A j \in 1..(Len(w) - 1) : b[j] = w[j + 1]
  BY HeadTailProperties, EmptySeq
<1> HIDE DEF a, b
<1>3. /\ a \o b \in Seq(Nat) /\ Len(a \o b) = Len(a) + Len(b)
      /\ \A i \in 1..(Len(a) + Len(b)) : (a \o b)[i] = IF i <= Len(a) THEN a[i] ELSE b[i - Len(a)]
  BY <1>1, <1>2, ConcatProperties
<1>4. \A j \in 2..Len(w) : /\ j \in 1..(Len(a) + Len(b)) /\ ~(j <= 1)
                          /\ j - 1 \in 1..(Len(w) - 1) /\ (j - 1) + 1 = j
  BY <1>1, <1>2
<1>5. 1 \in 1..(Len(a) + Len(b)) /\ Len(a) + Len(b) = Len(w)
  BY <1>1, <1>2
<1> QED BY <1>1, <1>2, <1>3, <1>4, <1>5 DEF a, b

LEMMA MirrorKeepsStep ==
  ASSUME InStep, Seam!Mirror
  PROVE  InStep'
<1> DEFINE e == Seam!Rec("MIRROR", Seam!NoPath, Seam!NoPath, "none", Seam!NoIno, Seam!NoVal)
           n == Len(rec)
<1>1. /\ todo # << >> /\ Head(todo) = 0 /\ rec' = Append(rec, e)
      /\ todo' = <<n + 1>> \o Tail(todo)
      /\ UNCHANGED <<state, locks, high, above, undone>>
  BY DEF Seam!Mirror, Seam!Mirrored
<1>2. e.op = "MIRROR"
  BY DEF Seam!Rec
<1> HIDE DEF e
<1>3. Publishing
  BY <1>1 DEF InStep
<1>4. /\ rec \in Seq(Held(rec)) /\ n \in Nat /\ high \in 0..n /\ todo \in Seq(Nat)
  BY DEF InStep
<1>5. /\ rec' \in Seq(Held(rec')) /\ Len(rec') = n + 1 /\ rec'[n + 1] = e
      /\ \A i \in 1..n : rec'[i] = rec[i]
  BY <1>1, <1>4, OneMore
<1> DEFINE m == Len(todo)
<1>6. m \in Nat /\ m >= 1 /\ todo[1] = 0 /\ todo[m] = high + 1 /\ high < n
  BY <1>1, <1>3, <1>4 DEF Publishing
<1>7. m # 1
  BY <1>4, <1>6
<1>8. /\ todo' \in Seq(Nat) /\ Len(todo') = m /\ todo'[1] = n + 1
      /\ \A j \in 2..m : todo'[j] = todo[j]
  <2>1. n + 1 \in Nat
    BY <1>4
  <2> HIDE DEF n
  <2> QED BY <1>1, <1>4, <2>1, NewHead
<1> HIDE DEF n, m
<1>9. RecoversPointBack'
  <2> SUFFICES ASSUME NEW k \in 1..(n + 1), rec'[k].op = "RECOVER"
               PROVE  rec'[k].val \in 1..(k - 1)
    BY <1>5 DEF RecoversPointBack
  <2>1. k # n + 1
    BY <1>2, <1>5
  <2>2. k \in 1..n
    BY <1>4, <2>1
  <2> QED BY <1>5, <2>2 DEF InStep, RecoversPointBack, n
<1>10. Publishing'
  <2>1. todo' # << >> /\ high' < Len(rec') /\ todo'[m] = high' + 1
    BY <1>1, <1>4, <1>5, <1>6, <1>7, <1>8
  <2>2. \A k \in (high' + 2)..(n + 1) : rec'[k].op = "MIRROR"
    <3> TAKE k \in (high' + 2)..(n + 1)
    <3>1. CASE k = n + 1
      BY <1>2, <1>5, <3>1
    <3>2. CASE k # n + 1
      <4>1. k \in (high + 2)..n /\ k \in 1..n
        BY <1>1, <1>4, <3>2
      <4> QED BY <1>3, <1>5, <4>1 DEF Publishing, n
    <3> QED BY <3>1, <3>2
  <2>3. \A j \in 1..(m - 1) : todo'[j] = 0 \/ (j = 1 /\ todo'[1] = n + 1 /\ n + 1 > high' + 1)
    <3> TAKE j \in 1..(m - 1)
    <3>1. CASE j = 1
      BY <1>1, <1>4, <1>6, <1>8, <3>1
    <3>2. CASE j # 1
      <4>1. j \in 2..m
        BY <1>6, <3>2
      <4> QED BY <1>3, <1>8, <3>2, <4>1 DEF Publishing, m
    <3> QED BY <3>1, <3>2
  <2>4. above' = ((high' + 2)..(n + 1)) \ {todo'[1]}
    <3>1. above = ((high + 2)..n) \ {0}
      BY <1>3, <1>6 DEF Publishing, n
    <3>2. (high + 2)..(n + 1) = ((high + 2)..n) \cup {n + 1}
      BY <1>4, <1>6, SMTT(30)
    <3>3. n + 1 \notin (high + 2)..n /\ 0 \notin (high + 2)..n
      BY <1>4
    <3> QED BY <1>1, <1>8, <3>1, <3>2, <3>3
  <2> QED BY <1>5, <1>8, <2>1, <2>2, <2>3, <2>4 DEF Publishing
<1>11. UpTo(high)' = UpTo(high)
  <2>0. high \in 0..Len(rec) /\ high \in 0..Len(rec')
    BY <1>4, <1>5 DEF n
  <2>1. /\ SubSeq(rec', 1, high) \in Seq(Held(rec')) /\ Len(SubSeq(rec', 1, high)) = high
        /\ \A i \in 1..high : SubSeq(rec', 1, high)[i] = rec'[i]
    BY <1>5, <2>0, Prefix
  <2>2. /\ SubSeq(rec, 1, high) \in Seq(Held(rec)) /\ Len(SubSeq(rec, 1, high)) = high
        /\ \A i \in 1..high : SubSeq(rec, 1, high)[i] = rec[i]
    BY <1>4, <2>0, Prefix
  <2>3. \A i \in 1..high : i \in 1..n
    BY <1>4
  <2>4. SubSeq(rec', 1, high) = SubSeq(rec, 1, high)
    BY <1>5, <2>1, <2>2, <2>3, SeqEqual
  <2> QED BY <1>1, <2>4 DEF UpTo
<1>12. high' \in 0..Len(rec') /\ undone' \in BOOLEAN /\ todo' \in Seq(Nat)
  BY <1>1, <1>4, <1>5, <1>8 DEF InStep
<1> QED BY <1>1, <1>5, <1>9, <1>10, <1>11, <1>12 DEF InStep

LEMMA DeliverKeepsStep ==
  ASSUME InStep, Seam!Deliver
  PROVE  InStep'
<1> DEFINE n == Len(rec)
           m == Len(todo)
           k == Head(todo)
<1>1. /\ todo # << >> /\ k # 0
      /\ state' = Seam!Apply(state, rec[k], k)
      /\ Seam!MarkFolded(k)
      /\ todo' = Tail(todo)
      /\ undone' = (undone \/ rec[k].op = "RECOVER")
      /\ rec' = rec
  BY DEF Seam!Deliver, Seam!OnAppend, Seam!Mirrored
<1>2. Publishing /\ rec \in Seq(Held(rec)) /\ n \in Nat /\ high \in 0..n /\ todo \in Seq(Nat)
      /\ undone \in BOOLEAN
  BY <1>1 DEF InStep
<1>3. m \in Nat \ {0} /\ k = todo[1] /\ high < n /\ todo[m] = high + 1
  BY <1>1, <1>2, EmptySeq DEF Publishing
<1>4. /\ todo' \in Seq(Nat) /\ Len(todo') = m - 1
      /\ \A j \in 1..(m - 1) : todo'[j] = todo[j + 1]
  BY <1>1, <1>2, HeadTailProperties
<1> DEFINE all == above \cup {k}
           done == {high} \cup {x \in all : (high + 1)..x \subseteq all}
<1>5. high' = Seam!Max(done) /\ above' = {x \in all : x > Seam!Max(done)}
  BY <1>1 DEF Seam!MarkFolded
<1>6. above = ((high + 2)..n) \ {k} /\ \A x \in (high + 2)..n : rec[x].op = "MIRROR"
  BY <1>2, <1>3 DEF Publishing
<1>7. RecoversPointBack' /\ undone' \in BOOLEAN
  BY <1>1, <1>2 DEF InStep, RecoversPointBack
<1> HIDE DEF n, m, k, all, done
<1>8. CASE m = 1
  <2>1. k = high + 1 /\ todo' = << >>
    BY <1>3, <1>4, <1>8, EmptySeq
  <2>2. all = (high + 1)..n
    BY <1>2, <1>3, <1>6, <2>1 DEF all
  <2>3. n \in done /\ \A x \in done : x \in Nat /\ x <= n
    <3>1. n \in all /\ (high + 1)..n \subseteq all
      BY <1>2, <1>3, <2>2
    <3>2. \A x \in all : x \in Nat /\ x <= n
      BY <1>2, <2>2
    <3> QED BY <1>2, <1>3, <3>1, <3>2 DEF done
  <2>4. Seam!Max(done) = n
    <3>1. n \in Nat /\ \A x \in done : n >= x
      BY <1>2, <2>3
    <3> DEFINE top == CHOOSE x \in done : \A y \in done : x >= y
    <3>2. top \in done /\ \A y \in done : top >= y
      BY <2>3, <3>1
    <3> HIDE DEF top
    <3>3. top \in Nat /\ top <= n /\ top >= n
      BY <2>3, <3>2
    <3>4. top = n
      BY <3>1, <3>3
    <3> QED BY <3>4 DEF Seam!Max, top
  <2>5. high' = n /\ above' = {}
    BY <1>2, <1>5, <2>2, <2>4
  <2>6. ASSUME ~undone' PROVE state' = Seam!Fold(UpTo(high))'
    <3>1. ~undone /\ rec[k].op # "RECOVER"
      BY <1>1, <2>6
    <3>2. state = Seam!Fold(UpTo(high))
      BY <3>1 DEF InStep
    <3>3. high \in 0..Len(rec) /\ high \in 0..(Len(rec) - 1) /\ high + 1 \in 0..Len(rec)
          /\ high + 1 \in 1..Len(rec)
      BY <1>2, <1>3 DEF n
    <3>4. rec[high + 1] \in Held(rec)
      BY <1>2, <3>3 DEF Held
    <3> DEFINE b == UpTo(high)
    <3>5. b \in Seq(Held(rec)) /\ Len(b) = high
      BY <1>2, <3>3, Prefix DEF UpTo
    <3>6. UpTo(high + 1) = Append(b, rec[high + 1])
      BY <1>2, <3>3, PrefixGrows DEF UpTo
    <3> HIDE DEF b
    <3>7. Seam!Fold(Append(b, rec[high + 1])) = Seam!Apply(Seam!Fold(b), rec[high + 1], high + 1)
      BY <2>1, <3>1, <3>4, <3>5, FoldGrows
    <3>8. state' = Seam!Fold(UpTo(high + 1))
      BY <1>1, <2>1, <3>2, <3>6, <3>7 DEF b
    <3>9. \A x \in ((high + 1) + 1)..Len(rec) : rec[x].op = "MIRROR"
      BY <1>2, <1>6 DEF n
    <3>10. Seam!Fold(rec) = Seam!Fold(UpTo(high + 1))
      BY <1>2, <3>3, <3>9, MirrorsFoldAway DEF UpTo
    <3>11. UpTo(n) = rec
      BY <1>2 DEF UpTo, n
    <3>12. UpTo(high)' = UpTo(n)
      BY <1>1, <2>5 DEF UpTo
    <3> QED BY <3>8, <3>10, <3>11, <3>12
  <2>7. high' \in 0..Len(rec') /\ high' = Len(rec')
    BY <1>1, <1>2, <2>5 DEF n
  <2>8. rec' \in Seq(Held(rec'))
    BY <1>1, <1>2
  <2> QED BY <1>4, <1>7, <2>1, <2>5, <2>6, <2>7, <2>8 DEF InStep
<1>9. CASE m # 1
  <2>1. k = n /\ n > high + 1
    <3>1. 1 \in 1..(m - 1)
      BY <1>3, <1>9
    <3>2. todo[1] = 0 \/ (todo[1] = n /\ n > high + 1)
      BY <1>2, <3>1 DEF Publishing, n, m
    <3> QED BY <1>1, <1>3, <3>2
  <2>2. all = (high + 2)..n
    BY <1>2, <1>6, <2>1 DEF all
  <2>3. done = {high}
    <3>1. high + 1 \notin all
      BY <1>2, <2>2
    <3>2. \A x \in all : high + 1 \in (high + 1)..x
      BY <1>2, <2>2
    <3> QED BY <3>1, <3>2 DEF done
  <2>4. Seam!Max(done) = high
    <3>1. high >= high
      BY <1>2
    <3> QED BY <2>3, <3>1 DEF Seam!Max
  <2>5. high' = high /\ above' = (high + 2)..n
    BY <1>2, <1>5, <2>2, <2>4
  <2>6. rec[k].op = "MIRROR"
    BY <1>2, <1>6, <2>1
  <2>7. state' = state /\ undone' = undone
    BY <1>1, <1>2, <2>6, MirrorsApplyNothing
  <2>8. UpTo(high)' = UpTo(high)
    BY <1>1, <2>5 DEF UpTo
  <2>9. Publishing'
    <3>1. todo'[1] \notin (high + 2)..n /\ \A j \in 1..(m - 2) : todo'[j] = 0
      <4>1. \A j \in 2..(m - 1) : todo[j] = 0
        <5> TAKE j \in 2..(m - 1)
        <5>1. j \in 1..(m - 1) /\ j # 1
          BY <1>3
        <5> QED BY <1>2, <5>1 DEF Publishing, m
      <4>2. \A j \in 1..(m - 2) : j \in 1..(m - 1) /\ j + 1 \in 2..(m - 1)
        BY <1>3
      <4>3. \A j \in 1..(m - 2) : todo'[j] = 0
        BY <1>4, <4>1, <4>2
      <4>4. CASE m = 2
        <5>1. todo'[1] = high + 1
          BY <1>3, <1>4, <4>4
        <5> QED BY <1>2, <4>3, <5>1
      <4>5. CASE m # 2
        <5>1. 1 \in 1..(m - 2)
          BY <1>3, <1>9, <4>5
        <5> QED BY <1>2, <4>3, <5>1
      <4> QED BY <4>3, <4>4, <4>5
    <3>2. todo' # << >> /\ todo'[m - 1] = high' + 1 /\ Len(todo') = m - 1 /\ (m - 1) - 1 = m - 2
      <4>1. m - 1 \in 1..(m - 1) /\ (m - 1) + 1 = m /\ m - 1 # 0
        BY <1>3, <1>9
      <4>2. todo' # << >>
        BY <1>4, <4>1, EmptySeq
      <4> QED BY <1>3, <1>4, <2>5, <4>1, <4>2
    <3>3. above' = ((high' + 2)..Len(rec')) \ {todo'[1]}
      BY <1>1, <2>5, <3>1 DEF n
    <3>4. high' < Len(rec') /\ \A x \in (high' + 2)..Len(rec') : rec'[x].op = "MIRROR"
      BY <1>1, <1>3, <1>6, <2>5 DEF n
    <3> QED BY <3>1, <3>2, <3>3, <3>4 DEF Publishing
  <2>10. rec' \in Seq(Held(rec')) /\ high' \in 0..Len(rec')
    BY <1>1, <1>2, <2>5 DEF n
  <2> QED BY <1>4, <1>7, <2>7, <2>8, <2>9, <2>10 DEF InStep
<1> QED BY <1>8, <1>9

LEMMA NextInStep == InStep /\ [Seam!Next]_(Seam!vars) => InStep'
<1> SUFFICES ASSUME InStep, [Seam!Next]_(Seam!vars) PROVE InStep'
  OBVIOUS
<1>1. ASSUME NEW R, R \subseteq Seam!NameRequests \cup Seam!NodeRequests \cup Seam!LockRequests, Seam!Ask(R)
      PROVE  InStep'
  <2>1. PICK e \in R : Seam!Publish(e)
    BY <1>1 DEF Seam!Ask
  <2>2. e.op # "RECOVER"
    BY <1>1, <2>1, RequestsRecoverNothing
  <2> QED BY <2>1, <2>2, PublishKeepsStep
<1>2. CASE Seam!DecideName
  BY <1>1, <1>2 DEF Seam!DecideName
<1>3. CASE Seam!DecideNode
  BY <1>1, <1>3 DEF Seam!DecideNode
<1>4. CASE Seam!DecideLock
  BY <1>1, <1>4 DEF Seam!DecideLock
<1>5. CASE Seam!Recover
  <2>1. PICK target \in 1..Len(rec) :
          Seam!Publish(Seam!Rec("RECOVER", Seam!NoPath, Seam!NoPath, "none", Seam!NoIno, target))
    BY <1>5 DEF Seam!Recover
  <2> DEFINE e == Seam!Rec("RECOVER", Seam!NoPath, Seam!NoPath, "none", Seam!NoIno, target)
  <2>2. e.val \in 1..Len(rec)
    BY DEF Seam!Rec
  <2> QED BY <2>1, <2>2, PublishKeepsStep
<1>6. CASE Seam!Mirror
  BY <1>6, MirrorKeepsStep
<1>7. CASE Seam!Deliver
  BY <1>7, DeliverKeepsStep
<1>8. CASE Seam!Restart
  <2>1. /\ state' = Seam!Fold(rec) /\ high' = Len(rec) /\ above' = {} /\ undone' = FALSE
        /\ todo' = << >> /\ rec' = rec
    BY <1>8 DEF Seam!Restart
  <2>2. rec \in Seq(Held(rec)) /\ Len(rec) \in Nat /\ RecoversPointBack
    BY DEF InStep
  <2>3. UpTo(Len(rec)) = rec
    BY <2>2 DEF UpTo
  <2>4. UpTo(high)' = rec
    BY <2>1, <2>3 DEF UpTo
  <2>5. todo' \in Seq(Nat) /\ undone' \in BOOLEAN /\ high' \in 0..Len(rec') /\ high' = Len(rec')
    <3>1. << >> \in Seq(Nat) /\ Len(rec) \in 0..Len(rec)
      BY <2>2
    <3> QED BY <2>1, <3>1
  <2>6. RecoversPointBack' /\ rec' \in Seq(Held(rec'))
    BY <2>1, <2>2 DEF RecoversPointBack
  <2>7. state' = Seam!Fold(UpTo(high))'
    BY <2>1, <2>4
  <2> QED BY <2>1, <2>5, <2>6, <2>7 DEF InStep
<1>9. CASE UNCHANGED Seam!vars
  BY <1>9 DEF Seam!vars, InStep, Publishing, RecoversPointBack, UpTo
<1> QED BY <1>2, <1>3, <1>4, <1>5, <1>6, <1>7, <1>8, <1>9 DEF Seam!Next

LEMMA AlwaysInStep == Seam!Spec => []InStep
<1> QED BY InitInStep, NextInStep, PTL DEF Seam!Spec

(* Every fill, taken between any two deliveries, answers what the record up *)
(* to the mark it carries folds to, for any tree, any requests and any set  *)
(* of audited acts, whose mirrors the port is handed before the act itself  *)
(* (kernel_port._mark_folded, _on_append; custody.fold).                    *)
THEOREM FillsAreOfTheirPrefix == Seam!Spec => []Seam!FillsNameTheirPrefix
<1>1. InStep => Seam!FillsNameTheirPrefix
  BY DEF InStep, UpTo, Seam!FillsNameTheirPrefix
<1> QED BY <1>1, AlwaysInStep, PTL

(* A recover restores exactly what the record folded to at its target, also *)
(* when recovers are nested or one reaches into what another gave up        *)
(* (erasure.recovered_points, custody.fold).                                *)
THEOREM RecoverRestoresWhatWasHeld == Seam!Spec => []Seam!RecoverRestoresHeldState
<1>1. InStep => Seam!RecoverRestoresHeldState
  <2> SUFFICES ASSUME InStep, NEW n \in 1..Len(rec), rec[n].op = "RECOVER"
               PROVE  Seam!Fold(SubSeq(rec, 1, n)) = Seam!Fold(SubSeq(rec, 1, rec[n].val))
    BY DEF Seam!RecoverRestoresHeldState
  <2> DEFINE v == rec[n].val
  <2>1. rec \in Seq(Held(rec)) /\ Len(rec) \in Nat /\ v \in 1..(n - 1)
    BY DEF InStep, RecoversPointBack
  <2> HIDE DEF v
  <2>2. n \in Nat /\ v \in Nat /\ v < n /\ n \in 0..Len(rec) /\ v \in 0..Len(rec)
    BY <2>1
  <2> DEFINE q == SubSeq(rec, 1, n)
             p == SubSeq(rec, 1, v)
  <2>3. Len(q) = n /\ \A i \in 1..n : q[i] = rec[i]
    BY <2>1, <2>2, Prefix
  <2>4. Len(p) = v /\ \A i \in 1..v : p[i] = rec[i]
    BY <2>1, <2>2, Prefix
  <2> HIDE DEF q, p
  <2>5. n \in 1..n /\ \A i \in 1..v : i \in 1..n
    BY <2>2
  <2>6. (\A i \in 1..v : q[i] = p[i]) /\ q[n].op = "RECOVER" /\ q[n].val = v
    BY <2>3, <2>4, <2>5 DEF v
  <2>7. Seam!Fold(q) = Seam!Fold(p)
    BY <2>2, <2>3, <2>4, <2>6, RecoverRestores
  <2> QED BY <2>7 DEF q, p, v
<1> QED BY <1>1, AlwaysInStep, PTL

-----------------------------------------------------------------------------
(* The gate's reader, record by record *)

LawIs(r, n, f) ==
  f = [S \in SUBSET (1..n) |->
         IF S = {} THEN Seam!LawEmpty ELSE Seam!LawStep(f[S \ {Seam!Max(S)}], r[Seam!Max(S)])]

LEMMA MaxIs ==
  ASSUME NEW S, NEW n \in S, \A m \in S : m \in Nat /\ m <= n
  PROVE  Seam!Max(S) = n
<1> DEFINE top == CHOOSE x \in S : \A y \in S : x >= y
<1>1. n \in Nat /\ \A y \in S : n >= y
  OBVIOUS
<1>2. top \in S /\ \A y \in S : top >= y
  BY <1>1
<1> HIDE DEF top
<1>3. top \in Nat /\ top <= n /\ top >= n
  BY <1>2
<1>4. top = n
  BY <1>1, <1>3
<1> QED BY <1>4 DEF Seam!Max, top

LEMMA SomeLaw ==
  ASSUME NEW r, NEW n \in Nat
  PROVE  \E f : LawIs(r, n, f)
<1> DEFINE D == {k \in 0..n : ~ \E f : LawIs(r, k, f)}
<1>1. D = {}
  <2> SUFFICES ASSUME D # {} PROVE FALSE
    OBVIOUS
  <2>0. D \subseteq Nat
    OBVIOUS
  <2>1. PICK k \in D : \A m \in D : k <= m
    BY <2>0, LeastOf
  <2>2. CASE k = 0
    <3> DEFINE f == [S \in SUBSET (1..0) |-> Seam!LawEmpty]
    <3>1. \A S \in SUBSET (1..0) : S = {}
      OBVIOUS
    <3>2. LawIs(r, 0, f)
      BY <3>1 DEF LawIs
    <3> QED BY <2>1, <2>2, <3>2
  <2>3. CASE k # 0
    <3>1. k \in 1..n /\ k - 1 \in 0..n /\ k - 1 \notin D
      BY <2>1, <2>3
    <3>2. PICK f : LawIs(r, k - 1, f)
      BY <3>1
    <3> DEFINE g == [S \in SUBSET (1..k) |->
                       IF k \in S THEN Seam!LawStep(f[S \ {k}], r[k]) ELSE f[S]]
    <3>3. \A S \in SUBSET (1..k) : k \notin S => S \in SUBSET (1..(k-1))
      BY <3>1
    <3>4. \A S \in SUBSET (1..(k-1)) : S \in SUBSET (1..k) /\ k \notin S
      BY <3>1
    <3>5. \A S \in SUBSET (1..(k-1)) :
            f[S] = IF S = {} THEN Seam!LawEmpty
                   ELSE Seam!LawStep(f[S \ {Seam!Max(S)}], r[Seam!Max(S)])
      BY <3>2 DEF LawIs
    <3>6. \A S \in SUBSET (1..(k-1)) : g[S] = f[S]
      BY <3>4
    <3>7. \A S \in SUBSET (1..k) : k \in S => g[S] = Seam!LawStep(f[S \ {k}], r[k])
      OBVIOUS
    <3>8. g = [S \in SUBSET (1..k) |-> g[S]]
      OBVIOUS
    <3> HIDE DEF g
    <3>9. \A S \in SUBSET (1..k) :
            g[S] = IF S = {} THEN Seam!LawEmpty
                   ELSE Seam!LawStep(g[S \ {Seam!Max(S)}], r[Seam!Max(S)])
      <4> TAKE S \in SUBSET (1..k)
      <4>1. CASE k \in S
        <5>1. Seam!Max(S) = k
          <6>1. \A m \in S : m \in Nat /\ m <= k
            BY <3>1
          <6> QED BY <4>1, <6>1, MaxIs
        <5>2. S \ {k} \in SUBSET (1..(k-1))
          BY <3>1
        <5>3. S # {} /\ g[S \ {k}] = f[S \ {k}]
          BY <3>6, <4>1, <5>2
        <5> QED BY <3>7, <4>1, <5>1, <5>3
      <4>2. CASE k \notin S
        <5>1. S \in SUBSET (1..(k-1)) /\ S \ {Seam!Max(S)} \in SUBSET (1..(k-1))
          BY <3>3, <4>2
        <5>2. g[S] = f[S] /\ g[S \ {Seam!Max(S)}] = f[S \ {Seam!Max(S)}]
          BY <3>6, <5>1
        <5> QED BY <3>5, <5>1, <5>2
      <4> QED BY <4>1, <4>2
    <3>10. LawIs(r, k, g)
      BY <3>8, <3>9 DEF LawIs
    <3> QED BY <2>1, <3>10
  <2> QED BY <2>2, <2>3
<1> QED BY <1>1

LEMMA LawAre ==
  ASSUME NEW S, NEW r \in Seq(S)
  PROVE  \E f : LawIs(r, Len(r), f) /\ Seam!LiveNamespace(r) = f[1..Len(r)]
<1> DEFINE n == Len(r)
           f == CHOOSE g : LawIs(r, n, g)
<1>1. n \in Nat /\ DOMAIN r = 1..n
  OBVIOUS
<1>2. LawIs(r, n, f)
  BY <1>1, SomeLaw
<1>3. Seam!LiveNamespace(r) = f[1..n]
  BY <1>1 DEF Seam!LiveNamespace, Seam!FoldLeft, Seam!MapThenFoldSet, LawIs
<1> QED BY <1>2, <1>3

LEMMA LawByPlace ==
  ASSUME NEW r, NEW n \in Nat, NEW f, LawIs(r, n, f)
  PROVE  /\ f[1..0] = Seam!LawEmpty
         /\ \A k \in 1..n : f[1..k] = Seam!LawStep(f[1..(k-1)], r[k])
<1>1. \A S \in SUBSET (1..n) :
        f[S] = IF S = {} THEN Seam!LawEmpty
               ELSE Seam!LawStep(f[S \ {Seam!Max(S)}], r[Seam!Max(S)])
  BY DEF LawIs
<1>2. 1..0 = {} /\ 1..0 \in SUBSET (1..n)
  OBVIOUS
<1>3. ASSUME NEW k \in 1..n PROVE f[1..k] = Seam!LawStep(f[1..(k-1)], r[k])
  <2>1. 1..k \in SUBSET (1..n) /\ k \in 1..k /\ (1..k) \ {k} = 1..(k-1)
        /\ \A m \in 1..k : m \in Nat /\ m <= k
    OBVIOUS
  <2>2. Seam!Max(1..k) = k
    BY <2>1, MaxIs
  <2>3. 1..k # {}
    BY <2>1
  <2> QED BY <1>1, <2>1, <2>2, <2>3
<1> QED BY <1>1, <1>2, <1>3

(* The names the gate reads off one record more.                            *)
LEMMA LawGrows ==
  ASSUME NEW S, NEW r \in Seq(S), NEW e \in S
  PROVE  Seam!LiveNamespace(Append(r, e)) = Seam!LawStep(Seam!LiveNamespace(r), e)
<1> DEFINE q == Append(r, e)
           n == Len(r)
<1>1. /\ q \in Seq(S) /\ n \in Nat /\ Len(q) = n + 1 /\ q[n + 1] = e
      /\ \A i \in 1..n : q[i] = r[i]
  BY AppendProperties, LenProperties
<1>2. PICK f : LawIs(r, n, f) /\ Seam!LiveNamespace(r) = f[1..n]
  BY LawAre
<1>3. PICK g : LawIs(q, Len(q), g) /\ Seam!LiveNamespace(q) = g[1..Len(q)]
  <2> HIDE DEF q
  <2> QED BY <1>1, LawAre
<1> HIDE DEF q, n
<1>4. f[1..0] = Seam!LawEmpty /\ \A k \in 1..n : f[1..k] = Seam!LawStep(f[1..(k-1)], r[k])
  BY <1>1, <1>2, LawByPlace
<1>5. g[1..0] = Seam!LawEmpty /\ \A k \in 1..(n + 1) : g[1..k] = Seam!LawStep(g[1..(k-1)], q[k])
  <2>1. n + 1 \in Nat /\ LawIs(q, n + 1, g)
    BY <1>1, <1>3
  <2> QED BY <2>1, LawByPlace
<1>6. \A k \in 0..n : g[1..k] = f[1..k]
  <2> DEFINE D == {k \in 0..n : g[1..k] # f[1..k]}
  <2> SUFFICES ASSUME D # {} PROVE FALSE
    OBVIOUS
  <2>0. D \subseteq Nat
    BY <1>1
  <2>1. PICK k \in D : \A m \in D : k <= m
    BY <2>0, LeastOf
  <2>2. CASE k = 0
    BY <1>4, <1>5, <2>1, <2>2
  <2>3. CASE k # 0
    <3>1. k \in 1..n /\ k \in 1..(n + 1) /\ k - 1 \in 0..n /\ k - 1 \notin D
      BY <1>1, <2>1, <2>3
    <3>2. g[1..(k-1)] = f[1..(k-1)]
      BY <3>1
    <3>3. g[1..k] = f[1..k]
      BY <1>1, <1>4, <1>5, <3>1, <3>2
    <3> QED BY <2>1, <3>3
  <2> QED BY <2>2, <2>3
<1>7. g[1..(n + 1)] = Seam!LawStep(g[1..n], e)
  <2>1. n + 1 \in 1..(n + 1) /\ (n + 1) - 1 = n
    BY <1>1
  <2> QED BY <1>1, <1>5, <2>1
<1>8. n \in 0..n
  BY <1>1
<1>9. Seam!LiveNamespace(q) = Seam!LawStep(Seam!LiveNamespace(r), e)
  BY <1>1, <1>2, <1>3, <1>6, <1>7, <1>8
<1> QED BY <1>9 DEF q

-----------------------------------------------------------------------------
(* The two readers of the names                                            *)

NodeFields == {"identity", "kind", "owner", "content", "attr"}

(* The port's state s after h records and the law's names of the same.      *)
Agree(s, law, h) ==
  /\ DOMAIN s = {"names", "inodes", "kids", "paths"}
  /\ \A p \in DOMAIN s.names : p \in Seq(Names) /\ s.names[p] \in DOMAIN s.inodes
  /\ DOMAIN s.inodes \subseteq 1..(h + 1)
  /\ \A i \in DOMAIN s.inodes : DOMAIN s.inodes[i] = NodeFields
  /\ law = [p \in DOMAIN s.names |-> s.inodes[s.names[p]].kind]

(* What the kernel module may send, whatever it is about.                   *)
Sent(e) ==
  /\ e.op # "RECOVER"
  /\ e.op \in Seam!Minting \cup {"FILE-UNLINK", "FILE-RMDIR", "FILE-LINK", "FILE-RENAME"}
       => e.path \in Seq(Names) /\ e.path # << >>
  /\ e.op \in {"FILE-LINK", "FILE-RENAME"} => e.to \in Seq(Names) /\ e.to # << >>
  /\ e.op = "FILE-RENAME" => ~Seam!IsStrictPrefix(e.path, e.to)

LEMMA RefusalNamesACheck ==
  ASSUME NEW law, NEW e, Seam!Refusal(law, e) = "OK"
  PROVE  \A i \in 1..Len(Seam!Declared(e)) : Seam!Meets(law, Seam!Declared(e)[i])
<1> DEFINE checks == Seam!Declared(e)
           failed == {i \in 1..Len(checks) : ~Seam!Meets(law, checks[i])}
<1>1. Len(checks) \in Nat /\ \A i \in 1..Len(checks) : checks[i][1] \in {"unbound", "bound", "dir", "notdir", "empty"}
  BY DEF Seam!Declared, Seam!FileCreate, Seam!FileMkdir, Seam!FileSymlink, Seam!FileLink,
         Seam!FileUnlink, Seam!FileRmdir, Seam!FileRename
<1>2. Seam!Refusal(law, e) = IF failed = {} THEN "OK" ELSE Seam!ErrnoFor(e.op, checks[Seam!Min(failed)][1])
  BY DEF Seam!Refusal
<1> HIDE DEF checks
<1>3. failed = {}
  <2> SUFFICES ASSUME failed # {} PROVE FALSE
    OBVIOUS
  <2>1. failed \subseteq Nat
    BY <1>1
  <2> HIDE DEF failed
  <2>2. PICK k \in failed : \A m \in failed : k <= m
    BY <2>1, LeastOf
  <2>3. Seam!Min(failed) \in failed
    BY <2>1, <2>2 DEF Seam!Min
  <2>4. checks[Seam!Min(failed)][1] \in {"unbound", "bound", "dir", "notdir", "empty"}
    BY <1>1, <2>3 DEF failed
  <2>5. \A op : \A c \in {"unbound", "bound", "dir", "notdir", "empty"} : Seam!ErrnoFor(op, c) # "OK"
    BY DEF Seam!ErrnoFor
  <2> QED BY <1>2, <2>4, <2>5
<1> QED BY <1>3 DEF checks

LEMMA MintAgrees ==
  ASSUME NEW s, NEW law, NEW h \in Nat, NEW e, Agree(s, law, h), Sent(e),
         Seam!Refusal(law, e) = "OK", e.op \in Seam!Minting
  PROVE  Agree(Seam!Apply(s, e, h + 1), Seam!LawStep(law, e), h + 1)
<1> DEFINE i == Seam!FormalName(h + 1)
           new == Seam!NewNode(e, h + 1)
           t == [s EXCEPT !.inodes = Seam!With(@, i, new)]
<1>1. i = h + 2 /\ i \notin DOMAIN s.inodes /\ i \in 1..(h + 2) /\ i # Seam!NoIno
  BY DEF Seam!FormalName, Seam!RootIno, Seam!NoIno, Agree
<1>2. new.kind = e.kind /\ DOMAIN new = NodeFields
  BY DEF Seam!NewNode, NodeFields
<1>3. Seam!Declared(e) = << <<"unbound", e.path>>, <<"bound", Seam!parent_of(e.path)>>,
                            <<"dir", Seam!parent_of(e.path)>> >>
  BY DEF Seam!Minting, Seam!Declared, Seam!FileCreate, Seam!FileMkdir, Seam!FileSymlink
<1>4. Seam!Meets(law, <<"unbound", e.path>>) /\ Seam!Meets(law, <<"bound", Seam!parent_of(e.path)>>)
  <2> DEFINE D == Seam!Declared(e)
  <2>1. /\ 1 \in 1..Len(D) /\ D[1] = <<"unbound", e.path>>
        /\ 2 \in 1..Len(D) /\ D[2] = <<"bound", Seam!parent_of(e.path)>>
    BY <1>3
  <2>2. \A k \in 1..Len(D) : Seam!Meets(law, D[k])
    BY RefusalNamesACheck
  <2> HIDE DEF D
  <2> QED BY <2>1, <2>2
<1>5. e.path \notin DOMAIN law
  BY <1>4 DEF Seam!Meets, Seam!BindingCheck, Seam!Bound
<1>6. Seam!LawHeld(law, e)
  <2>1. \A k \in 1..Len(Seam!Declared(e)) : Seam!BindingCheck(law, Seam!Declared(e)[k])
    BY RefusalNamesACheck DEF Seam!Meets
  <2>2. Seam!Declared(e) # << >>
    BY <1>3
  <2> QED BY <2>1, <2>2 DEF Seam!LawHeld
<1>7. Seam!LawStep(law, e) = Seam!With(law, e.path, e.kind)
  BY <1>6 DEF Seam!LawStep, Seam!Minting
<1>8. Seam!Apply(s, e, h + 1) = Seam!Bind(t, e.path, i)
  BY DEF Seam!Apply, Seam!Minting, Seam!AttrOps
<1>9. DOMAIN law = DOMAIN s.names
  BY DEF Agree
<1> HIDE DEF i, new
<1>10. /\ DOMAIN t = {"names", "inodes", "kids", "paths"}
       /\ t.names = s.names /\ t.inodes = Seam!With(s.inodes, i, new)
  BY DEF Agree
<1> HIDE DEF t
<1> DEFINE u == Seam!Bind(t, e.path, i)
<1>11. /\ DOMAIN u = {"names", "inodes", "kids", "paths"}
       /\ u.names = Seam!With(s.names, e.path, i)
       /\ u.inodes = Seam!With(s.inodes, i, new)
  BY <1>1, <1>5, <1>9, <1>10 DEF Seam!Bind, Seam!At
<1> HIDE DEF u
<1>12. /\ DOMAIN u.names = DOMAIN s.names \cup {e.path} /\ u.names[e.path] = i
       /\ \A p \in DOMAIN s.names : u.names[p] = s.names[p]
       /\ DOMAIN u.inodes = DOMAIN s.inodes \cup {i} /\ u.inodes[i] = new
       /\ \A j \in DOMAIN s.inodes : u.inodes[j] = s.inodes[j]
  BY <1>1, <1>5, <1>9, <1>11 DEF Seam!With
<1>13. \A p \in DOMAIN u.names : p \in Seq(Names) /\ u.names[p] \in DOMAIN u.inodes
  BY <1>12 DEF Agree, Sent
<1>14. DOMAIN u.inodes \subseteq 1..((h + 1) + 1)
  <2>1. DOMAIN s.inodes \subseteq 1..(h + 1) /\ (h + 1) + 1 = h + 2 /\ 1..(h + 1) \subseteq 1..(h + 2)
    BY DEF Agree
  <2> QED BY <1>1, <1>12, <2>1
<1>15. \A j \in DOMAIN u.inodes : DOMAIN u.inodes[j] = NodeFields
  BY <1>2, <1>12 DEF Agree
<1>16. Seam!With(law, e.path, e.kind) = [p \in DOMAIN u.names |-> u.inodes[u.names[p]].kind]
  <2>1. \A p \in DOMAIN s.names : /\ law[p] = s.inodes[s.names[p]].kind /\ p # e.path
                                  /\ s.names[p] \in DOMAIN s.inodes
    BY <1>5, <1>9 DEF Agree
  <2>2. \A p \in DOMAIN s.names : law[p] = u.inodes[u.names[p]].kind
    BY <1>12, <2>1
  <2>3. u.inodes[u.names[e.path]].kind = e.kind
    BY <1>2, <1>12
  <2> QED BY <1>9, <1>12, <2>1, <2>2, <2>3 DEF Seam!With
<1>17. Agree(u, Seam!With(law, e.path, e.kind), h + 1)
  BY <1>11, <1>13, <1>14, <1>15, <1>16 DEF Agree
<1> QED BY <1>7, <1>8, <1>17 DEF u

(* Acts on a node change no name and no kind.                               *)
LEMMA NodeActAgrees ==
  ASSUME NEW s, NEW law, NEW h \in Nat, NEW e, Agree(s, law, h),
         e.op \notin Seam!Minting \cup {"FILE-UNLINK", "FILE-RMDIR", "FILE-LINK", "FILE-RENAME"}
  PROVE  Agree(Seam!Apply(s, e, h + 1), Seam!LawStep(law, e), h + 1)
<1> DEFINE i == Seam!Node(s, e)
           u == Seam!Apply(s, e, h + 1)
<1>1. Seam!LawStep(law, e) = law
  <2>1. Seam!Declared(e) = << >>
    BY DEF Seam!Declared, Seam!Minting
  <2> QED BY <2>1 DEF Seam!LawStep, Seam!LawHeld
<1>2. i = 0 \/ i \in DOMAIN s.inodes
  BY DEF Seam!Node, Seam!NoIno
<1>3. \/ u = s
      \/ i # 0 /\ \E v : \/ u = [s EXCEPT !.inodes[i].content = v]
                         \/ u = [s EXCEPT !.inodes[i].owner = v]
                         \/ u = [s EXCEPT !.inodes[i].attr = v]
  <2>1. CASE e.op \in {"FILE-WRITE", "FILE-TRUNCATE"} /\ i # 0
    <3>1. u = [s EXCEPT !.inodes[i].content = e.val]
      BY <2>1 DEF Seam!Apply, Seam!Minting, Seam!NoIno, Seam!AttrOps
    <3> QED BY <2>1, <3>1
  <2>2. CASE e.op = "FILE-CHOWN" /\ i # 0
    <3>1. u = [s EXCEPT !.inodes[i].owner = e.val]
      BY <2>2 DEF Seam!Apply, Seam!Minting, Seam!NoIno
    <3> QED BY <2>2, <3>1
  <2>3. CASE e.op \in Seam!AttrOps \ {"FILE-CHOWN"} /\ i # 0
    <3>1. u = [s EXCEPT !.inodes[i].attr = e.val]
      BY <2>3 DEF Seam!Apply, Seam!Minting, Seam!NoIno, Seam!AttrOps
    <3> QED BY <2>3, <3>1
  <2>4. CASE i = 0 \/ (e.op \notin {"FILE-WRITE", "FILE-TRUNCATE", "FILE-CHOWN"} /\ e.op \notin Seam!AttrOps)
    <3>1. u = s
      BY <2>4 DEF Seam!Apply, Seam!Minting, Seam!NoIno
    <3> QED BY <3>1
  <2> QED BY <2>1, <2>2, <2>3, <2>4
<1> HIDE DEF i, u
<1>4. /\ DOMAIN u = {"names", "inodes", "kids", "paths"} /\ u.names = s.names
      /\ DOMAIN u.inodes = DOMAIN s.inodes
      /\ \A j \in DOMAIN s.inodes : DOMAIN u.inodes[j] = NodeFields /\ u.inodes[j].kind = s.inodes[j].kind
  <2>1. CASE u = s
    BY <2>1 DEF Agree
  <2>2. ASSUME NEW v, i \in DOMAIN s.inodes,
               \/ u = [s EXCEPT !.inodes[i].content = v]
               \/ u = [s EXCEPT !.inodes[i].owner = v]
               \/ u = [s EXCEPT !.inodes[i].attr = v]
        PROVE  <1>4
    <3> DEFINE N == [s.inodes[i] EXCEPT !.content = v]
               O == [s.inodes[i] EXCEPT !.owner = v]
               A == [s.inodes[i] EXCEPT !.attr = v]
    <3>1. DOMAIN s.inodes[i] = NodeFields /\ DOMAIN s = {"names", "inodes", "kids", "paths"}
          /\ \A j \in DOMAIN s.inodes : DOMAIN s.inodes[j] = NodeFields
      BY <2>2 DEF Agree
    <3>2. /\ DOMAIN N = NodeFields /\ N.kind = s.inodes[i].kind
          /\ DOMAIN O = NodeFields /\ O.kind = s.inodes[i].kind
          /\ DOMAIN A = NodeFields /\ A.kind = s.inodes[i].kind
      BY <3>1 DEF NodeFields
    <3>3. \/ u = [s EXCEPT !.inodes = [@ EXCEPT ![i] = N]]
          \/ u = [s EXCEPT !.inodes = [@ EXCEPT ![i] = O]]
          \/ u = [s EXCEPT !.inodes = [@ EXCEPT ![i] = A]]
      BY <2>2
    <3> HIDE DEF N, O, A
    <3>4. PICK x : /\ DOMAIN x = NodeFields /\ x.kind = s.inodes[i].kind
                   /\ u = [s EXCEPT !.inodes = [@ EXCEPT ![i] = x]]
      BY <3>2, <3>3
    <3>5. DOMAIN u = DOMAIN s /\ u.names = s.names /\ u.inodes = [s.inodes EXCEPT ![i] = x]
      BY <3>1, <3>4
    <3> QED BY <2>2, <3>1, <3>4, <3>5
  <2> QED BY <1>2, <1>3, <2>1, <2>2
<1>5. DOMAIN u.inodes \subseteq 1..((h + 1) + 1)
  <2>1. DOMAIN s.inodes \subseteq 1..(h + 1) /\ 1..(h + 1) \subseteq 1..((h + 1) + 1)
    BY DEF Agree
  <2> QED BY <1>4, <2>1
<1>6. \A p \in DOMAIN u.names : p \in Seq(Names) /\ u.names[p] \in DOMAIN u.inodes
  BY <1>4 DEF Agree
<1>7. law = [p \in DOMAIN u.names |-> u.inodes[u.names[p]].kind]
  BY <1>4 DEF Agree
<1>8. Agree(u, law, h + 1)
  BY <1>4, <1>5, <1>6, <1>7 DEF Agree
<1> QED BY <1>1, <1>8 DEF u

Fields == {"names", "inodes", "kids", "paths"}

LEMMA ForgetForgets ==
  ASSUME NEW s, DOMAIN s = Fields, NEW p, NEW i
  PROVE  LET u == Seam!Forget(s, p, i)
         IN  DOMAIN u = Fields /\ u.names = s.names /\ u.inodes = s.inodes
  BY DEF Seam!Forget, Fields

LEMMA BindBinds ==
  ASSUME NEW s, DOMAIN s = Fields, NEW p, NEW i, i # 0
  PROVE  LET u == Seam!Bind(s, p, i)
         IN  /\ DOMAIN u = Fields /\ u.inodes = s.inodes
             /\ DOMAIN u.names = DOMAIN s.names \cup {p} /\ u.names[p] = i
             /\ \A q \in DOMAIN s.names : q # p => u.names[q] = s.names[q]
<1> DEFINE prev == Seam!At(s.names, p, Seam!NoIno)
           t == IF prev = Seam!NoIno THEN s ELSE Seam!Forget(s, p, prev)
           u == Seam!Bind(s, p, i)
<1>1. DOMAIN t = Fields /\ t.names = s.names /\ t.inodes = s.inodes
  BY ForgetForgets
<1>2. CASE prev = i
  <2>1. u = s
    BY <1>2 DEF Seam!Bind
  <2>2. p \in DOMAIN s.names /\ s.names[p] = i
    BY <1>2 DEF Seam!At, Seam!NoIno
  <2> QED BY <2>1, <2>2
<1>3. CASE prev # i
  <2> DEFINE a == Seam!With(t.names, p, i)
             b == Seam!With(t.paths, i, Seam!At(t.paths, i, {}) \cup {p})
             c == Seam!With(t.kids, Seam!parent_of(p),
                            Seam!At(t.kids, Seam!parent_of(p), {}) \cup {Seam!basename(p)})
  <2>1. u = [t EXCEPT !.names = a, !.paths = b, !.kids = c]
    BY <1>3 DEF Seam!Bind
  <2>2. a = [x \in DOMAIN s.names \cup {p} |-> IF x = p THEN i ELSE s.names[x]]
    BY <1>1 DEF Seam!With
  <2> HIDE DEF t, a, b, c, u
  <2>3. DOMAIN u = Fields /\ u.names = a /\ u.inodes = s.inodes
    BY <1>1, <2>1 DEF Fields
  <2>4. /\ DOMAIN a = DOMAIN s.names \cup {p} /\ a[p] = i
        /\ \A q \in DOMAIN s.names : q # p => a[q] = s.names[q]
    BY <2>2
  <2> QED BY <2>3, <2>4 DEF u
<1> QED BY <1>2, <1>3

LEMMA UnbindUnbinds ==
  ASSUME NEW s, DOMAIN s = Fields, NEW p
  PROVE  LET u == Seam!Unbind(s, p)
         IN  /\ DOMAIN u = Fields /\ u.inodes = s.inodes
             /\ DOMAIN u.names = (DOMAIN s.names) \ {p}
             /\ \A q \in DOMAIN s.names : q # p => u.names[q] = s.names[q]
<1> DEFINE u == Seam!Unbind(s, p)
<1>1. CASE p \notin DOMAIN s.names
  <2>1. u = s
    BY <1>1 DEF Seam!Unbind
  <2> QED BY <1>1, <2>1
<1>2. CASE p \in DOMAIN s.names
  <2> DEFINE t == [s EXCEPT !.names = Seam!Without(@, p)]
  <2>1. u = Seam!Forget(t, p, s.names[p])
    BY <1>2 DEF Seam!Unbind
  <2>2. DOMAIN t = Fields /\ t.inodes = s.inodes /\ t.names = [x \in (DOMAIN s.names) \ {p} |-> s.names[x]]
    BY DEF Fields, Seam!Without
  <2> HIDE DEF t
  <2>3. DOMAIN u = Fields /\ u.names = t.names /\ u.inodes = t.inodes
    BY <2>1, <2>2, ForgetForgets
  <2> HIDE DEF u
  <2>4. DOMAIN t.names = (DOMAIN s.names) \ {p} /\ \A q \in DOMAIN s.names : q # p => t.names[q] = s.names[q]
    BY <2>2
  <2> QED BY <2>2, <2>3, <2>4 DEF u
<1> QED BY <1>1, <1>2

(* What becomes of the names says what becomes of the law's.                *)
LEMMA NamesAgree ==
  ASSUME NEW s, NEW law, NEW h \in Nat, Agree(s, law, h), NEW u, NEW new,
         DOMAIN u = Fields, u.inodes = s.inodes,
         \A p \in DOMAIN u.names : p \in Seq(Names) /\ u.names[p] \in DOMAIN s.inodes,
         new = [p \in DOMAIN u.names |-> s.inodes[u.names[p]].kind]
  PROVE  Agree(u, new, h + 1)
<1>1. DOMAIN s.inodes \subseteq 1..(h + 1) /\ 1..(h + 1) \subseteq 1..((h + 1) + 1)
  BY DEF Agree
<1> QED BY <1>1 DEF Agree, Fields

(* What the gate admits of a link, a removal and a move.                    *)
LEMMA Admitted ==
  ASSUME NEW law, NEW e, Seam!Refusal(law, e) = "OK",
         e.op \in {"FILE-UNLINK", "FILE-RMDIR", "FILE-LINK", "FILE-RENAME"}
  PROVE  Seam!LawHeld(law, e) /\ e.path \in DOMAIN law /\ (e.op = "FILE-LINK" => e.to \notin DOMAIN law)
<1> DEFINE D == Seam!Declared(e)
<1>1. /\ D # << >> /\ 1 \in 1..Len(D) /\ D[1] = <<"bound", e.path>>
      /\ e.op = "FILE-LINK" => 3 \in 1..Len(D) /\ D[3] = <<"unbound", e.to>>
  BY DEF Seam!Declared, Seam!FileLink, Seam!FileUnlink, Seam!FileRmdir, Seam!FileRename
<1>2. \A k \in 1..Len(D) : Seam!Meets(law, D[k])
  BY RefusalNamesACheck
<1>3. Seam!LawHeld(law, e)
  BY <1>1, <1>2 DEF Seam!LawHeld, Seam!Meets
<1> HIDE DEF D
<1>4. Seam!Meets(law, <<"bound", e.path>>) /\ (e.op = "FILE-LINK" => Seam!Meets(law, <<"unbound", e.to>>))
  BY <1>1, <1>2
<1> QED BY <1>3, <1>4 DEF Seam!Meets, Seam!BindingCheck, Seam!Bound

LEMMA LinkAgrees ==
  ASSUME NEW s, NEW law, NEW h \in Nat, NEW e, Agree(s, law, h), Sent(e),
         Seam!Refusal(law, e) = "OK", e.op = "FILE-LINK"
  PROVE  Agree(Seam!Apply(s, e, h + 1), Seam!LawStep(law, e), h + 1)
<1>1. Seam!LawHeld(law, e) /\ e.path \in DOMAIN s.names /\ e.to \notin DOMAIN s.names
      /\ DOMAIN law = DOMAIN s.names /\ DOMAIN s = Fields
  BY Admitted DEF Agree, Fields
<1> DEFINE i == s.names[e.path]
           u == Seam!Bind(s, e.to, i)
           new == Seam!With(law, e.to, law[e.path])
<1>2. Seam!LawStep(law, e) = new /\ Seam!Apply(s, e, h + 1) = u
  BY <1>1 DEF Seam!LawStep, Seam!Apply, Seam!Minting, Seam!AttrOps
<1>3. i \in DOMAIN s.inodes /\ i # 0
  BY <1>1 DEF Agree
<1>4. /\ DOMAIN u = Fields /\ u.inodes = s.inodes
      /\ DOMAIN u.names = DOMAIN s.names \cup {e.to} /\ u.names[e.to] = i
      /\ \A q \in DOMAIN s.names : q # e.to => u.names[q] = s.names[q]
  BY <1>1, <1>3, BindBinds
<1>5. new = [x \in DOMAIN s.names \cup {e.to} |-> IF x = e.to THEN law[e.path] ELSE law[x]]
  BY <1>1 DEF Seam!With
<1> HIDE DEF u, new
<1>6. \A p \in DOMAIN s.names : law[p] = s.inodes[s.names[p]].kind
  BY DEF Agree
<1>7. \A p \in DOMAIN u.names : p \in Seq(Names) /\ u.names[p] \in DOMAIN s.inodes
  BY <1>1, <1>3, <1>4 DEF Agree, Sent
<1>8. new = [p \in DOMAIN u.names |-> s.inodes[u.names[p]].kind]
  BY <1>1, <1>4, <1>5, <1>6
<1>9. Agree(u, new, h + 1)
  BY <1>4, <1>7, <1>8, NamesAgree
<1> QED BY <1>2, <1>9

LEMMA RemovalAgrees ==
  ASSUME NEW s, NEW law, NEW h \in Nat, NEW e, Agree(s, law, h), Sent(e),
         Seam!Refusal(law, e) = "OK", e.op \in {"FILE-UNLINK", "FILE-RMDIR"}
  PROVE  Agree(Seam!Apply(s, e, h + 1), Seam!LawStep(law, e), h + 1)
<1>1. Seam!LawHeld(law, e) /\ DOMAIN law = DOMAIN s.names /\ DOMAIN s = Fields /\ e.path # << >>
  BY Admitted DEF Agree, Fields, Sent
<1> DEFINE u == Seam!Unbind(s, e.path)
           new == Seam!Without(law, e.path)
<1>2. Seam!LawStep(law, e) = new /\ Seam!Apply(s, e, h + 1) = u
  BY <1>1 DEF Seam!LawStep, Seam!LawUnbind, Seam!Root, Seam!Apply, Seam!Minting, Seam!AttrOps
<1>3. /\ DOMAIN u = Fields /\ u.inodes = s.inodes
      /\ DOMAIN u.names = (DOMAIN s.names) \ {e.path}
      /\ \A q \in DOMAIN s.names : q # e.path => u.names[q] = s.names[q]
  BY <1>1, UnbindUnbinds
<1>4. new = [x \in (DOMAIN s.names) \ {e.path} |-> law[x]]
  BY <1>1 DEF Seam!Without
<1> HIDE DEF u, new
<1>5. \A p \in DOMAIN s.names : law[p] = s.inodes[s.names[p]].kind
  BY DEF Agree
<1>6. \A p \in DOMAIN u.names : p \in Seq(Names) /\ u.names[p] \in DOMAIN s.inodes
  BY <1>3 DEF Agree
<1>7. new = [p \in DOMAIN u.names |-> s.inodes[u.names[p]].kind]
  BY <1>3, <1>4, <1>5
<1>8. Agree(u, new, h + 1)
  BY <1>3, <1>6, <1>7, NamesAgree
<1> QED BY <1>2, <1>8

(* A rename of a name with no name under it moves that name, and no more.   *)
LEMMA RenameOfALeaf ==
  ASSUME NEW s, NEW src, NEW dst, Seam!Below(Seam!Move(s, src, dst).names, src) = {}
  PROVE  Seam!Rename(s, src, dst) = Seam!Move(s, src, dst)
<1> DEFINE top == Seam!Move(s, src, dst)
           f == [T \in SUBSET {} |-> top]
           Is(g) == g = [T \in SUBSET {} |->
                           IF T = {} THEN top
                           ELSE LET x == CHOOSE x \in T : TRUE
                                IN  Seam!Move(g[T \ {x}], x, dst \o SubSeq(x, Len(src) + 1, Len(x)))]
<1> HIDE DEF top
<1>1. \A T \in SUBSET {} : T = {}
  OBVIOUS
<1>2. Is(f)
  BY <1>1
<1>3. Is(CHOOSE g : Is(g))
  BY <1>2
<1>4. (CHOOSE g : Is(g))[{}] = top
  BY <1>3
<1>5. Seam!Below(top.names, src) = {}
  BY DEF top
<1>6. Seam!Rename(s, src, dst) = (CHOOSE g : Is(g))[{}]
  BY <1>5 DEF Seam!Rename, Seam!FoldSet, Seam!MapThenFoldSet, top
<1> QED BY <1>4, <1>6 DEF top

LEMMA MoveAgrees ==
  ASSUME NEW s, NEW law, NEW h \in Nat, NEW e, Agree(s, law, h), Sent(e),
         Seam!Refusal(law, e) = "OK", e.op = "FILE-RENAME", Seam!Below(s.names, e.path) = {}
  PROVE  Agree(Seam!Apply(s, e, h + 1), Seam!LawStep(law, e), h + 1)
<1>1. /\ Seam!LawHeld(law, e) /\ e.path \in DOMAIN s.names /\ DOMAIN law = DOMAIN s.names
      /\ DOMAIN s = Fields /\ e.path # << >> /\ e.to \in Seq(Names)
      /\ ~Seam!IsStrictPrefix(e.path, e.to)
  BY Admitted DEF Agree, Fields, Sent
<1> DEFINE i == s.names[e.path]
           t == Seam!Unbind(s, e.path)
           u == Seam!Bind(t, e.to, i)
           new == Seam!With(Seam!Without(law, e.path), e.to, law[e.path])
<1>2. i \in DOMAIN s.inodes /\ i # 0
  BY <1>1 DEF Agree
<1>3. /\ DOMAIN t = Fields /\ t.inodes = s.inodes
      /\ DOMAIN t.names = (DOMAIN s.names) \ {e.path}
      /\ \A q \in DOMAIN s.names : q # e.path => t.names[q] = s.names[q]
  BY <1>1, UnbindUnbinds
<1> HIDE DEF t, i
<1>4. /\ DOMAIN u = Fields /\ u.inodes = s.inodes
      /\ DOMAIN u.names = ((DOMAIN s.names) \ {e.path}) \cup {e.to} /\ u.names[e.to] = i
      /\ \A q \in (DOMAIN s.names) \ {e.path} : q # e.to => u.names[q] = s.names[q]
  <2>1. /\ DOMAIN u = Fields /\ u.inodes = t.inodes
        /\ DOMAIN u.names = DOMAIN t.names \cup {e.to} /\ u.names[e.to] = i
        /\ \A q \in DOMAIN t.names : q # e.to => u.names[q] = t.names[q]
    BY <1>2, <1>3, BindBinds
  <2> HIDE DEF u
  <2> QED BY <1>3, <2>1
<1>5. Seam!Apply(s, e, h + 1) = u
  <2>1. Seam!Apply(s, e, h + 1) = Seam!Rename(s, e.path, e.to)
    BY <1>1 DEF Seam!Apply, Seam!Minting, Seam!AttrOps
  <2>2. Seam!Move(s, e.path, e.to) = u
    BY <1>1 DEF Seam!Move, t, i
  <2> HIDE DEF u
  <2>3. Seam!Below(u.names, e.path) = {}
    <3>1. \A p \in DOMAIN u.names : ~Seam!IsStrictPrefix(e.path, p)
      BY <1>1, <1>4 DEF Seam!Below
    <3> QED BY <3>1 DEF Seam!Below
  <2>4. Seam!Rename(s, e.path, e.to) = u
    BY <2>2, <2>3, RenameOfALeaf
  <2> QED BY <2>1, <2>4
<1>6. Seam!LawStep(law, e) = new
  BY <1>1 DEF Seam!LawStep, Seam!LawUnbind, Seam!Root, Seam!Minting
<1>7. new = [x \in ((DOMAIN s.names) \ {e.path}) \cup {e.to} |-> IF x = e.to THEN law[e.path] ELSE law[x]]
  BY <1>1 DEF Seam!With, Seam!Without
<1> HIDE DEF u, new
<1>8. \A p \in DOMAIN s.names : law[p] = s.inodes[s.names[p]].kind
  BY DEF Agree
<1>9. \A p \in DOMAIN u.names : p \in Seq(Names) /\ u.names[p] \in DOMAIN s.inodes
  BY <1>1, <1>2, <1>4 DEF Agree
<1>10. law[e.path] = s.inodes[i].kind
  BY <1>1, <1>8 DEF i
<1>11. new = [p \in DOMAIN u.names |-> s.inodes[u.names[p]].kind]
  BY <1>4, <1>7, <1>8, <1>10
<1>12. Agree(u, new, h + 1)
  BY <1>4, <1>9, <1>11, NamesAgree
<1> QED BY <1>5, <1>6, <1>12

-----------------------------------------------------------------------------
(* What the port sends                                                     *)

Naming == Seam!Minting \cup {"FILE-UNLINK", "FILE-RMDIR", "FILE-LINK", "FILE-RENAME"}

LEMMA OthersNameNothing ==
  \A e \in Seam!NodeRequests \cup Seam!LockRequests : e.op \notin Naming
<1>1. \A e \in Seam!NodeRequests : e.op \notin Naming
  <2>1. /\ \A i, c : Seam!FileWrite(i, c).op \notin Naming /\ Seam!FileTruncate(i, c).op \notin Naming
        /\ \A i, c : Seam!FilePerm(i, c).op \notin Naming /\ Seam!FileChown(i, c).op \notin Naming
        /\ \A i : /\ Seam!FileHandle("FILE-OPEN", i).op \notin Naming
                 /\ Seam!FileHandle("FILE-CLOSE", i).op \notin Naming
                 /\ Seam!FileReadAggregate(i).op \notin Naming
        /\ \A op, i, c : op \notin Naming => Seam!FileAttr(op, i, c).op \notin Naming
        /\ \A op \in Seam!AttrOps : op \notin Naming
    BY DEF Seam!Rec, Seam!FileWrite, Seam!FileTruncate, Seam!FilePerm, Naming, Seam!Minting,
         Seam!FileHandle, Seam!FileReadAggregate, Seam!FileAttr, Seam!FileChown, Seam!AttrOps
  <2> DEFINE A == UNION {{Seam!FileWrite(i, c), Seam!FileTruncate(i, c)} : i \in Seam!Inodes, c \in Contents}
             B == UNION {{Seam!FilePerm(i, Seam!NoVal), Seam!FileHandle("FILE-OPEN", i),
                          Seam!FileHandle("FILE-CLOSE", i), Seam!FileReadAggregate(i)} : i \in Seam!Inodes}
             C == {Seam!FileAttr(op, i, Seam!NoVal) : op \in Seam!AttrOps \ {"FILE-PERM", "FILE-CHOWN"},
                                                      i \in Seam!Inodes}
             D == {Seam!FileChown(i, u) : i \in Seam!Inodes, u \in Uids}
  <2>2. \A e \in A : e.op \notin Naming
    BY <2>1
  <2>3. \A e \in B : e.op \notin Naming
    BY <2>1
  <2>4. \A e \in C : e.op \notin Naming
    BY <2>1
  <2>5. \A e \in D : e.op \notin Naming
    BY <2>1
  <2>6. Seam!NodeRequests = A \cup B \cup C \cup D
    BY DEF Seam!NodeRequests
  <2> HIDE DEF A, B, C, D
  <2> QED BY <2>2, <2>3, <2>4, <2>5, <2>6
<1>2. \A e \in Seam!LockRequests : e.op \notin Naming
  BY DEF Seam!LockRequests, Seam!FileRange, Seam!Rec, Naming, Seam!Minting
<1> QED BY <1>1, <1>2

LEMMA RequestsAreSent ==
  ASSUME NEW law, NEW h, Agree(state, law, h),
         NEW e \in Seam!NameRequests \cup Seam!NodeRequests \cup Seam!LockRequests, Seam!VfsSends(e)
  PROVE  Sent(e)
<1>1. e.op # "RECOVER"
  BY RequestsRecoverNothing
<1>2. \A p \in Seam!Askable : p \in Seq(Names) /\ p # << >>
  <2> SUFFICES ASSUME NEW d \in DOMAIN state.names, NEW n \in Names
               PROVE  Append(d, n) \in Seq(Names) /\ Append(d, n) # << >>
    BY DEF Seam!Askable
  <2>1. d \in Seq(Names)
    BY DEF Agree
  <2>2. Append(d, n) \in Seq(Names) /\ Len(Append(d, n)) = Len(d) + 1 /\ Len(d) \in Nat
    BY <2>1, AppendProperties, LenProperties
  <2> QED BY <2>2
<1>3. CASE e \in Seam!NodeRequests \cup Seam!LockRequests
  BY <1>1, <1>3, OthersNameNothing DEF Sent, Naming
<1>4. CASE e \in Seam!NameRequests
  <2>1. e.path \in Seam!Askable /\ (e.op \in {"FILE-LINK", "FILE-RENAME"} => e.to \in Seam!Askable)
    BY <1>4 DEF Seam!NameRequests, Seam!Rec
  <2>2. e.op = "FILE-RENAME" => ~Seam!IsStrictPrefix(e.path, e.to)
    BY DEF Seam!VfsSends
  <2> QED BY <1>1, <1>2, <2>1, <2>2 DEF Sent
<1> QED BY <1>3, <1>4

LEMMA AdmittedGrows ==
  ASSUME NEW S, NEW r \in Seq(S), NEW e \in S, Sent(e),
         Agree(Seam!Fold(r), Seam!LiveNamespace(r), Len(r)),
         e.op \in Naming => Seam!Refusal(Seam!LiveNamespace(r), e) = "OK",
         e.op = "FILE-RENAME" => Seam!Below(Seam!Fold(r).names, e.path) = {}
  PROVE  Agree(Seam!Fold(Append(r, e)), Seam!LiveNamespace(Append(r, e)), Len(r) + 1)
<1> DEFINE s == Seam!Fold(r)
           law == Seam!LiveNamespace(r)
           h == Len(r)
<1>1. h \in Nat
  OBVIOUS
<1>2. /\ Seam!Fold(Append(r, e)) = Seam!Apply(s, e, h + 1)
      /\ Seam!LiveNamespace(Append(r, e)) = Seam!LawStep(law, e)
  BY FoldGrows, LawGrows DEF Sent
<1> HIDE DEF s, law, h
<1>3. Agree(s, law, h) /\ (e.op \in Naming => Seam!Refusal(law, e) = "OK")
      /\ (e.op = "FILE-RENAME" => Seam!Below(s.names, e.path) = {})
  BY DEF s, law, h
<1>4. Agree(Seam!Apply(s, e, h + 1), Seam!LawStep(law, e), h + 1)
  <2>1. CASE e.op \notin Naming
    BY <1>1, <1>3, <2>1, NodeActAgrees DEF Naming
  <2>2. CASE e.op \in Seam!Minting
    BY <1>1, <1>3, <2>2, MintAgrees DEF Naming
  <2>3. CASE e.op = "FILE-LINK"
    BY <1>1, <1>3, <2>3, LinkAgrees DEF Naming
  <2>4. CASE e.op \in {"FILE-UNLINK", "FILE-RMDIR"}
    BY <1>1, <1>3, <2>4, RemovalAgrees DEF Naming
  <2>5. CASE e.op = "FILE-RENAME"
    BY <1>1, <1>3, <2>5, MoveAgrees DEF Naming
  <2> QED BY <2>1, <2>2, <2>3, <2>4, <2>5 DEF Naming
<1> QED BY <1>2, <1>4 DEF h

-----------------------------------------------------------------------------
(* The invariant of the two readers                                        *)

Calm == \A n \in 1..Len(rec) : rec[n].op # "RECOVER" /\ ~Seam!Moved(n)

Agreeing ==
  /\ undone => \E n \in 1..Len(rec) : rec[n].op = "RECOVER"
  /\ Calm => Agree(Seam!Fold(rec), Seam!LiveNamespace(rec), Len(rec))

LEMMA InitAgreeing == Seam!Init => Agreeing
<1> SUFFICES ASSUME Seam!Init PROVE Agreeing
  OBVIOUS
<1>1. rec = << >> /\ undone = FALSE
  BY DEF Seam!Init
<1>2. Len(rec) = 0 /\ rec \in Seq({})
  BY <1>1
<1>3. Seam!Fold(rec) = Seam!EmptyState
  <2>1. PICK s : FoldIs(rec, 0, s) /\ Seam!Fold(rec) = s[0]
    BY <1>2, FoldAre
  <2> QED BY <2>1 DEF FoldIs
<1>4. Seam!LiveNamespace(rec) = Seam!LawEmpty
  <2>1. PICK f : LawIs(rec, 0, f) /\ Seam!LiveNamespace(rec) = f[1..0]
    BY <1>2, LawAre
  <2> QED BY <2>1, LawByPlace
<1>5. Agree(Seam!EmptyState, Seam!LawEmpty, 0)
  <2> DEFINE s == Seam!EmptyState
  <2>1. /\ DOMAIN s = {"names", "inodes", "kids", "paths"}
        /\ s.names = [p \in {<< >>} |-> 1] /\ DOMAIN s.inodes = {1}
        /\ DOMAIN s.inodes[1] = NodeFields /\ s.inodes[1].kind = "dir"
    BY DEF Seam!EmptyState, Seam!Root, Seam!RootIno, NodeFields
  <2>2. Seam!LawEmpty = [p \in {<< >>} |-> "dir"]
    BY DEF Seam!LawEmpty, Seam!Root
  <2>3. << >> \in Seq(Names) /\ 1 \in 1..(0 + 1)
    OBVIOUS
  <2> HIDE DEF s
  <2>4. DOMAIN s.names = {<< >>} /\ \A p \in DOMAIN s.names : s.names[p] = 1
    BY <2>1
  <2>5. Seam!LawEmpty = [p \in DOMAIN s.names |-> s.inodes[s.names[p]].kind]
    BY <2>1, <2>2, <2>4
  <2>6. Agree(s, Seam!LawEmpty, 0)
    BY <2>1, <2>3, <2>4, <2>5 DEF Agree
  <2> QED BY <2>6 DEF s
<1> QED BY <1>1, <1>2, <1>3, <1>4, <1>5 DEF Agreeing

(* What one more record leaves as it was.                                   *)
LEMMA PrefixesStay ==
  ASSUME rec \in Seq(Held(rec)), NEW e, rec' = Append(rec, e)
  PROVE  /\ \A k \in 1..(Len(rec) + 1) : SubSeq(rec', 1, k - 1) = SubSeq(rec, 1, k - 1)
         /\ \A k \in 1..Len(rec) : rec'[k] = rec[k] /\ (Seam!Moved(k)' <=> Seam!Moved(k))
<1> DEFINE n == Len(rec)
<1>1. /\ n \in Nat /\ rec' \in Seq(Held(rec')) /\ Len(rec') = n + 1
      /\ \A i \in 1..n : rec'[i] = rec[i]
  BY OneMore
<1>2. ASSUME NEW k \in 1..(n + 1) PROVE SubSeq(rec', 1, k - 1) = SubSeq(rec, 1, k - 1)
  <2>1. k - 1 \in 0..n /\ k - 1 \in 0..Len(rec') /\ \A i \in 1..(k - 1) : i \in 1..n
    BY <1>1
  <2>2. /\ SubSeq(rec', 1, k - 1) \in Seq(Held(rec')) /\ Len(SubSeq(rec', 1, k - 1)) = k - 1
        /\ \A i \in 1..(k - 1) : SubSeq(rec', 1, k - 1)[i] = rec'[i]
    BY <1>1, <2>1, Prefix
  <2>3. /\ SubSeq(rec, 1, k - 1) \in Seq(Held(rec)) /\ Len(SubSeq(rec, 1, k - 1)) = k - 1
        /\ \A i \in 1..(k - 1) : SubSeq(rec, 1, k - 1)[i] = rec[i]
    BY <2>1, Prefix
  <2> QED BY <1>1, <2>1, <2>2, <2>3, SeqEqual
<1>3. \A k \in 1..n : k \in 1..(n + 1)
  BY <1>1
<1>4. \A k \in 1..n : Seam!Moved(k)' <=> Seam!Moved(k)
  BY <1>1, <1>2, <1>3 DEF Seam!Moved
<1> QED BY <1>1, <1>2, <1>4

(* The record a delivery hands to the port.                                 *)
LEMMA HeadIsARecord ==
  ASSUME InStep, todo # << >>, Head(todo) # 0
  PROVE  Head(todo) \in 1..Len(rec)
<1>1. Publishing /\ todo \in Seq(Nat) /\ high \in 0..Len(rec) /\ Len(rec) \in Nat
  BY DEF InStep
<1>2. Len(todo) \in Nat \ {0} /\ Head(todo) = todo[1]
  BY <1>1, EmptySeq
<1>3. CASE Len(todo) = 1
  BY <1>1, <1>2, <1>3 DEF Publishing
<1>4. CASE Len(todo) # 1
  <2> DEFINE m == Len(todo)
  <2>1. m \in Nat \ {0} /\ m # 1
    BY <1>2, <1>4
  <2> HIDE DEF m
  <2>2. 1 \in 1..(m - 1)
    BY <2>1
  <2>3. 1 \in 1..(Len(todo) - 1)
    BY <2>2 DEF m
  <2> QED BY <1>1, <1>2, <2>3 DEF Publishing
<1> QED BY <1>3, <1>4

(* Whatever is appended, if it is what the gate admitted, or names nothing. *)
LEMMA RecordKeepsAgreeing ==
  ASSUME InStep, Agreeing, NEW e, rec' = Append(rec, e), undone' = undone,
         \/ e.op = "RECOVER"
         \/ e.op = "MIRROR"
         \/ /\ todo = << >> /\ Seam!Refusal(Seam!LiveNamespace(rec), e) = "OK"
            /\ e \in Seam!NameRequests \cup Seam!NodeRequests \cup Seam!LockRequests
            /\ Seam!VfsSends(e)
  PROVE  Agreeing'
<1> DEFINE n == Len(rec)
<1>1. /\ rec \in Seq(Held(rec)) /\ n \in Nat /\ rec' \in Seq(Held(rec')) /\ Len(rec') = n + 1
      /\ rec'[n + 1] = e /\ \A i \in 1..n : rec'[i] = rec[i]
  BY OneMore DEF InStep
<1> HIDE DEF n
<1>2. undone' => \E k \in 1..Len(rec') : rec'[k].op = "RECOVER"
  <2>1. \A k \in 1..n : k \in 1..(n + 1)
    BY <1>1
  <2> QED BY <1>1, <2>1 DEF Agreeing, n
<1>3. ASSUME Calm' PROVE Agree(Seam!Fold(rec'), Seam!LiveNamespace(rec'), n + 1)
  <2>1. \A k \in 1..(n + 1) : rec'[k].op # "RECOVER" /\ ~Seam!Moved(k)'
    BY <1>1, <1>3 DEF Calm
  <2>2. /\ \A k \in 1..(n + 1) : SubSeq(rec', 1, k - 1) = SubSeq(rec, 1, k - 1)
        /\ \A k \in 1..n : k \in 1..(n + 1) /\ (Seam!Moved(k)' <=> Seam!Moved(k))
    <3>1. \A k \in 1..n : k \in 1..(n + 1)
      BY <1>1
    <3> QED BY <1>1, <3>1, PrefixesStay DEF n
  <2>3. Calm
    BY <1>1, <2>1, <2>2 DEF Calm, n
  <2>4. Agree(Seam!Fold(rec), Seam!LiveNamespace(rec), Len(rec))
    BY <2>3 DEF Agreeing
  <2>5. n + 1 \in 1..(n + 1) /\ (n + 1) - 1 = n /\ SubSeq(rec, 1, n) = rec
    BY <1>1 DEF n
  <2>6. e.op # "RECOVER" /\ (e.op = "FILE-RENAME" => Seam!Below(Seam!Fold(rec).names, e.path) = {})
    <3>1. SubSeq(rec', 1, (n + 1) - 1) = rec
      BY <2>2, <2>5
    <3> QED BY <1>1, <2>1, <2>5, <3>1 DEF Seam!Moved
  <2>7. Sent(e) /\ (e.op \in Naming => Seam!Refusal(Seam!LiveNamespace(rec), e) = "OK")
    <3>1. CASE e.op = "MIRROR"
      BY <3>1 DEF Sent, Naming, Seam!Minting
    <3>2. CASE e.op # "MIRROR"
      <4>1. /\ todo = << >> /\ Seam!Refusal(Seam!LiveNamespace(rec), e) = "OK"
            /\ e \in Seam!NameRequests \cup Seam!NodeRequests \cup Seam!LockRequests
            /\ Seam!VfsSends(e)
        BY <2>6, <3>2
      <4>2. high = Len(rec) /\ ~undone
        BY <2>3, <4>1 DEF InStep, Publishing, Agreeing, Calm
      <4>3. state = Seam!Fold(rec)
        BY <2>5, <4>2 DEF InStep, UpTo, n
      <4> QED BY <2>4, <4>1, <4>3, RequestsAreSent
    <3> QED BY <3>1, <3>2
  <2> DEFINE S == Held(rec) \cup {e}
  <2>8. rec \in Seq(S) /\ e \in S
    <3>1. Held(rec) \subseteq S
      OBVIOUS
    <3> HIDE DEF S
    <3>2. rec \in Seq(S)
      BY <1>1, <3>1
    <3> QED BY <3>2 DEF S
  <2> HIDE DEF S
  <2>9. Agree(Seam!Fold(Append(rec, e)), Seam!LiveNamespace(Append(rec, e)), Len(rec) + 1)
    BY <2>4, <2>6, <2>7, <2>8, AdmittedGrows
  <2> QED BY <2>9 DEF n
<1> QED BY <1>1, <1>2, <1>3 DEF Agreeing

LEMMA NextAgreeing == InStep /\ Agreeing /\ [Seam!Next]_(Seam!vars) => Agreeing'
<1> SUFFICES ASSUME InStep, Agreeing, [Seam!Next]_(Seam!vars) PROVE Agreeing'
  OBVIOUS
<1>1. ASSUME NEW R, R \subseteq Seam!NameRequests \cup Seam!NodeRequests \cup Seam!LockRequests, Seam!Ask(R)
      PROVE  Agreeing'
  <2>1. PICK e \in R : /\ Seam!VfsSends(e) /\ Seam!Refusal(Seam!LiveNamespace(rec), e) = "OK"
                       /\ Seam!Publish(e)
    BY <1>1 DEF Seam!Ask
  <2>2. todo = << >> /\ rec' = Append(rec, e) /\ undone' = undone
    BY <2>1 DEF Seam!Publish
  <2> QED BY <1>1, <2>1, <2>2, RecordKeepsAgreeing
<1>2. CASE Seam!DecideName
  BY <1>1, <1>2 DEF Seam!DecideName
<1>3. CASE Seam!DecideNode
  BY <1>1, <1>3 DEF Seam!DecideNode
<1>4. CASE Seam!DecideLock
  BY <1>1, <1>4 DEF Seam!DecideLock
<1>5. CASE Seam!Recover
  <2>1. PICK target \in 1..Len(rec) :
          Seam!Publish(Seam!Rec("RECOVER", Seam!NoPath, Seam!NoPath, "none", Seam!NoIno, target))
    BY <1>5 DEF Seam!Recover
  <2> DEFINE e == Seam!Rec("RECOVER", Seam!NoPath, Seam!NoPath, "none", Seam!NoIno, target)
  <2>2. e.op = "RECOVER" /\ rec' = Append(rec, e) /\ undone' = undone
    BY <2>1 DEF Seam!Rec, Seam!Publish
  <2> HIDE DEF e
  <2> QED BY <2>2, RecordKeepsAgreeing
<1>6. CASE Seam!Mirror
  <2> DEFINE e == Seam!Rec("MIRROR", Seam!NoPath, Seam!NoPath, "none", Seam!NoIno, Seam!NoVal)
  <2>1. e.op = "MIRROR" /\ rec' = Append(rec, e) /\ undone' = undone
    BY <1>6 DEF Seam!Rec, Seam!Mirror
  <2> HIDE DEF e
  <2> QED BY <2>1, RecordKeepsAgreeing
<1>7. CASE Seam!Deliver
  <2>1. /\ todo # << >> /\ Head(todo) # 0 /\ rec' = rec
        /\ undone' = (undone \/ rec[Head(todo)].op = "RECOVER")
    BY <1>7 DEF Seam!Deliver, Seam!Mirrored
  <2>2. Head(todo) \in 1..Len(rec)
    BY <2>1, HeadIsARecord
  <2>3. Calm' <=> Calm
    BY <2>1 DEF Calm, Seam!Moved
  <2> QED BY <2>1, <2>2, <2>3 DEF Agreeing
<1>8. CASE Seam!Restart
  <2>1. rec' = rec /\ undone' = FALSE
    BY <1>8 DEF Seam!Restart
  <2>2. Calm' <=> Calm
    BY <2>1 DEF Calm, Seam!Moved
  <2> QED BY <2>1, <2>2 DEF Agreeing
<1>9. CASE UNCHANGED Seam!vars
  BY <1>9 DEF Seam!vars, Agreeing, Calm, Seam!Moved
<1> QED BY <1>2, <1>3, <1>4, <1>5, <1>6, <1>7, <1>8, <1>9 DEF Seam!Next

LEMMA AlwaysAgreeing == Seam!Spec => []Agreeing
<1> QED BY AlwaysInStep, InitAgreeing, NextAgreeing, PTL DEF Seam!Spec

(* The gate decides by one reader of the record and the port serves from    *)
(* another.  In every run in which no directory was moved with its contents *)
(* and no recover recorded, of any tree and any length, once a publish is   *)
(* done they hold the same names, of the same kinds (opdefs law namespace,  *)
(* custody.CustodyState.apply).                                             *)
THEOREM TheTwoReadersAgree == Seam!Spec => []Seam!AgreeButForMoves
<1>1. InStep /\ Agreeing => Seam!AgreeButForMoves
  <2> SUFFICES ASSUME InStep, Agreeing, ~Seam!Recovered, \A n \in 1..Len(rec) : ~Seam!Moved(n), todo = << >>
               PROVE  Seam!LiveNamespace(rec) = [p \in DOMAIN state.names |-> Seam!KindOf(state, p)]
    BY DEF Seam!AgreeButForMoves, Seam!GateAndPortAgree
  <2>1. Calm
    BY DEF Calm, Seam!Recovered
  <2>2. ~undone /\ Agree(Seam!Fold(rec), Seam!LiveNamespace(rec), Len(rec))
    BY <2>1 DEF Agreeing, Calm
  <2>3. high = Len(rec) /\ rec \in Seq(Held(rec))
    BY DEF InStep, Publishing
  <2>4. UpTo(high) = rec
    BY <2>3 DEF UpTo
  <2>5. state = Seam!Fold(rec)
    BY <2>2, <2>4 DEF InStep
  <2> QED BY <2>2, <2>5 DEF Agree, Seam!KindOf, Seam!exists, Seam!lookup
<1> QED BY <1>1, AlwaysInStep, AlwaysAgreeing, PTL

-----------------------------------------------------------------------------
(* The user-space mount (RecordsFs)                                        *)

CONSTANTS MaxHandles, MaxLen, Hidden, MaxEvents, Sparse
VARIABLES served, handles, bursts, aside, nextFh, braked, halted, failed

Fs == INSTANCE RecordsFs WITH st <- served, open <- handles, burst <- bursts, hidden <- aside

(* The mount folds the record as the port to the kernel module does.        *)
LEMMA SamePieces ==
  ASSUME NEW s, NEW p, NEW q, NEW e, NEW n, NEW i
  PROVE  /\ Fs!At(s, p, q) = Seam!At(s, p, q)
         /\ Fs!With(s, p, q) = Seam!With(s, p, q)
         /\ Fs!Without(s, p) = Seam!Without(s, p)
         /\ Fs!Entry(s, p, q) = Seam!Entry(s, p, q)
         /\ Fs!Node(s, e) = Seam!Node(s, e)
         /\ Fs!NewNode(e, n) = Seam!NewNode(e, n)
         /\ Fs!Bind(s, p, i) = Seam!Bind(s, p, i)
         /\ Fs!Unbind(s, p) = Seam!Unbind(s, p)
         /\ Fs!Below(s, p) = Seam!Below(s, p)
         /\ Fs!NoIno = Seam!NoIno /\ Fs!FormalName(n) = Seam!FormalName(n)
         /\ Fs!Minting = Seam!Minting /\ Fs!AttrOps = Seam!AttrOps
<1> USE DEF Fs!With, Seam!With, Fs!Without, Seam!Without,
       Fs!At, Seam!At, Fs!Entry, Seam!Entry, Fs!NoIno, Seam!NoIno,
       Fs!parent_of, Seam!parent_of, Fs!basename, Seam!basename,
       Fs!FormalName, Seam!FormalName, Fs!RootIno, Seam!RootIno
<1>1. /\ Fs!At(s, p, q) = Seam!At(s, p, q)
      /\ Fs!With(s, p, q) = Seam!With(s, p, q)
      /\ Fs!Without(s, p) = Seam!Without(s, p)
  OBVIOUS
<1>2. Fs!Entry(s, p, q) = Seam!Entry(s, p, q)
  OBVIOUS
<1>3. Fs!Node(s, e) = Seam!Node(s, e)
  BY DEF Fs!Node, Seam!Node
<1>4. Fs!NewNode(e, n) = Seam!NewNode(e, n)
  BY DEF Fs!NewNode, Seam!NewNode, Fs!Creator, Seam!Creator, Fs!NoUid, Seam!NoUid
<1>5. \A t, x : Fs!Forget(t, p, x) = Seam!Forget(t, p, x)
  BY DEF Fs!Forget, Seam!Forget, Fs!Front, Seam!Front, Fs!Last, Seam!Last
<1>6. Fs!Bind(s, p, i) = Seam!Bind(s, p, i)
  BY <1>5 DEF Fs!Bind, Seam!Bind, Fs!Front, Seam!Front, Fs!Last, Seam!Last
<1>7. Fs!Unbind(s, p) = Seam!Unbind(s, p)
  BY <1>5 DEF Fs!Unbind, Seam!Unbind
<1>8. Fs!Below(s, p) = Seam!Below(s, p)
  BY DEF Fs!Below, Seam!Below, Fs!IsStrictPrefix, Seam!IsStrictPrefix,
         Fs!IsPrefix, Seam!IsPrefix
<1>9. Fs!Minting = Seam!Minting /\ Fs!AttrOps = Seam!AttrOps
  BY DEF Fs!Minting, Seam!Minting, Fs!AttrOps, Seam!AttrOps
<1> QED BY <1>1, <1>2, <1>3, <1>4, <1>6, <1>7, <1>8, <1>9

LEMMA SameMove ==
  ASSUME NEW s, NEW p, NEW q
  PROVE  Fs!Move(s, p, q) = Seam!Move(s, p, q)
<1>1. Fs!Unbind(s, p) = Seam!Unbind(s, p)
  BY SamePieces
<1>2. \A t, i : Fs!Bind(t, q, i) = Seam!Bind(t, q, i)
  BY SamePieces
<1> QED BY <1>1, <1>2 DEF Fs!Move, Seam!Move

LEMMA SameRename ==
  ASSUME NEW s, NEW p, NEW q
  PROVE  Fs!Rename(s, p, q) = Seam!Rename(s, p, q)
<1>1. \A t, x, y : Fs!Move(t, x, y) = Seam!Move(t, x, y)
  BY SameMove
<1>2. \A t : Fs!Below(t, p) = Seam!Below(t, p)
  BY SamePieces
<1> DEFINE top  == Fs!Move(s, p, q)
           Off(x) == q \o SubSeq(x, Len(p) + 1, Len(x))
           M(T) == CHOOSE g : g = [u \in SUBSET T |->
                     IF u = {} THEN top
                     ELSE Fs!Move(g[u \ {CHOOSE y \in u : TRUE}], CHOOSE y \in u : TRUE,
                                     Off(CHOOSE y \in u : TRUE))]
           N(T) == CHOOSE g : g = [u \in SUBSET T |->
                     IF u = {} THEN top
                     ELSE Seam!Move(g[u \ {CHOOSE y \in u : TRUE}], CHOOSE y \in u : TRUE,
                                     Off(CHOOSE y \in u : TRUE))]
<1>3. \A T : M(T) = N(T)
  BY <1>1
<1>4. \A t : Fs!Rename(s, p, q) = M(Fs!Below(top.names, p))[Fs!Below(top.names, p)]
  BY DEF Fs!Rename, Fs!FoldSet, Fs!MapThenFoldSet
<1>5. top = Seam!Move(s, p, q)
  BY <1>1
<1>6. \A t : Seam!Rename(s, p, q) = N(Seam!Below(top.names, p))[Seam!Below(top.names, p)]
  BY <1>5 DEF Seam!Rename, Seam!FoldSet, Seam!MapThenFoldSet
<1> HIDE DEF M, N, top
<1> QED BY <1>2, <1>3, <1>4, <1>6

LEMMA SameApply ==
  ASSUME NEW s, NEW e, NEW n
  PROVE  Fs!Apply(s, e, n) = Seam!Apply(s, e, n)
<1>1. /\ Fs!Node(s, e) = Seam!Node(s, e) /\ Fs!NoIno = Seam!NoIno
      /\ Fs!FormalName(n) = Seam!FormalName(n) /\ Fs!NewNode(e, n) = Seam!NewNode(e, n)
      /\ Fs!Minting = Seam!Minting /\ Fs!AttrOps = Seam!AttrOps
  BY SamePieces
<1>2. /\ \A t, p, i : Fs!Bind(t, p, i) = Seam!Bind(t, p, i)
      /\ \A t, p : Fs!Unbind(t, p) = Seam!Unbind(t, p)
      /\ \A t, p, i : Fs!With(t, p, i) = Seam!With(t, p, i)
  BY SamePieces
<1>3. \A p, q : Fs!Rename(s, p, q) = Seam!Rename(s, p, q)
  BY SameRename
<1> QED BY <1>1, <1>2, <1>3 DEF Fs!Apply, Seam!Apply

LEMMA SameFold ==
  ASSUME NEW r, Len(r) \in Nat
  PROVE  Fs!Fold(r) = Seam!Fold(r)
BY SameApply DEF Fs!Fold, Seam!Fold, Fs!RecoveredPoints, Seam!RecoveredPoints,
       Fs!EmptyState, Seam!EmptyState, Fs!Root, Seam!Root, Fs!RootIno, Seam!RootIno
(* Whatever is kept in order, of whatever is kept. *)
IsSeq(q) == \E S : q \in Seq(S)

LEMMA SeqGrows ==
  ASSUME NEW q, IsSeq(q), NEW e
  PROVE  /\ IsSeq(Append(q, e)) /\ Len(q) \in Nat /\ Len(Append(q, e)) = Len(q) + 1
         /\ Append(q, e)[Len(q) + 1] = e
         /\ \A i \in 1..Len(q) : Append(q, e)[i] = q[i]
<1>1. PICK S : q \in Seq(S)
  BY DEF IsSeq
<1>2. q \in Seq(S \cup {e})
  BY <1>1
<1>3. Append(q, e) \in Seq(S \cup {e})
  BY <1>2
<1> QED BY <1>2, <1>3 DEF IsSeq

LEMMA TopIs ==
  ASSUME NEW S, NEW n \in S, \A m \in S : m \in Nat /\ m <= n
  PROVE  Fs!Max(S) = n
<1>1. Fs!Max(S) = Seam!Max(S)
  BY DEF Fs!Max, Seam!Max
<1> QED BY <1>1, MaxIs

(* The acts of a call, recorded one after the other. *)
Before == [rec |-> rec, st |-> served, locks |-> locks]

Acted(acc, e) ==
  LET r == Append(acc.rec, e)
  IN  [rec |-> r, st |-> Fs!OnAppend(acc.st, r), locks |-> Fs!ApplyLock(acc.locks, e)]

ActsIs(es, n, f) ==
  f = [S \in SUBSET (1..n) |->
         IF S = {} THEN Before
         ELSE Acted(f[S \ {Fs!Max(S)}], es[Fs!Max(S)])]

LEMMA SomeActs ==
  ASSUME NEW es, NEW n \in Nat
  PROVE  \E f : ActsIs(es, n, f)
<1> DEFINE D == {k \in 0..n : ~ \E f : ActsIs(es, k, f)}
<1> SUFFICES ASSUME D # {} PROVE FALSE
  OBVIOUS
<1>0. D \subseteq Nat
  OBVIOUS
<1>1. PICK k \in D : \A m \in D : k <= m
  BY <1>0, LeastOf
<1>2. CASE k = 0
  <2> DEFINE f == [S \in SUBSET (1..0) |-> Before]
  <2>1. \A S \in SUBSET (1..0) : S = {}
    OBVIOUS
  <2>2. ActsIs(es, 0, f)
    BY <2>1 DEF ActsIs
  <2> QED BY <1>1, <1>2, <2>2
<1>3. CASE k # 0
  <2>1. k \in 1..n /\ k - 1 \in 0..n /\ k - 1 \notin D
    BY <1>1, <1>3
  <2>2. PICK f : ActsIs(es, k - 1, f)
    BY <2>1
  <2> DEFINE g == [S \in SUBSET (1..k) |->
                     IF k \in S THEN Acted(f[S \ {k}], es[k]) ELSE f[S]]
  <2>3. \A S \in SUBSET (1..k) : k \notin S => S \in SUBSET (1..(k-1))
    BY <2>1
  <2>4. \A S \in SUBSET (1..(k-1)) : S \in SUBSET (1..k) /\ k \notin S
    BY <2>1
  <2>5. \A S \in SUBSET (1..(k-1)) :
          f[S] = IF S = {} THEN Before
                 ELSE Acted(f[S \ {Fs!Max(S)}], es[Fs!Max(S)])
    BY <2>2 DEF ActsIs
  <2>6. \A S \in SUBSET (1..(k-1)) : g[S] = f[S]
    BY <2>4
  <2>7. \A S \in SUBSET (1..k) : k \in S => g[S] = Acted(f[S \ {k}], es[k])
    OBVIOUS
  <2>8. g = [S \in SUBSET (1..k) |-> g[S]]
    OBVIOUS
  <2> HIDE DEF g
  <2>9. \A S \in SUBSET (1..k) :
          g[S] = IF S = {} THEN Before
                 ELSE Acted(g[S \ {Fs!Max(S)}], es[Fs!Max(S)])
    <3> TAKE S \in SUBSET (1..k)
    <3>1. CASE k \in S
      <4>1. Fs!Max(S) = k
        <5>1. \A m \in S : m \in Nat /\ m <= k
          BY <2>1
        <5> QED BY <3>1, <5>1, TopIs
      <4>2. S \ {k} \in SUBSET (1..(k-1))
        BY <2>1
      <4>3. S # {} /\ g[S \ {k}] = f[S \ {k}]
        BY <2>6, <3>1, <4>2
      <4> QED BY <2>7, <3>1, <4>1, <4>3
    <3>2. CASE k \notin S
      <4>1. S \in SUBSET (1..(k-1)) /\ S \ {Fs!Max(S)} \in SUBSET (1..(k-1))
        BY <2>3, <3>2
      <4>2. g[S] = f[S] /\ g[S \ {Fs!Max(S)}] = f[S \ {Fs!Max(S)}]
        BY <2>6, <4>1
      <4> QED BY <2>5, <4>1, <4>2
    <3> QED BY <3>1, <3>2
  <2>10. ActsIs(es, k, g)
    BY <2>8, <2>9 DEF ActsIs
  <2> QED BY <1>1, <2>10
<1> QED BY <1>2, <1>3

LEMMA ActsSteps ==
  ASSUME NEW es, IsSeq(es)
  PROVE  \E g : /\ g[0] = Before
                /\ \A k \in 1..Len(es) : g[k] = Acted(g[k - 1], es[k])
                /\ Fs!AppendAll(es) = g[Len(es)]
<1> DEFINE n == Len(es)
           f == CHOOSE h : ActsIs(es, n, h)
           g == [k \in 0..n |-> f[1..k]]
<1>1. n \in Nat /\ DOMAIN es = 1..n
  BY DEF IsSeq
<1>2. ActsIs(es, n, f)
  BY <1>1, SomeActs
<1>3. Fs!AppendAll(es) = f[1..n]
  BY <1>1 DEF Fs!AppendAll, Acted, Before, Fs!FoldLeft, Fs!MapThenFoldSet, ActsIs
<1> HIDE DEF f, n
<1>4. \A S \in SUBSET (1..n) :
        f[S] = IF S = {} THEN Before
               ELSE Acted(f[S \ {Fs!Max(S)}], es[Fs!Max(S)])
  BY <1>2 DEF ActsIs
<1>5. f[1..0] = Before
  <2>1. 1..0 = {} /\ 1..0 \in SUBSET (1..n)
    BY <1>1
  <2> QED BY <1>4, <2>1
<1>6. ASSUME NEW k \in 1..n PROVE f[1..k] = Acted(f[1..(k - 1)], es[k])
  <2>1. 1..k \in SUBSET (1..n) /\ k \in 1..k /\ (1..k) \ {k} = 1..(k-1)
        /\ \A m \in 1..k : m \in Nat /\ m <= k
    BY <1>1
  <2>2. Fs!Max(1..k) = k
    BY <2>1, TopIs
  <2>3. 1..k # {}
    BY <2>1
  <2> QED BY <1>4, <2>1, <2>2, <2>3
<1>7. /\ 0 \in 0..n /\ n \in 0..n
      /\ \A k \in 1..n : k \in 0..n /\ k - 1 \in 0..n
  BY <1>1
<1>8. g[0] = Before
  BY <1>5, <1>7
<1>9. \A k \in 1..n : g[k] = Acted(g[k - 1], es[k])
  BY <1>6, <1>7
<1>10. Fs!AppendAll(es) = g[n]
  BY <1>3, <1>7
<1> HIDE DEF g
<1> QED BY <1>8, <1>9, <1>10 DEF n

(* The bursts a call closes, in their order. *)
Chosen(acc, b, chosen) == IF b \in chosen THEN Append(acc, b) ELSE acc

WhereIs(es, n, f, chosen) ==
  f = [S \in SUBSET (1..n) |->
         IF S = {} THEN << >>
         ELSE Chosen(f[S \ {Fs!Max(S)}], es[Fs!Max(S)], chosen)]

LEMMA SomeWhere ==
  ASSUME NEW es, NEW n \in Nat, NEW chosen
  PROVE  \E f : WhereIs(es, n, f, chosen)
<1> DEFINE D == {k \in 0..n : ~ \E f : WhereIs(es, k, f, chosen)}
<1> SUFFICES ASSUME D # {} PROVE FALSE
  OBVIOUS
<1>0. D \subseteq Nat
  OBVIOUS
<1>1. PICK k \in D : \A m \in D : k <= m
  BY <1>0, LeastOf
<1>2. CASE k = 0
  <2> DEFINE f == [S \in SUBSET (1..0) |-> << >>]
  <2>1. \A S \in SUBSET (1..0) : S = {}
    OBVIOUS
  <2>2. WhereIs(es, 0, f, chosen)
    BY <2>1 DEF WhereIs
  <2> QED BY <1>1, <1>2, <2>2
<1>3. CASE k # 0
  <2>1. k \in 1..n /\ k - 1 \in 0..n /\ k - 1 \notin D
    BY <1>1, <1>3
  <2>2. PICK f : WhereIs(es, k - 1, f, chosen)
    BY <2>1
  <2> DEFINE g == [S \in SUBSET (1..k) |->
                     IF k \in S THEN Chosen(f[S \ {k}], es[k], chosen) ELSE f[S]]
  <2>3. \A S \in SUBSET (1..k) : k \notin S => S \in SUBSET (1..(k-1))
    BY <2>1
  <2>4. \A S \in SUBSET (1..(k-1)) : S \in SUBSET (1..k) /\ k \notin S
    BY <2>1
  <2>5. \A S \in SUBSET (1..(k-1)) :
          f[S] = IF S = {} THEN << >>
                 ELSE Chosen(f[S \ {Fs!Max(S)}], es[Fs!Max(S)], chosen)
    BY <2>2 DEF WhereIs
  <2>6. \A S \in SUBSET (1..(k-1)) : g[S] = f[S]
    BY <2>4
  <2>7. \A S \in SUBSET (1..k) : k \in S => g[S] = Chosen(f[S \ {k}], es[k], chosen)
    OBVIOUS
  <2>8. g = [S \in SUBSET (1..k) |-> g[S]]
    OBVIOUS
  <2> HIDE DEF g
  <2>9. \A S \in SUBSET (1..k) :
          g[S] = IF S = {} THEN << >>
                 ELSE Chosen(g[S \ {Fs!Max(S)}], es[Fs!Max(S)], chosen)
    <3> TAKE S \in SUBSET (1..k)
    <3>1. CASE k \in S
      <4>1. Fs!Max(S) = k
        <5>1. \A m \in S : m \in Nat /\ m <= k
          BY <2>1
        <5> QED BY <3>1, <5>1, TopIs
      <4>2. S \ {k} \in SUBSET (1..(k-1))
        BY <2>1
      <4>3. S # {} /\ g[S \ {k}] = f[S \ {k}]
        BY <2>6, <3>1, <4>2
      <4> QED BY <2>7, <3>1, <4>1, <4>3
    <3>2. CASE k \notin S
      <4>1. S \in SUBSET (1..(k-1)) /\ S \ {Fs!Max(S)} \in SUBSET (1..(k-1))
        BY <2>3, <3>2
      <4>2. g[S] = f[S] /\ g[S \ {Fs!Max(S)}] = f[S \ {Fs!Max(S)}]
        BY <2>6, <4>1
      <4> QED BY <2>5, <4>1, <4>2
    <3> QED BY <3>1, <3>2
  <2>10. WhereIs(es, k, g, chosen)
    BY <2>8, <2>9 DEF WhereIs
  <2> QED BY <1>1, <2>10
<1> QED BY <1>2, <1>3

LEMMA WhereSteps ==
  ASSUME NEW es, IsSeq(es), NEW chosen
  PROVE  \E g : /\ g[0] = << >>
                /\ \A k \in 1..Len(es) : g[k] = Chosen(g[k - 1], es[k], chosen)
                /\ Fs!Where(es, chosen) = g[Len(es)]
<1> DEFINE n == Len(es)
           f == CHOOSE h : WhereIs(es, n, h, chosen)
           g == [k \in 0..n |-> f[1..k]]
<1>1. n \in Nat /\ DOMAIN es = 1..n
  BY DEF IsSeq
<1>2. WhereIs(es, n, f, chosen)
  BY <1>1, SomeWhere
<1>3. Fs!Where(es, chosen) = f[1..n]
  BY <1>1 DEF Fs!Where, Chosen, Fs!FoldLeft, Fs!MapThenFoldSet, WhereIs
<1> HIDE DEF f, n
<1>4. \A S \in SUBSET (1..n) :
        f[S] = IF S = {} THEN << >>
               ELSE Chosen(f[S \ {Fs!Max(S)}], es[Fs!Max(S)], chosen)
  BY <1>2 DEF WhereIs
<1>5. f[1..0] = << >>
  <2>1. 1..0 = {} /\ 1..0 \in SUBSET (1..n)
    BY <1>1
  <2> QED BY <1>4, <2>1
<1>6. ASSUME NEW k \in 1..n PROVE f[1..k] = Chosen(f[1..(k - 1)], es[k], chosen)
  <2>1. 1..k \in SUBSET (1..n) /\ k \in 1..k /\ (1..k) \ {k} = 1..(k-1)
        /\ \A m \in 1..k : m \in Nat /\ m <= k
    BY <1>1
  <2>2. Fs!Max(1..k) = k
    BY <2>1, TopIs
  <2>3. 1..k # {}
    BY <2>1
  <2> QED BY <1>4, <2>1, <2>2, <2>3
<1>7. /\ 0 \in 0..n /\ n \in 0..n
      /\ \A k \in 1..n : k \in 0..n /\ k - 1 \in 0..n
  BY <1>1
<1>8. g[0] = << >>
  BY <1>5, <1>7
<1>9. \A k \in 1..n : g[k] = Chosen(g[k - 1], es[k], chosen)
  BY <1>6, <1>7
<1>10. Fs!Where(es, chosen) = g[n]
  BY <1>3, <1>7
<1> HIDE DEF g
<1> QED BY <1>8, <1>9, <1>10 DEF n

(* The records that close them, each over what the last one recorded. *)
Closed(done, b) ==
  LET earlier == {k \in 1..Len(done) : done[k].ino = b.ino}
      base == IF b.ino \notin DOMAIN served.inodes THEN Empty
              ELSE IF earlier = {} THEN Fs!Recorded(b.ino) ELSE done[Fs!Max(earlier)].val
  IN  Append(done, Fs!FileWrite(b.ino, Fs!Merged(base, b)))

ClosesIs(es, n, f) ==
  f = [S \in SUBSET (1..n) |->
         IF S = {} THEN << >>
         ELSE Closed(f[S \ {Fs!Max(S)}], es[Fs!Max(S)])]

LEMMA SomeCloses ==
  ASSUME NEW es, NEW n \in Nat
  PROVE  \E f : ClosesIs(es, n, f)
<1> DEFINE D == {k \in 0..n : ~ \E f : ClosesIs(es, k, f)}
<1> SUFFICES ASSUME D # {} PROVE FALSE
  OBVIOUS
<1>0. D \subseteq Nat
  OBVIOUS
<1>1. PICK k \in D : \A m \in D : k <= m
  BY <1>0, LeastOf
<1>2. CASE k = 0
  <2> DEFINE f == [S \in SUBSET (1..0) |-> << >>]
  <2>1. \A S \in SUBSET (1..0) : S = {}
    OBVIOUS
  <2>2. ClosesIs(es, 0, f)
    BY <2>1 DEF ClosesIs
  <2> QED BY <1>1, <1>2, <2>2
<1>3. CASE k # 0
  <2>1. k \in 1..n /\ k - 1 \in 0..n /\ k - 1 \notin D
    BY <1>1, <1>3
  <2>2. PICK f : ClosesIs(es, k - 1, f)
    BY <2>1
  <2> DEFINE g == [S \in SUBSET (1..k) |->
                     IF k \in S THEN Closed(f[S \ {k}], es[k]) ELSE f[S]]
  <2>3. \A S \in SUBSET (1..k) : k \notin S => S \in SUBSET (1..(k-1))
    BY <2>1
  <2>4. \A S \in SUBSET (1..(k-1)) : S \in SUBSET (1..k) /\ k \notin S
    BY <2>1
  <2>5. \A S \in SUBSET (1..(k-1)) :
          f[S] = IF S = {} THEN << >>
                 ELSE Closed(f[S \ {Fs!Max(S)}], es[Fs!Max(S)])
    BY <2>2 DEF ClosesIs
  <2>6. \A S \in SUBSET (1..(k-1)) : g[S] = f[S]
    BY <2>4
  <2>7. \A S \in SUBSET (1..k) : k \in S => g[S] = Closed(f[S \ {k}], es[k])
    OBVIOUS
  <2>8. g = [S \in SUBSET (1..k) |-> g[S]]
    OBVIOUS
  <2> HIDE DEF g
  <2>9. \A S \in SUBSET (1..k) :
          g[S] = IF S = {} THEN << >>
                 ELSE Closed(g[S \ {Fs!Max(S)}], es[Fs!Max(S)])
    <3> TAKE S \in SUBSET (1..k)
    <3>1. CASE k \in S
      <4>1. Fs!Max(S) = k
        <5>1. \A m \in S : m \in Nat /\ m <= k
          BY <2>1
        <5> QED BY <3>1, <5>1, TopIs
      <4>2. S \ {k} \in SUBSET (1..(k-1))
        BY <2>1
      <4>3. S # {} /\ g[S \ {k}] = f[S \ {k}]
        BY <2>6, <3>1, <4>2
      <4> QED BY <2>7, <3>1, <4>1, <4>3
    <3>2. CASE k \notin S
      <4>1. S \in SUBSET (1..(k-1)) /\ S \ {Fs!Max(S)} \in SUBSET (1..(k-1))
        BY <2>3, <3>2
      <4>2. g[S] = f[S] /\ g[S \ {Fs!Max(S)}] = f[S \ {Fs!Max(S)}]
        BY <2>6, <4>1
      <4> QED BY <2>5, <4>1, <4>2
    <3> QED BY <3>1, <3>2
  <2>10. ClosesIs(es, k, g)
    BY <2>8, <2>9 DEF ClosesIs
  <2> QED BY <1>1, <2>10
<1> QED BY <1>2, <1>3

LEMMA ClosesSteps ==
  ASSUME NEW es, IsSeq(es)
  PROVE  \E g : /\ g[0] = << >>
                /\ \A k \in 1..Len(es) : g[k] = Closed(g[k - 1], es[k])
                /\ Fs!CloseRecs(es) = g[Len(es)]
<1> DEFINE n == Len(es)
           f == CHOOSE h : ClosesIs(es, n, h)
           g == [k \in 0..n |-> f[1..k]]
<1>1. n \in Nat /\ DOMAIN es = 1..n
  BY DEF IsSeq
<1>2. ClosesIs(es, n, f)
  BY <1>1, SomeCloses
<1>3. Fs!CloseRecs(es) = f[1..n]
  BY <1>1 DEF Fs!CloseRecs, Closed, Fs!FoldLeft, Fs!MapThenFoldSet, ClosesIs
<1> HIDE DEF f, n
<1>4. \A S \in SUBSET (1..n) :
        f[S] = IF S = {} THEN << >>
               ELSE Closed(f[S \ {Fs!Max(S)}], es[Fs!Max(S)])
  BY <1>2 DEF ClosesIs
<1>5. f[1..0] = << >>
  <2>1. 1..0 = {} /\ 1..0 \in SUBSET (1..n)
    BY <1>1
  <2> QED BY <1>4, <2>1
<1>6. ASSUME NEW k \in 1..n PROVE f[1..k] = Closed(f[1..(k - 1)], es[k])
  <2>1. 1..k \in SUBSET (1..n) /\ k \in 1..k /\ (1..k) \ {k} = 1..(k-1)
        /\ \A m \in 1..k : m \in Nat /\ m <= k
    BY <1>1
  <2>2. Fs!Max(1..k) = k
    BY <2>1, TopIs
  <2>3. 1..k # {}
    BY <2>1
  <2> QED BY <1>4, <2>1, <2>2, <2>3
<1>7. /\ 0 \in 0..n /\ n \in 0..n
      /\ \A k \in 1..n : k \in 0..n /\ k - 1 \in 0..n
  BY <1>1
<1>8. g[0] = << >>
  BY <1>5, <1>7
<1>9. \A k \in 1..n : g[k] = Closed(g[k - 1], es[k])
  BY <1>6, <1>7
<1>10. Fs!CloseRecs(es) = g[n]
  BY <1>3, <1>7
<1> HIDE DEF g
<1> QED BY <1>8, <1>9, <1>10 DEF n

-----------------------------------------------------------------------------
(* The served tree *)

LEMMA ActsServe ==
  ASSUME IsSeq(rec), served = Fs!Fold(rec), IsFiniteSet(locks), NEW es, IsSeq(es)
  PROVE  /\ IsSeq(Fs!AppendAll(es).rec) /\ IsFiniteSet(Fs!AppendAll(es).locks)
         /\ Fs!AppendAll(es).st = Fs!Fold(Fs!AppendAll(es).rec)
<1> DEFINE Good(a) == IsSeq(a.rec) /\ IsFiniteSet(a.locks) /\ a.st = Fs!Fold(a.rec)
<1>1. PICK g : /\ g[0] = Before
               /\ \A k \in 1..Len(es) : g[k] = Acted(g[k - 1], es[k])
               /\ Fs!AppendAll(es) = g[Len(es)]
  BY ActsSteps
<1>2. Good(Before)
  BY DEF Before
<1>3. ASSUME NEW a, Good(a), NEW e PROVE Good(Acted(a, e))
  <2> DEFINE r == Append(a.rec, e)
  <2>1. IsSeq(r) /\ Len(a.rec) \in Nat /\ Len(r) = Len(a.rec) + 1 /\ r[Len(a.rec) + 1] = e
    BY <1>3, SeqGrows
  <2>2. Fs!Last(r) = e
    BY <2>1 DEF Fs!Last
  <2>3. Fs!OnAppend(a.st, r) = Fs!Fold(r)
    <3>1. CASE e.op = "RECOVER"
      BY <2>2, <3>1 DEF Fs!OnAppend
    <3>2. CASE e.op # "RECOVER"
      <4>1. PICK S : a.rec \in Seq(S)
        BY <1>3 DEF IsSeq
      <4>2. a.rec \in Seq(S \cup {e}) /\ e \in S \cup {e}
        BY <4>1
      <4>3. Seam!Fold(r) = Seam!Apply(Seam!Fold(a.rec), e, Len(a.rec) + 1)
        BY <3>2, <4>2, FoldGrows
      <4>4. Fs!Fold(r) = Seam!Fold(r) /\ Fs!Fold(a.rec) = Seam!Fold(a.rec)
        BY <2>1, SameFold
      <4>5. Fs!Apply(a.st, e, Len(r)) = Seam!Apply(a.st, e, Len(r))
        BY SameApply
      <4> HIDE DEF r
      <4> QED BY <1>3, <2>1, <2>2, <3>2, <4>3, <4>4, <4>5 DEF Fs!OnAppend
    <3> QED BY <3>1, <3>2
  <2>4. IsFiniteSet(Fs!ApplyLock(a.locks, e))
    <3> DEFINE rest == {lk \in a.locks : ~ Fs!Mine(lk, e)}
               new  == [ino |-> e.ino, owner |-> e.val.owner, ltype |-> e.val.ltype,
                        start |-> e.val.start, length |-> e.val.length]
    <3>1. IsFiniteSet(a.locks) /\ IsFiniteSet(rest)
      <4>1. IsFiniteSet(a.locks) /\ rest \subseteq a.locks
        BY <1>3
      <4> QED BY <4>1, FS_Subset
    <3>2. IsFiniteSet(rest \cup {new})
      BY <3>1, FS_AddElement
    <3>3. Fs!ApplyLock(a.locks, e) \in {rest \cup {new}, rest, a.locks}
      BY DEF Fs!ApplyLock
    <3> HIDE DEF rest, new
    <3> QED BY <3>1, <3>2, <3>3
  <2> HIDE DEF r
  <2>5. Acted(a, e) = [rec |-> r, st |-> Fs!OnAppend(a.st, r), locks |-> Fs!ApplyLock(a.locks, e)]
    BY DEF Acted, r
  <2> QED BY <2>1, <2>3, <2>4, <2>5
<1> HIDE DEF Good
<1> DEFINE D == {k \in 0..Len(es) : ~ Good(g[k])}
<1>4. Len(es) \in Nat
  BY DEF IsSeq
<1>5. D = {}
  <2>1. D \subseteq 0..Len(es) /\ 0 \notin D /\ \A k \in 1..Len(es) : k \in D => k - 1 \in D
    BY <1>1, <1>2, <1>3, <1>4
  <2> HIDE DEF D
  <2> QED BY <1>4, <2>1, Climb
<1>6. Good(g[Len(es)])
  BY <1>4, <1>5
<1> QED BY <1>1, <1>6 DEF Good

LEMMA ChosenAre ==
  ASSUME NEW S, NEW bs \in Seq(S), NEW chosen
  PROVE  Fs!Where(bs, chosen) \in Seq(S \cap chosen)
<1>0. IsSeq(bs) /\ Len(bs) \in Nat
  BY DEF IsSeq
<1>1. PICK g : /\ g[0] = << >>
               /\ \A k \in 1..Len(bs) : g[k] = Chosen(g[k - 1], bs[k], chosen)
               /\ Fs!Where(bs, chosen) = g[Len(bs)]
  BY <1>0, WhereSteps
<1> DEFINE D == {k \in 0..Len(bs) : g[k] \notin Seq(S \cap chosen)}
<1>2. << >> \in Seq(S \cap chosen)
  OBVIOUS
<1>5. D = {}
  <2> SUFFICES ASSUME D # {} PROVE FALSE
    OBVIOUS
  <2>0. D \subseteq Nat
    BY <1>0
  <2>1. PICK k \in D : \A m \in D : k <= m
    BY <2>0, LeastOf
  <2>2. k # 0
    BY <1>1, <1>2, <2>1
  <2>3. k \in 1..Len(bs) /\ k - 1 \in 0..Len(bs) /\ k - 1 \notin D
    BY <1>0, <2>1, <2>2
  <2>4. bs[k] \in S /\ g[k - 1] \in Seq(S \cap chosen)
    BY <2>3
  <2>5. g[k] = Chosen(g[k - 1], bs[k], chosen)
    BY <1>1, <2>3
  <2>6. bs[k] \in chosen => Append(g[k - 1], bs[k]) \in Seq(S \cap chosen)
    BY <2>4
  <2>7. g[k] \in Seq(S \cap chosen)
    BY <2>4, <2>5, <2>6 DEF Chosen
  <2> QED BY <2>1, <2>7
<1> QED BY <1>0, <1>1, <1>5

LEMMA CloseRecsAre ==
  ASSUME NEW bs, IsSeq(bs)
  PROVE  \E S : /\ Fs!CloseRecs(bs) \in Seq(S)
                /\ \A e \in S : e.op = "FILE-WRITE"
<1>0. Len(bs) \in Nat
  BY DEF IsSeq
<1>1. PICK g : /\ g[0] = << >>
               /\ \A k \in 1..Len(bs) : g[k] = Closed(g[k - 1], bs[k])
               /\ Fs!CloseRecs(bs) = g[Len(bs)]
  BY ClosesSteps
<1> DEFINE Good(q) == \E S : q \in Seq(S) /\ \A e \in S : e.op = "FILE-WRITE"
           D == {k \in 0..Len(bs) : ~ Good(g[k])}
<1>2. Good(<< >>)
  <2>1. PICK S : S = {}
    OBVIOUS
  <2>2. << >> \in Seq(S) /\ \A e \in S : e.op = "FILE-WRITE"
    BY <2>1
  <2> QED BY <2>2
<1>3. ASSUME NEW q, Good(q), NEW b PROVE Good(Closed(q, b))
  <2>1. PICK S : q \in Seq(S) /\ \A e \in S : e.op = "FILE-WRITE"
    BY <1>3
  <2>4. \A i, v : Fs!FileWrite(i, v).op = "FILE-WRITE"
    BY DEF Fs!FileWrite, Fs!Rec
  <2>5. \E v : Closed(q, b) = Append(q, Fs!FileWrite(b.ino, v))
    BY Zenon DEF Closed
  <2>2. PICK e : Closed(q, b) = Append(q, e) /\ e.op = "FILE-WRITE"
    BY <2>4, <2>5
  <2>3. Append(q, e) \in Seq(S \cup {e})
    BY <2>1
  <2> QED BY <2>1, <2>2, <2>3
<1> HIDE DEF Good
<1>5. D = {}
  <2>1. D \subseteq 0..Len(bs) /\ 0 \notin D /\ \A k \in 1..Len(bs) : k \in D => k - 1 \in D
    BY <1>0, <1>1, <1>2, <1>3
  <2> HIDE DEF D
  <2> QED BY <1>0, <2>1, Climb
<1>6. Good(g[Len(bs)])
  BY <1>0, <1>5
<1> QED BY <1>1, <1>6 DEF Good

LEMMA SetIsListed ==
  ASSUME NEW S, IsFiniteSet(S)
  PROVE  Fs!SetToSeq(S) \in Seq(S)
<1> DEFINE n == Cardinality(S)
<1>1. n \in Nat /\ \E h : h \in Bijection(1..n, S)
  BY FS_CardinalityType DEF ExistsBijection
<1>2. \E h \in [1..n -> S] : Fs!IsInjective(h)
  BY <1>1 DEF Bijection, Injection, IsInjective, Fs!IsInjective
<1>3. Fs!SetToSeq(S) \in [1..n -> S]
  <2>1. Fs!Cardinality(S) = n
    BY DEF Fs!Cardinality, Cardinality
  <2> HIDE DEF n
  <2> QED BY <1>2, <2>1 DEF Fs!SetToSeq
<1> HIDE DEF n
<1> QED BY <1>1, <1>3

FlatIs(q, k, f) == f = [i \in 1..k |-> IF i = 1 THEN q[i] ELSE f[i-1] \o q[i]]

LEMMA FlatOf ==
  ASSUME NEW T, NEW q \in Seq(Seq(T))
  PROVE  Fs!FlattenSeq(q) \in Seq(T)
<1> DEFINE n == Len(q)
           D == {k \in 0..n : ~ \E f : FlatIs(q, k, f)}
<1>0. n \in Nat /\ \A i \in 1..n : q[i] \in Seq(T)
  OBVIOUS
<1> HIDE DEF n
<1>1. D = {}
  <2> SUFFICES ASSUME D # {} PROVE FALSE
    OBVIOUS
  <2>0. D \subseteq Nat
    BY <1>0
  <2>1. PICK k \in D : \A m \in D : k <= m
    BY <2>0, LeastOf
  <2>2. CASE k = 0
    <3> DEFINE f == [i \in 1..0 |-> << >>]
    <3>1. FlatIs(q, 0, f)
      BY DEF FlatIs
    <3> QED BY <2>1, <2>2, <3>1
  <2>3. CASE k # 0
    <3>0. k \in 0..n /\ ~ (k <= k - 1) /\ k \in 1..n /\ k - 1 \in 0..n
      BY <1>0, <2>1, <2>3
    <3>1. k \in 1..n /\ k - 1 \in 0..n /\ k - 1 \notin D
      BY <2>1, <3>0
    <3>2. PICK f : FlatIs(q, k - 1, f)
      BY <3>1
    <3>3. \A i \in 1..(k - 1) : f[i] = IF i = 1 THEN q[i] ELSE f[i-1] \o q[i]
      BY <3>2 DEF FlatIs
    <3> DEFINE h == [i \in 1..k |-> IF i = k THEN IF k = 1 THEN q[k] ELSE f[k-1] \o q[k] ELSE f[i]]
    <3>7. k \in 1..k /\ \A i \in 1..(k-1) : i \in 1..k /\ i # k
      BY <3>1, <1>0
    <3>4. /\ h[k] = IF k = 1 THEN q[k] ELSE f[k-1] \o q[k]
          /\ \A i \in 1..(k-1) : h[i] = f[i]
          /\ h = [i \in 1..k |-> h[i]]
      BY <3>7
    <3> HIDE DEF h
    <3>5. \A i \in 1..k : h[i] = IF i = 1 THEN q[i] ELSE h[i-1] \o q[i]
      <4> TAKE i \in 1..k
      <4>1. CASE i = k
        <5>1. k # 1 => k - 1 \in 1..(k-1)
          BY <3>1, <1>0
        <5> QED BY <3>4, <4>1, <5>1
      <4>2. CASE i # k
        <5>1. i \in 1..(k-1) /\ (i # 1 => i - 1 \in 1..(k-1))
          BY <3>1, <4>2
        <5> QED BY <3>3, <3>4, <5>1
      <4> QED BY <4>1, <4>2
    <3>6. FlatIs(q, k, h)
      BY <3>4, <3>5 DEF FlatIs
    <3> QED BY <2>1, <3>6
  <2> QED BY <2>2, <2>3
<1> DEFINE f == CHOOSE h : FlatIs(q, n, h)
<1>2. FlatIs(q, n, f)
  <2>0. n \in Nat
    BY <1>0
  <2>1. n \in 0..n
    BY <2>0
  <2>3. n \notin D
    BY <1>1
  <2>2. \E h : FlatIs(q, n, h)
    BY <2>1, <2>3
  <2> QED BY <2>2
<1>3. Fs!FlattenSeq(q) = IF n = 0 THEN q ELSE f[n]
  BY DEF Fs!FlattenSeq, FlatIs, n
<1>4. CASE n = 0
  <2>1. q = << >>
    BY <1>4 DEF n
  <2> QED BY <1>3, <1>4, <2>1
<1>5. CASE n # 0
  <2>1. \A i \in 1..n : f[i] = IF i = 1 THEN q[i] ELSE f[i-1] \o q[i]
    BY <1>2 DEF FlatIs
  <2> HIDE DEF f
  <2> DEFINE E == {k \in 1..n : f[k] \notin Seq(T)}
  <2>2. E = {}
    <3> SUFFICES ASSUME E # {} PROVE FALSE
      OBVIOUS
    <3>0. E \subseteq Nat
      BY <1>0
    <3>1. PICK k \in E : \A m \in E : k <= m
      BY <3>0, LeastOf
    <3>2. CASE k = 1
      BY <1>0, <2>1, <3>1, <3>2
    <3>3. CASE k # 1
      <4>1. k \in 1..n /\ k - 1 \in 1..n /\ k - 1 \notin E
        BY <1>0, <3>1, <3>3
      <4>2. f[k - 1] \in Seq(T) /\ q[k] \in Seq(T)
        BY <1>0, <4>1
      <4>3. f[k - 1] \o q[k] \in Seq(T)
        BY <4>2
      <4> QED BY <2>1, <3>1, <3>3, <4>1, <4>3
    <3> QED BY <3>2, <3>3
  <2>3. n \in 1..n
    BY <1>0, <1>5
  <2> QED BY <1>3, <1>5, <2>2, <2>3
<1> QED BY <1>4, <1>5

(* What an unlock of [us, us + ul) leaves of a lock, as a set, and the      *)
(* records it is given up by.                                               *)
Left(lk, us, ul) ==
  (IF us > lk.start THEN {<<lk.start, us - lk.start>>} ELSE {})
  \cup (IF ul # 0 /\ (lk.length = 0 \/ us + ul < lk.start + lk.length)
        THEN {<<us + ul, IF lk.length = 0 THEN 0 ELSE (lk.start + lk.length) - (us + ul)>>} ELSE {})

Again(lk, r) ==
  Fs!FileRange("FILE-LOCK", lk.ino, Fs!LockVal(lk.owner, lk.ltype, r[1], r[2]))
GivenUp(lk) ==
  Fs!FileRange("FILE-UNLOCK", lk.ino, Fs!LockVal(lk.owner, lk.ltype, lk.start, lk.length))

Releases(hit, us, ul) ==
  {GivenUp(lk) : lk \in hit} \cup UNION {{Again(lk, r) : r \in Left(lk, us, ul)} : lk \in hit}

Hit(ino, who, us, ul) ==
  {lk \in locks : /\ lk.ino = ino /\ lk.owner = who
                  /\ Fs!Overlaps(lk.start, lk.length, us, ul)}

LEMMA OneReleased ==
  ASSUME NEW hit, NEW lk \in hit, NEW us, NEW ul
  PROVE  Fs!ReleaseOne(lk, us, ul) \in Seq(Releases(hit, us, ul))
<1> DEFINE P == Left(lk, us, ul)
           R == Fs!Remainders(lk, us, ul)
           T == Releases(hit, us, ul)
<1>1. R \in Seq(P)
  <2> DEFINE a == IF us > lk.start THEN <<<<lk.start, us - lk.start>>>> ELSE << >>
             e == <<us + ul, IF lk.length = 0 THEN 0 ELSE (lk.start + lk.length) - (us + ul)>>
             b == IF ul # 0 /\ (lk.length = 0 \/ us + ul < lk.start + lk.length)
                  THEN <<e>> ELSE << >>
  <2>1. us > lk.start => <<lk.start, us - lk.start>> \in P
    BY DEF Left
  <2>2. ul # 0 /\ (lk.length = 0 \/ us + ul < lk.start + lk.length) => e \in P
    BY DEF Left
  <2>3. R = a \o b
    BY Zenon DEF Fs!Remainders
  <2> HIDE DEF P, R, e
  <2>4. a \in Seq(P)
    BY <2>1
  <2>5. b \in Seq(P)
    BY <2>2
  <2> HIDE DEF a, b
  <2> QED BY <2>3, <2>4, <2>5
<1>2. Len(R) \in Nat /\ \A k \in 1..Len(R) : R[k] \in P
  BY <1>1
<1> DEFINE A == [k \in 1..Len(R) |-> Again(lk, R[k])]
<1>3. \A r \in P : Again(lk, r) \in T
  BY DEF Releases
<1>4. GivenUp(lk) \in T
  BY DEF Releases
<1>5. Fs!ReleaseOne(lk, us, ul) = <<GivenUp(lk)>> \o A
  BY DEF Fs!ReleaseOne, GivenUp, Again
<1> HIDE DEF P, R, T
<1>6. A \in Seq(T)
  BY <1>2, <1>3
<1>7. <<GivenUp(lk)>> \in Seq(T)
  BY <1>4
<1> HIDE DEF A
<1>8. <<GivenUp(lk)>> \o A \in Seq(T)
  BY <1>6, <1>7
<1> QED BY <1>5, <1>8 DEF T

LEMMA ReleasedAre ==
  ASSUME IsFiniteSet(locks), NEW ino, NEW who, NEW us, NEW ul
  PROVE  Fs!ReleaseLocks(ino, who, us, ul) \in Seq(Releases(Hit(ino, who, us, ul), us, ul))
<1> DEFINE H == Hit(ino, who, us, ul)
           h == Fs!SetToSeq(H)
           T == Releases(H, us, ul)
           q == [k \in 1..Len(h) |-> Fs!ReleaseOne(h[k], us, ul)]
<1>1. IsFiniteSet(H)
  <2>1. H \subseteq locks
    BY DEF Hit
  <2> QED BY <2>1, FS_Subset
<1>2. {lk \in Fs!LocksOf(ino, who) : Fs!Overlaps(lk.start, lk.length, us, ul)} = H
  BY DEF Fs!LocksOf, Hit
<1>3. Fs!ReleaseLocks(ino, who, us, ul) = Fs!FlattenSeq(q)
  BY <1>2 DEF Fs!ReleaseLocks
<1>4. h \in Seq(H)
  BY <1>1, SetIsListed
<1>5. \A lk \in H : Fs!ReleaseOne(lk, us, ul) \in Seq(T)
  BY OneReleased
<1> HIDE DEF T, H, h
<1>6. Len(h) \in Nat /\ \A k \in 1..Len(h) : h[k] \in H
  BY <1>4
<1>7. q \in Seq(Seq(T))
  BY <1>5, <1>6
<1> HIDE DEF q
<1>8. Fs!FlattenSeq(q) \in Seq(T)
  BY <1>7, FlatOf
<1> QED BY <1>3, <1>8 DEF T, H

(* The served tree is the fold, the mount runs, and what is held is finite. *)
Serving ==
  /\ IsSeq(rec) /\ IsSeq(bursts) /\ IsFiniteSet(locks)
  /\ served = Fs!Fold(rec) /\ ~ halted

LEMMA ActsStep ==
  ASSUME Serving, NEW es, IsSeq(es), Fs!Acts(es)
  PROVE  IsSeq(rec)' /\ IsFiniteSet(locks)' /\ served' = Fs!Fold(rec')
<1>1. /\ IsSeq(Fs!AppendAll(es).rec) /\ IsFiniteSet(Fs!AppendAll(es).locks)
      /\ Fs!AppendAll(es).st = Fs!Fold(Fs!AppendAll(es).rec)
  BY ActsServe DEF Serving
<1>2. /\ rec' = Fs!AppendAll(es).rec /\ served' = Fs!AppendAll(es).st
      /\ locks' = Fs!AppendAll(es).locks
  BY DEF Fs!Acts
<1>3. IsSeq(rec') /\ IsFiniteSet(locks') /\ served' = Fs!Fold(rec')
  BY <1>1, <1>2
<1> QED BY <1>3 DEF IsSeq

LEMMA WhereIsSeq ==
  ASSUME NEW bs, IsSeq(bs), NEW chosen
  PROVE  IsSeq(Fs!Where(bs, chosen))
<1>1. PICK S : bs \in Seq(S)
  BY DEF IsSeq
<1> QED BY <1>1, ChosenAre DEF IsSeq

LEMMA DropStep ==
  ASSUME Serving, NEW bs, Fs!DropBursts(bs)
  PROVE  IsSeq(bursts)'
<1>1. IsSeq(bursts')
  BY WhereIsSeq DEF Serving, Fs!DropBursts
<1> QED BY <1>1 DEF IsSeq

LEMMA Singles ==
  /\ IsSeq(<< >>) /\ \A e : IsSeq(<<e>>)
  /\ \A bs : IsSeq(bs) => IsSeq(Fs!CloseRecs(bs))
  /\ \A bs, e : IsSeq(bs) => IsSeq(Append(Fs!CloseRecs(bs), e))
<1>1. << >> \in Seq({})
  OBVIOUS
<1>2. \A e : <<e>> \in Seq({e})
  OBVIOUS
<1>3. \A bs : IsSeq(bs) => IsSeq(Fs!CloseRecs(bs))
  BY CloseRecsAre DEF IsSeq
<1>4. \A q, e : IsSeq(q) => IsSeq(Append(q, e))
  BY SeqGrows
<1> QED BY <1>1, <1>2, <1>3, <1>4 DEF IsSeq

LEMMA JoinIsSeq ==
  ASSUME NEW a, NEW b, IsSeq(a), IsSeq(b)
  PROVE  IsSeq(a \o b)
<1>1. PICK S, T : a \in Seq(S) /\ b \in Seq(T)
  BY DEF IsSeq
<1>2. a \in Seq(S \cup T) /\ b \in Seq(S \cup T)
  BY <1>1
<1>3. a \o b \in Seq(S \cup T)
  BY <1>2
<1> QED BY <1>3 DEF IsSeq

LEMMA Taken ==
  ASSUME Serving
  PROVE  /\ \A p : IsSeq(Fs!BurstsAt(p))
         /\ \A h : IsSeq(Fs!BurstOf(h))
         /\ \A i, o, us, ul : IsSeq(Fs!ReleaseLocks(i, o, us, ul))
<1>1. \A p : IsSeq(Fs!BurstsAt(p))
  BY WhereIsSeq DEF Serving, Fs!BurstsAt
<1>2. \A h : IsSeq(Fs!BurstOf(h))
  BY WhereIsSeq DEF Serving, Fs!BurstOf
<1>3. \A i, o, us, ul : IsSeq(Fs!ReleaseLocks(i, o, us, ul))
  BY ReleasedAre DEF Serving, IsSeq
<1> QED BY <1>1, <1>2, <1>3

(* A call that fails closed some of its bursts and dropped one more at most *)
(* than it recorded.                                                        *)
Failing(bs, done, gone) ==
  /\ IsSeq(done) /\ IsSeq(gone) /\ Len(gone) \in 1..Len(bs)
  /\ Len(done) = Len(gone) \/ Len(done) + 1 = Len(gone)
  /\ \A k \in 1..Len(gone) : k \in 1..Len(bs) /\ gone[k] = bs[k]
  /\ \A k \in 1..Len(done) : k \in 1..Len(gone) /\ done[k] = gone[k]
  /\ Fs!Acts(Fs!CloseRecs(done)) /\ Fs!DropBursts(gone)

LEMMA FailedIs ==
  ASSUME Serving, Fs!FailedCall
  PROVE  \E bs \in Fs!ClosedByACall :
           /\ IsSeq(bs) /\ \E done, gone : Failing(bs, done, gone)
           /\ \/ handles' = handles
              \/ \E h \in DOMAIN handles : bs = Fs!BurstOf(h) /\ handles' = Fs!Without(handles, h)
           /\ UNCHANGED <<aside, nextFh, braked, halted>>
<1>1. PICK bs \in Fs!ClosedByACall :
        /\ Fs!CallFails(bs)
        /\ \/ handles' = handles
           \/ \E h \in DOMAIN handles : bs = Fs!BurstOf(h) /\ handles' = Fs!Without(handles, h)
        /\ UNCHANGED <<aside, nextFh, braked, halted>>
  BY DEF Fs!FailedCall
<1>2. IsSeq(bs)
  BY Taken, Singles DEF Fs!ClosedByACall
<1>3. PICK S : bs \in Seq(S)
  BY <1>2 DEF IsSeq
<1>4. PICK m \in 1..Len(bs) : \E n \in {m - 1, m} :
        Fs!Acts(Fs!CloseRecs(SubSeq(bs, 1, n))) /\ Fs!DropBursts(SubSeq(bs, 1, m))
  BY <1>1 DEF Fs!CallFails
<1>0. PICK n \in {m - 1, m} :
        Fs!Acts(Fs!CloseRecs(SubSeq(bs, 1, n))) /\ Fs!DropBursts(SubSeq(bs, 1, m))
  BY <1>4
<1> DEFINE gone == SubSeq(bs, 1, m)
           done == SubSeq(bs, 1, n)
<1>5. /\ gone \in Seq(S) /\ Len(gone) = m /\ \A k \in 1..m : k \in 1..Len(bs) /\ gone[k] = bs[k]
      /\ done \in Seq(S) /\ Len(done) = n /\ \A k \in 1..n : k \in 1..m /\ done[k] = bs[k]
  BY <1>3
<1>6. Fs!Acts(Fs!CloseRecs(done)) /\ Fs!DropBursts(gone)
  BY <1>0
<1> HIDE DEF gone, done
<1>7. Failing(bs, done, gone)
  BY <1>0, <1>5, <1>6 DEF Failing, IsSeq
<1> QED BY <1>1, <1>2, <1>7

LEMMA InitServing == Fs!Init => Serving
<1> SUFFICES ASSUME Fs!Init PROVE Serving
  OBVIOUS
<1>1. IsSeq(<< >>)
  BY Singles
<1> QED BY <1>1, FS_EmptySet DEF Fs!Init, Serving

(* Besides the closes a call records no bytes but a file cut to a length.   *)
Other(e) == e.op # "FILE-WRITE" /\ (e.op = "FILE-TRUNCATE" => Len(e.val) \in Nat)

LEMMA OthersAre ==
  /\ \A p, q, k : \A op \in {"FILE-UNLINK", "FILE-RMDIR", "FILE-RENAME", "FILE-LINK"} :
       Other(Fs!NameRec(op, p, q, k))
  /\ \A p, k, u : \A op \in {"FILE-CREATE", "FILE-MKDIR", "FILE-SYMLINK"} : Other(Fs!MakeRec(op, p, k, u))
  /\ \A i, v : Other(Fs!FilePerm(i, v)) /\ Other(Fs!FileChown(i, v))
  /\ \A i, v : Len(v) \in Nat => Other(Fs!FileTruncate(i, v))
  /\ \A i, v : \A op \in {"FILE-LOCK", "FILE-UNLOCK"} : Other(Fs!FileRange(op, i, v))
  /\ \A p, q, k, i, v : Other(Fs!Rec("RECOVER", p, q, k, i, v))
BY DEF Other, Fs!NameRec, Fs!MakeRec, Fs!FilePerm, Fs!FileChown, Fs!FileTruncate,
       Fs!FileRange, Fs!Rec

LEMMA OpsLockNothing ==
  /\ \A op, p, q, k : Fs!NameRec(op, p, q, k).op = op
  /\ \A op, p, k, u : Fs!MakeRec(op, p, k, u).op = op
  /\ \A i, v : /\ Fs!FilePerm(i, v).op # "FILE-LOCK" /\ Fs!FileChown(i, v).op # "FILE-LOCK"
               /\ Fs!FileTruncate(i, v).op # "FILE-LOCK"
  /\ \A p, q, k, i, v : Fs!Rec("RECOVER", p, q, k, i, v).op # "FILE-LOCK"
BY DEF Fs!NameRec, Fs!MakeRec, Fs!FilePerm, Fs!FileChown, Fs!FileTruncate, Fs!Rec

(* A call about a name records one act, after the bursts it closes there.   *)
LEMMA NameIs ==
  ASSUME Fs!NameCalls
  PROVE  \E e : /\ Other(e) /\ e.op # "FILE-LOCK" /\ UNCHANGED halted
                /\ \/ Fs!Acts(<<e>>) /\ UNCHANGED bursts
                   \/ \E p : /\ Fs!Acts(Append(Fs!CloseRecs(Fs!BurstsAt(p)), e))
                             /\ Fs!DropBursts(Fs!BurstsAt(p))
<1> DEFINE Goal == \E e : /\ Other(e) /\ e.op # "FILE-LOCK" /\ UNCHANGED halted
                          /\ \/ Fs!Acts(<<e>>) /\ UNCHANGED bursts
                             \/ \E p : /\ Fs!Acts(Append(Fs!CloseRecs(Fs!BurstsAt(p)), e))
                                       /\ Fs!DropBursts(Fs!BurstsAt(p))
<1>5. ASSUME NEW e, Other(e), e.op # "FILE-LOCK", UNCHANGED <<halted, bursts>>, Fs!Acts(<<e>>)
      PROVE  Goal
  BY <1>5
<1>6. ASSUME NEW e, Other(e), e.op # "FILE-LOCK", UNCHANGED halted, NEW p,
             Fs!Acts(Append(Fs!CloseRecs(Fs!BurstsAt(p)), e)), Fs!DropBursts(Fs!BurstsAt(p))
      PROVE  Goal
  BY <1>6
<1> HIDE DEF Goal
<1> USE OthersAre, OpsLockNothing
<1>1. ASSUME NEW p, NEW u, Fs!Create(p, u) \/ Fs!Chown(p, u) \/ Fs!SetAttr(p) PROVE Goal
  BY <1>1, <1>5 DEF Fs!Create, Fs!Chown, Fs!SetAttr
<1>2. ASSUME NEW op \in {"FILE-MKDIR", "FILE-SYMLINK"}, NEW kind, NEW p, NEW u, Fs!Make(op, kind, p, u)
      PROVE  Goal
  BY <1>2, <1>5 DEF Fs!Make, Fs!Plain
<1>3. ASSUME NEW p, NEW q, Fs!Rmdir(p) \/ Fs!Unlink(p) \/ Fs!Link(p, q) PROVE Goal
  BY <1>3, <1>5 DEF Fs!Rmdir, Fs!Unlink, Fs!Link, Fs!Plain
<1>4. ASSUME NEW p, NEW q, Fs!RenameAside(p) \/ Fs!RenameTo(p, q) PROVE Goal
  BY <1>4, <1>6 DEF Fs!RenameAside, Fs!RenameTo
<1>7. Goal
  BY <1>1, <1>2, <1>3, <1>4 DEF Fs!NameCalls
<1> QED BY <1>7 DEF Goal

LEMMA NamesServe == Serving /\ Fs!NameCalls => Serving'
<1> SUFFICES ASSUME Serving, Fs!NameCalls PROVE Serving'
  OBVIOUS
<1>1. PICK es : /\ IsSeq(es) /\ Fs!Acts(es) /\ UNCHANGED halted
                /\ UNCHANGED bursts \/ \E bs : Fs!DropBursts(bs)
  BY NameIs, Singles, Taken
<1>2. IsSeq(rec)' /\ IsFiniteSet(locks)' /\ served' = Fs!Fold(rec') /\ IsSeq(bursts)'
  BY <1>1, ActsStep, DropStep DEF Serving, IsSeq
<1> QED BY <1>1, <1>2 DEF Serving

LEMMA ContentsServe == Serving /\ Fs!ContentCalls => Serving'
<1> SUFFICES ASSUME Serving, Fs!ContentCalls PROVE Serving'
  OBVIOUS
<1> USE Singles, Taken
<1>1. ASSUME NEW es, IsSeq(es), Fs!Acts(es), NEW bs, Fs!DropBursts(bs), UNCHANGED halted
      PROVE  Serving'
  <2>1. IsSeq(rec)' /\ IsFiniteSet(locks)' /\ served' = Fs!Fold(rec')
    BY <1>1, ActsStep
  <2>2. IsSeq(bursts)'
    BY <1>1, DropStep
  <2> QED BY <1>1, <2>1, <2>2 DEF Serving
<1>2. ASSUME NEW p, NEW n, Fs!Truncate(p, n) PROVE Serving'
  <2> DEFINE bs == Fs!BurstsAt(p)
             cur == IF bs = << >> THEN Fs!Recorded(Fs!NodeOf(p))
                    ELSE Fs!Last(Fs!CloseRecs(bs)).val
             es == Append(Fs!CloseRecs(bs),
                          Fs!FileTruncate(Fs!NodeOf(p), Fs!Truncated(cur, n)))
  <2>1. Fs!Acts(es) /\ Fs!DropBursts(bs) /\ UNCHANGED halted
    BY <1>2 DEF Fs!Truncate
  <2>2. IsSeq(es)
    OBVIOUS
  <2> HIDE DEF es, bs
  <2> QED BY <1>1, <2>1, <2>2
<1>3. ASSUME NEW p, NEW trunc, Fs!Open(p, trunc) PROVE Serving'
  <2> DEFINE es == IF trunc THEN <<Fs!FileTruncate(served.names[p], Empty)>> ELSE << >>
  <2>1. Fs!Acts(es) /\ UNCHANGED <<bursts, halted>>
    BY <1>3 DEF Fs!Open
  <2>2. IsSeq(es)
    OBVIOUS
  <2> HIDE DEF es
  <2>3. IsSeq(rec)' /\ IsFiniteSet(locks)' /\ served' = Fs!Fold(rec')
    BY <2>1, <2>2, ActsStep
  <2> QED BY <2>1, <2>3 DEF Serving, IsSeq
<1>4. ASSUME NEW h, NEW offset, Fs!Write(h, offset) PROVE Serving'
  <2> DEFINE new == Fs!Grown(h, offset)
             closes == Fs!IsFull(new) /\ Fs!Admits
  <2>0. /\ Fs!Acts(IF closes THEN Fs!CloseRecs(<<new>>) ELSE << >>)
        /\ IF closes THEN Fs!DropBursts(<<new>>)
           ELSE bursts' = IF Fs!BurstOf(h) = << >> THEN Append(bursts, new)
                          ELSE [k \in 1..Len(bursts) |->
                                  IF bursts[k].fh = h THEN new ELSE bursts[k]]
        /\ UNCHANGED halted
    BY <1>4, Zenon DEF Fs!Write
  <2> HIDE DEF new, closes
  <2>2. CASE closes
    BY <1>1, <2>0, <2>2
  <2>3. CASE ~ closes
    <3>1. IsSeq(rec)' /\ IsFiniteSet(locks)' /\ served' = Fs!Fold(rec')
      BY <2>0, <2>3, ActsStep
    <3>2. IsSeq(Append(bursts, new))
      BY SeqGrows DEF Serving
    <3>3. IsSeq([k \in 1..Len(bursts) |-> IF bursts[k].fh = h THEN new ELSE bursts[k]])
      <4>1. PICK S : bursts \in Seq(S)
        BY DEF Serving, IsSeq
      <4>2. [k \in 1..Len(bursts) |-> IF bursts[k].fh = h THEN new ELSE bursts[k]]
              \in Seq(S \cup {new})
        BY <4>1
      <4> QED BY <4>2 DEF IsSeq
    <3>4. IsSeq(bursts')
      BY <2>0, <2>3, <3>2, <3>3
    <3> QED BY <2>0, <3>1, <3>4 DEF Serving, IsSeq
  <2> QED BY <2>2, <2>3
<1>5. ASSUME NEW h, NEW o, Fs!Flush(h, o) PROVE Serving'
  <2> DEFINE es == Fs!CloseRecs(Fs!BurstOf(h)) \o Fs!ReleaseLocks(handles[h].ino, o, 0, 0)
  <2>1. Fs!Acts(es) /\ Fs!DropBursts(Fs!BurstOf(h)) /\ UNCHANGED halted
    BY <1>5 DEF Fs!Flush
  <2>2. IsSeq(es)
    BY JoinIsSeq
  <2> HIDE DEF es
  <2> QED BY <1>1, <2>1, <2>2
<1>6. ASSUME NEW h, Fs!Fsync(h) PROVE Serving'
  BY <1>1, <1>6 DEF Fs!Fsync
<1>7. ASSUME NEW h, Fs!Release(h) PROVE Serving'
  <2>1. /\ Fs!Acts(Fs!CloseRecs(Fs!BurstOf(h))) /\ Fs!DropBursts(Fs!BurstOf(h))
        /\ halted' = (halted \/ (Fs!Admits /\ bursts' = << >> /\ served' # Fs!Fold(rec')))
    BY <1>7 DEF Fs!Release
  <2>2. IsSeq(rec)' /\ IsFiniteSet(locks)' /\ served' = Fs!Fold(rec')
    BY <2>1, ActsStep
  <2>3. IsSeq(bursts)'
    BY <2>1, DropStep
  <2> QED BY <2>1, <2>2, <2>3 DEF Serving
<1> QED BY <1>2, <1>3, <1>4, <1>5, <1>6, <1>7 DEF Fs!ContentCalls

LEMMA NextServing == Serving /\ [Fs!Next]_(Fs!vars) => Serving'
<1> SUFFICES ASSUME Serving, [Fs!Next]_(Fs!vars) PROVE Serving'
  OBVIOUS
<1>1. CASE Fs!NameCalls
  BY <1>1, NamesServe
<1>2. CASE Fs!HiddenCalls
  BY <1>2 DEF Fs!HiddenCalls, Fs!UnlinkHidden, Serving, IsSeq
<1>3. CASE Fs!ContentCalls
  BY <1>3, ContentsServe
<1>4. CASE Fs!LockCalls
  <2>1. PICK es : IsSeq(es) /\ Fs!Acts(es) /\ UNCHANGED <<bursts, halted>>
    BY <1>4, Singles, Taken DEF Fs!LockCalls, Fs!LockRange, Fs!UnlockRange
  <2>2. IsSeq(rec)' /\ IsFiniteSet(locks)' /\ served' = Fs!Fold(rec')
    BY <2>1, ActsStep
  <2> QED BY <2>1, <2>2 DEF Serving, IsSeq
<1>5. CASE Fs!Brake
  BY <1>5 DEF Fs!Brake, Serving, IsSeq
<1>6. CASE Fs!Remount
  <2>1. IsSeq(bursts') /\ IsFiniteSet(locks')
    BY <1>6, Singles, FS_EmptySet DEF Fs!Remount
  <2> QED BY <1>6, <2>1 DEF Fs!Remount, Serving, IsSeq
<1>7. CASE \E t \in 1..MaxRec : Fs!Recover(t)
  <2>1. PICK es : IsSeq(es) /\ Fs!Acts(es) /\ UNCHANGED <<bursts, halted>>
    BY <1>7, Singles DEF Fs!Recover
  <2>2. IsSeq(rec)' /\ IsFiniteSet(locks)' /\ served' = Fs!Fold(rec')
    BY <2>1, ActsStep
  <2> QED BY <2>1, <2>2 DEF Serving, IsSeq
<1>8. CASE UNCHANGED Fs!vars
  BY <1>8 DEF Fs!vars, Serving, IsSeq
<1>9. CASE Fs!FailedCall
  <2>1. PICK done, gone : /\ IsSeq(done) /\ Fs!Acts(Fs!CloseRecs(done)) /\ Fs!DropBursts(gone)
                          /\ UNCHANGED halted
    BY <1>9, FailedIs DEF Failing
  <2>2. IsSeq(rec)' /\ IsFiniteSet(locks)' /\ served' = Fs!Fold(rec') /\ IsSeq(bursts)'
    BY <2>1, Singles, ActsStep, DropStep
  <2> QED BY <2>1, <2>2 DEF Serving
<1> QED BY <1>1, <1>2, <1>3, <1>4, <1>5, <1>6, <1>7, <1>8, <1>9 DEF Fs!Next

LEMMA AlwaysServing == Fs!Spec => []Serving
<1> QED BY InitServing, NextServing, PTL DEF Fs!Spec

(* The tree the mount serves, advanced act by act, is what the record folds *)
(* to, also after a recover landed on the live mount and after a remount,   *)
(* so the shadow check at a release never halts it (RecordsFS._on_append,   *)
(* _shadow_check).                                                          *)
THEOREM MountServesTheRecord == Fs!Spec => []Fs!ShadowNeverDiffers
<1>1. Serving => Fs!ShadowNeverDiffers
  BY DEF Serving, Fs!ShadowNeverDiffers
<1> QED BY <1>1, AlwaysServing, PTL

-----------------------------------------------------------------------------
(* The locks *)

Meet(x, y) == Fs!Overlaps(x.start, x.length, y.start, y.length)

IsLock(x) == x.start \in Nat /\ x.length \in Nat /\ x.ltype \in {"read", "write"}

(* A lock of the same process, kind and file, on no byte more.              *)
Within(x, y) ==
  /\ IsLock(x) /\ IsLock(y)
  /\ x.ino = y.ino /\ x.owner = y.owner /\ x.ltype = y.ltype
  /\ y.start <= x.start
  /\ y.length = 0 \/ (x.length # 0 /\ x.start + x.length <= y.start + y.length)

(* Two processes have a byte in common only to read it, to any length.      *)
Locked ==
  /\ \A x \in locks : IsLock(x)
  /\ \A x, y \in locks :
       x.ino = y.ino /\ x.owner # y.owner /\ Meet(x, y) => x.ltype = "read" /\ y.ltype = "read"

NewLock(e) == [ino |-> e.ino, owner |-> e.val.owner, ltype |-> e.val.ltype,
               start |-> e.val.start, length |-> e.val.length]

(* Acts that lock nothing but what is left of a lock.                       *)
Quiet(es) ==
  IsSeq(es) /\ \A k \in 1..Len(es) : es[k].op = "FILE-LOCK" => \E y \in locks : Within(NewLock(es[k]), y)

LEMMA ApplyAdds ==
  ASSUME NEW tbl, NEW e
  PROVE  Fs!ApplyLock(tbl, e) \subseteq tbl \cup (IF e.op = "FILE-LOCK" THEN {NewLock(e)} ELSE {})
BY DEF Fs!ApplyLock, NewLock

LEMMA QuietActs ==
  ASSUME Locked, NEW es, Quiet(es)
  PROVE  \A x \in Fs!AppendAll(es).locks : \E y \in locks : Within(x, y)
<1>0. Len(es) \in Nat
  BY DEF Quiet, IsSeq
<1>1. PICK g : /\ g[0] = Before
               /\ \A k \in 1..Len(es) : g[k] = Acted(g[k - 1], es[k])
               /\ Fs!AppendAll(es) = g[Len(es)]
  BY ActsSteps DEF Quiet
<1> DEFINE Good(a) == \A x \in a.locks : \E y \in locks : Within(x, y)
           D == {k \in 0..Len(es) : ~ Good(g[k])}
<1>2. Good(Before)
  <2>1. \A x \in locks : Within(x, x)
    BY DEF Locked, Within, IsLock
  <2> QED BY <2>1 DEF Before
<1>3. ASSUME NEW k \in 1..Len(es), Good(g[k - 1]) PROVE Good(g[k])
  <2>1. g[k].locks = Fs!ApplyLock(g[k - 1].locks, es[k])
    <3>1. \A a, e : Acted(a, e).locks = Fs!ApplyLock(a.locks, e)
      BY DEF Acted
    <3> QED BY <1>1, <3>1
  <2>2. es[k].op = "FILE-LOCK" => \E y \in locks : Within(NewLock(es[k]), y)
    BY DEF Quiet
  <2> QED BY <1>3, <2>1, <2>2, ApplyAdds
<1> HIDE DEF Good
<1>5. D = {}
  <2>1. D \subseteq 0..Len(es) /\ 0 \notin D /\ \A k \in 1..Len(es) : k \in D => k - 1 \in D
    BY <1>0, <1>1, <1>2, <1>3
  <2> HIDE DEF D
  <2> QED BY <1>0, <2>1, Climb
<1>6. Good(g[Len(es)])
  BY <1>0, <1>5
<1> QED BY <1>1, <1>6 DEF Good

LEMMA WithinMeets ==
  ASSUME NEW x, NEW y, NEW v, NEW w, Within(x, v), Within(y, w), Meet(x, y)
  PROVE  Meet(v, w)
BY DEF Within, Meet, Fs!Overlaps, IsLock

LEMMA QuietKeeps ==
  ASSUME Locked, NEW es, Quiet(es), Fs!Acts(es)
  PROVE  Locked'
<1>1. locks' = Fs!AppendAll(es).locks
  BY DEF Fs!Acts
<1>2. \A x \in locks' : \E y \in locks : Within(x, y)
  BY <1>1, QuietActs
<1>3. \A x \in locks' : IsLock(x)
  BY <1>2 DEF Within
<1>4. ASSUME NEW x \in locks', NEW y \in locks', x.ino = y.ino, x.owner # y.owner, Meet(x, y)
      PROVE  x.ltype = "read" /\ y.ltype = "read"
  <2>1. PICK v \in locks : Within(x, v)
    BY <1>2
  <2>2. PICK w \in locks : Within(y, w)
    BY <1>2
  <2>3. Meet(v, w)
    BY <1>4, <2>1, <2>2, WithinMeets
  <2>4. v.ino = w.ino /\ v.owner # w.owner
    BY <1>4, <2>1, <2>2 DEF Within
  <2>5. v.ltype = "read" /\ w.ltype = "read"
    BY <2>3, <2>4 DEF Locked
  <2> QED BY <2>1, <2>2, <2>5 DEF Within
<1> QED BY <1>3, <1>4 DEF Locked, IsLock, Meet, Fs!Overlaps

LEMMA QuietSeqs ==
  /\ Quiet(<< >>) /\ \A e : e.op # "FILE-LOCK" => Quiet(<<e>>)
  /\ \A bs : IsSeq(bs) => Quiet(Fs!CloseRecs(bs))
  /\ \A bs, e : IsSeq(bs) /\ e.op # "FILE-LOCK" => Quiet(Append(Fs!CloseRecs(bs), e))
<1>1. Quiet(<< >>) /\ \A e : e.op # "FILE-LOCK" => Quiet(<<e>>)
  BY Singles DEF Quiet
<1>2. ASSUME NEW bs, IsSeq(bs) PROVE Quiet(Fs!CloseRecs(bs))
  <2>1. PICK S : Fs!CloseRecs(bs) \in Seq(S) /\ \A e \in S : e.op = "FILE-WRITE"
    BY <1>2, CloseRecsAre
  <2>2. \A k \in 1..Len(Fs!CloseRecs(bs)) : Fs!CloseRecs(bs)[k] \in S
    BY <2>1
  <2> QED BY <2>1, <2>2 DEF Quiet, IsSeq
<1>3. ASSUME NEW q, Quiet(q), NEW e, e.op # "FILE-LOCK" PROVE Quiet(Append(q, e))
  <2>1. IsSeq(q)
    BY <1>3 DEF Quiet
  <2>2. /\ IsSeq(Append(q, e)) /\ Len(q) \in Nat /\ Len(Append(q, e)) = Len(q) + 1
        /\ Append(q, e)[Len(q) + 1] = e
        /\ \A i \in 1..Len(q) : Append(q, e)[i] = q[i]
    BY <2>1, SeqGrows
  <2>3. \A k \in 1..Len(Append(q, e)) : k \in 1..Len(q) \/ k = Len(q) + 1
    BY <2>2
  <2> QED BY <1>3, <2>2, <2>3 DEF Quiet
<1> QED BY <1>1, <1>2, <1>3

LEMMA QuietJoin ==
  ASSUME NEW a, NEW b, Quiet(a), Quiet(b)
  PROVE  Quiet(a \o b)
<1>1. PICK S, T : a \in Seq(S) /\ b \in Seq(T)
  BY DEF IsSeq, Quiet
<1>2. a \in Seq(S \cup T) /\ b \in Seq(S \cup T)
  BY <1>1
<1>3. /\ Len(a) \in Nat /\ Len(b) \in Nat /\ Len(a \o b) = Len(a) + Len(b)
      /\ \A k \in 1..(Len(a) + Len(b)) : (a \o b)[k] = IF k <= Len(a) THEN a[k] ELSE b[k - Len(a)]
  BY <1>2
<1>4. \A k \in 1..(Len(a) + Len(b)) : k \in 1..Len(a) \/ (~ (k <= Len(a)) /\ k - Len(a) \in 1..Len(b))
  BY <1>3
<1>5. IsSeq(a \o b)
  BY JoinIsSeq DEF Quiet
<1>6. \A k \in 1..Len(a) : k <= Len(a)
  BY <1>3
<1> QED BY <1>3, <1>4, <1>5, <1>6 DEF Quiet

LEMMA QuietRelease ==
  ASSUME Serving, Locked, NEW ino, NEW who, NEW us \in Nat, NEW ul \in Nat
  PROVE  Quiet(Fs!ReleaseLocks(ino, who, us, ul))
<1> DEFINE H == Hit(ino, who, us, ul)
           R == Fs!ReleaseLocks(ino, who, us, ul)
<1>1. R \in Seq(Releases(H, us, ul))
  BY ReleasedAre DEF Serving
<1>2. ASSUME NEW e \in Releases(H, us, ul), e.op = "FILE-LOCK"
      PROVE  \E y \in locks : Within(NewLock(e), y)
  <2>1. \A lk : GivenUp(lk).op = "FILE-UNLOCK"
    BY DEF GivenUp, Fs!FileRange, Fs!Rec
  <2>2. PICK lk \in H : \E r \in Left(lk, us, ul) : e = Again(lk, r)
    <3>1. \A lk \in H : e # GivenUp(lk)
      BY <1>2, <2>1
    <3> QED BY <3>1 DEF Releases
  <2>7. PICK r \in Left(lk, us, ul) : e = Again(lk, r)
    BY <2>2
  <2>3. /\ lk \in locks /\ IsLock(lk) /\ Fs!Overlaps(lk.start, lk.length, us, ul)
    BY DEF Hit, Locked
  <2>4. NewLock(e) = [ino |-> lk.ino, owner |-> lk.owner, ltype |-> lk.ltype,
                      start |-> r[1], length |-> r[2]]
    BY <2>7 DEF NewLock, Again, Fs!FileRange, Fs!Rec, Fs!LockVal
  <2>5. CASE us > lk.start /\ r = <<lk.start, us - lk.start>>
    <3>1. r[1] = lk.start /\ r[2] = us - lk.start
      BY <2>5
    <3>2. /\ r[1] \in Nat /\ r[2] \in Nat /\ r[2] # 0 /\ r[1] + r[2] = us
          /\ lk.length = 0 \/ us <= lk.start + lk.length
      BY <2>3, <2>5, <3>1 DEF IsLock, Fs!Overlaps
    <3>3. Within(NewLock(e), lk)
      BY <2>3, <2>4, <3>1, <3>2 DEF Within, IsLock
    <3> QED BY <2>3, <3>3
  <2>6. CASE /\ ul # 0 /\ (lk.length = 0 \/ us + ul < lk.start + lk.length)
             /\ r = <<us + ul, IF lk.length = 0 THEN 0 ELSE (lk.start + lk.length) - (us + ul)>>
    <3>1. r[1] = us + ul /\ r[2] = IF lk.length = 0 THEN 0 ELSE (lk.start + lk.length) - (us + ul)
      BY <2>6
    <3>2. /\ r[1] \in Nat /\ r[2] \in Nat /\ lk.start <= r[1]
          /\ lk.length = 0 \/ (r[2] # 0 /\ r[1] + r[2] <= lk.start + lk.length)
      BY <2>3, <2>6, <3>1 DEF IsLock, Fs!Overlaps
    <3>3. Within(NewLock(e), lk)
      BY <2>3, <2>4, <3>2 DEF Within, IsLock
    <3> QED BY <2>3, <3>3
  <2> QED BY <2>5, <2>6 DEF Left
<1> HIDE DEF R, H
<1>3. \A k \in 1..Len(R) : R[k] \in Releases(H, us, ul)
  BY <1>1
<1>4. Quiet(R)
  BY <1>1, <1>2, <1>3 DEF Quiet, IsSeq
<1> QED BY <1>4 DEF R

LEMMA RangeLocked ==
  ASSUME Locked, NEW h, NEW who, NEW lt \in {"read", "write"}, NEW s \in Nat, NEW n \in Nat,
         Fs!LockRange(h, who, lt, s, n)
  PROVE  Locked'
<1> DEFINE i == handles[h].ino
           e == Fs!FileRange("FILE-LOCK", i, Fs!LockVal(who, lt, s, n))
           new == [ino |-> i, owner |-> who, ltype |-> lt, start |-> s, length |-> n]
<1>1. Fs!Acts(<<e>>) /\ Fs!Conflict(locks, i, who, lt, s, n) = {}
  BY DEF Fs!LockRange
<1>2. NewLock(e) = new
  BY DEF NewLock, Fs!FileRange, Fs!Rec, Fs!LockVal
<1>3. locks' \subseteq locks \cup {new}
  <2>1. locks' = Fs!AppendAll(<<e>>).locks
    BY <1>1 DEF Fs!Acts
  <2> HIDE DEF e
  <2>2. PICK g : /\ g[0] = Before
                 /\ \A k \in 1..Len(<<e>>) : g[k] = Acted(g[k - 1], <<e>>[k])
                 /\ Fs!AppendAll(<<e>>) = g[Len(<<e>>)]
    BY Singles, ActsSteps
  <2>3. Len(<<e>>) = 1 /\ <<e>>[1] = e /\ 1 \in 1..1 /\ 1 - 1 = 0
    OBVIOUS
  <2>4. Fs!AppendAll(<<e>>) = Acted(Before, e)
    BY <2>2, <2>3
  <2>5. Fs!AppendAll(<<e>>).locks = Fs!ApplyLock(locks, e)
    BY <2>4 DEF Acted, Before
  <2> QED BY <1>2, <2>1, <2>5, ApplyAdds
<1>4. IsLock(new) /\ new.ino = i /\ new.owner = who /\ new.ltype = lt /\ new.start = s /\ new.length = n
  BY DEF IsLock
<1> HIDE DEF new, i
<1>5. ASSUME NEW x \in locks, x.ino = i, x.owner # who, Meet(x, new)
      PROVE  x.ltype = "read" /\ new.ltype = "read"
  <2>1. x \notin Fs!Conflict(locks, i, who, lt, s, n)
    BY <1>1
  <2>2. ~ (x.ltype = "write" \/ lt = "write")
    BY <1>4, <1>5, <2>1 DEF Fs!Conflict, Meet
  <2> QED BY <1>4, <2>2 DEF Locked, IsLock
<1>6. \A x, y : IsLock(x) /\ IsLock(y) /\ Meet(x, y) => Meet(y, x)
  BY DEF Meet, IsLock, Fs!Overlaps
<1>7. \A x \in locks' : IsLock(x)
  BY <1>3, <1>4 DEF Locked
<1>8. ASSUME NEW x \in locks', NEW y \in locks', x.ino = y.ino, x.owner # y.owner, Meet(x, y)
      PROVE  x.ltype = "read" /\ y.ltype = "read"
  <2>1. CASE x \in locks /\ y \in locks
    BY <1>8, <2>1 DEF Locked
  <2>2. CASE x \in locks /\ y = new
    BY <1>4, <1>5, <1>8, <2>2
  <2>3. CASE x = new /\ y \in locks
    BY <1>4, <1>5, <1>6, <1>7, <1>8, <2>3
  <2>4. CASE x = new /\ y = new
    BY <1>8, <2>4
  <2> QED BY <1>3, <2>1, <2>2, <2>3, <2>4
<1> QED BY <1>7, <1>8 DEF Locked, IsLock, Meet, Fs!Overlaps

LEMMA NextLocked == Serving /\ Locked /\ [Fs!Next]_(Fs!vars) => Locked'
<1> SUFFICES ASSUME Serving, Locked, [Fs!Next]_(Fs!vars) PROVE Locked'
  OBVIOUS
<1>0. ASSUME UNCHANGED locks PROVE Locked'
  BY <1>0 DEF Locked, IsLock, Meet, Fs!Overlaps
<1>1. CASE Fs!NameCalls
  BY <1>1, NameIs, QuietKeeps, QuietSeqs, Taken
<1>2. CASE Fs!HiddenCalls
  BY <1>0, <1>2 DEF Fs!HiddenCalls, Fs!UnlinkHidden
<1>3. CASE Fs!ContentCalls
  <2>1. PICK es : Quiet(es) /\ Fs!Acts(es)
    <3>1. ASSUME NEW p, NEW n, Fs!Truncate(p, n) PROVE \E es : Quiet(es) /\ Fs!Acts(es)
      <4> DEFINE bs == Fs!BurstsAt(p)
                 cur == IF bs = << >> THEN Fs!Recorded(Fs!NodeOf(p))
                        ELSE Fs!Last(Fs!CloseRecs(bs)).val
                 e == Fs!FileTruncate(Fs!NodeOf(p), Fs!Truncated(cur, n))
      <4>1. Fs!Acts(Append(Fs!CloseRecs(bs), e))
        BY <3>1 DEF Fs!Truncate
      <4>2. IsSeq(bs) /\ e.op # "FILE-LOCK"
        BY Taken, OpsLockNothing
      <4> HIDE DEF e, bs
      <4> QED BY <4>1, <4>2, QuietSeqs
    <3>2. ASSUME NEW p, NEW trunc, Fs!Open(p, trunc) PROVE \E es : Quiet(es) /\ Fs!Acts(es)
      <4> DEFINE e == Fs!FileTruncate(served.names[p], Empty)
      <4>1. Fs!Acts(IF trunc THEN <<e>> ELSE << >>)
        BY <3>2 DEF Fs!Open
      <4>2. e.op # "FILE-LOCK"
        BY OpsLockNothing
      <4> HIDE DEF e
      <4> QED BY <4>1, <4>2, QuietSeqs
    <3>3. ASSUME NEW h, NEW offset, Fs!Write(h, offset) PROVE \E es : Quiet(es) /\ Fs!Acts(es)
      BY <3>3, QuietSeqs, Singles DEF Fs!Write
    <3>4. ASSUME NEW h, NEW o, Fs!Flush(h, o) PROVE \E es : Quiet(es) /\ Fs!Acts(es)
      <4>1. Fs!Acts(Fs!CloseRecs(Fs!BurstOf(h)) \o Fs!ReleaseLocks(handles[h].ino, o, 0, 0))
        BY <3>4 DEF Fs!Flush
      <4>2. Quiet(Fs!CloseRecs(Fs!BurstOf(h)))
        BY QuietSeqs, Taken
      <4>3. Quiet(Fs!ReleaseLocks(handles[h].ino, o, 0, 0))
        BY QuietRelease
      <4> QED BY <4>1, <4>2, <4>3, QuietJoin
    <3>5. ASSUME NEW h, Fs!Fsync(h) PROVE \E es : Quiet(es) /\ Fs!Acts(es)
      BY <3>5, QuietSeqs, Taken DEF Fs!Fsync
    <3>6. ASSUME NEW h, Fs!Release(h) PROVE \E es : Quiet(es) /\ Fs!Acts(es)
      BY <3>6, QuietSeqs, Taken DEF Fs!Release
    <3> QED BY <1>3, <3>1, <3>2, <3>3, <3>4, <3>5, <3>6 DEF Fs!ContentCalls
  <2> QED BY <2>1, QuietKeeps
<1>4. CASE Fs!LockCalls
  <2>1. ASSUME NEW h, NEW o, NEW s \in 0..1, NEW n \in 0..1, Fs!UnlockRange(h, o, s, n)
        PROVE  Locked'
    <3>1. Fs!Acts(Fs!ReleaseLocks(handles[h].ino, o, s, n))
      BY <2>1 DEF Fs!UnlockRange
    <3>2. Quiet(Fs!ReleaseLocks(handles[h].ino, o, s, n))
      BY QuietRelease
    <3> QED BY <3>1, <3>2, QuietKeeps
  <2>2. ASSUME NEW h, NEW o, NEW s \in 0..1, NEW n \in 0..1, NEW lt \in {"read", "write"},
               Fs!LockRange(h, o, lt, s, n)
        PROVE  Locked'
    BY <2>2, RangeLocked
  <2> QED BY <1>4, <2>1, <2>2 DEF Fs!LockCalls
<1>5. CASE Fs!Brake
  BY <1>0, <1>5 DEF Fs!Brake
<1>6. CASE Fs!Remount
  <2>1. locks' = {}
    BY <1>6 DEF Fs!Remount
  <2> QED BY <2>1 DEF Locked
<1>7. CASE \E t \in 1..MaxRec : Fs!Recover(t)
  <2>1. PICK e : e.op # "FILE-LOCK" /\ Fs!Acts(<<e>>)
    BY <1>7, OpsLockNothing DEF Fs!Recover
  <2> QED BY <2>1, QuietKeeps, QuietSeqs
<1>8. CASE UNCHANGED Fs!vars
  BY <1>0, <1>8 DEF Fs!vars
<1>9. CASE Fs!FailedCall
  <2>1. PICK done : IsSeq(done) /\ Fs!Acts(Fs!CloseRecs(done))
    BY <1>9, FailedIs DEF Failing
  <2> QED BY <2>1, QuietKeeps, QuietSeqs
<1> QED BY <1>1, <1>2, <1>3, <1>4, <1>5, <1>6, <1>7, <1>8, <1>9 DEF Fs!Next

(* No two processes hold one byte of a file unless both only read it,       *)
(* whatever was locked, unlocked in part and locked again, closed or        *)
(* recovered (RecordsFS.lock, _release_locks, custody.apply_lock_record).   *)
THEOREM LocksNeverConflict == Fs!Spec => []Fs!NoConflictingLocks
<1>1. Fs!Init => Locked
  BY DEF Fs!Init, Locked
<1>2. Locked => Fs!NoConflictingLocks
  <2> SUFFICES ASSUME Locked, NEW x \in locks, NEW y \in locks, x.ino = y.ino, x.owner # y.owner,
                      NEW i \in Fs!Covers(x) \cap Fs!Covers(y)
               PROVE  x.ltype = "read" /\ y.ltype = "read"
    BY DEF Fs!NoConflictingLocks
  <2>1. IsLock(x) /\ IsLock(y)
    BY DEF Locked
  <2>2. Meet(x, y)
    BY <2>1 DEF Meet, Fs!Overlaps, Fs!Covers, Fs!Bytes, IsLock
  <2> QED BY <2>2 DEF Locked
<1> QED BY <1>1, <1>2, NextLocked, AlwaysServing, PTL DEF Fs!Spec

-----------------------------------------------------------------------------
(* The bytes of a file                                                     *)

(* The state has its fields, and every content is a sequence of bytes.      *)
Shaped(s) ==
  /\ DOMAIN s = Fields /\ IsFiniteSet(DOMAIN s.names)
  /\ \A i \in DOMAIN s.inodes : DOMAIN s.inodes[i] = NodeFields /\ Len(s.inodes[i].content) \in Nat

LEMMA BindShape ==
  ASSUME NEW s, Shaped(s), NEW p, NEW i
  PROVE  Shaped(Seam!Bind(s, p, i))
<1> DEFINE prev == Seam!At(s.names, p, Seam!NoIno)
           t == IF prev = Seam!NoIno THEN s ELSE Seam!Forget(s, p, prev)
           u == Seam!Bind(s, p, i)
<1>1. DOMAIN t = Fields /\ t.names = s.names /\ t.inodes = s.inodes
  BY ForgetForgets DEF Shaped
<1>2. CASE prev = i
  BY <1>2 DEF Seam!Bind
<1>3. CASE prev # i
  <2> DEFINE a == Seam!With(t.names, p, i)
             b == Seam!With(t.paths, i, Seam!At(t.paths, i, {}) \cup {p})
             c == Seam!With(t.kids, Seam!parent_of(p),
                            Seam!At(t.kids, Seam!parent_of(p), {}) \cup {Seam!basename(p)})
  <2>1. u = [t EXCEPT !.names = a, !.paths = b, !.kids = c]
    BY <1>3 DEF Seam!Bind
  <2>2. DOMAIN a = DOMAIN s.names \cup {p}
    BY <1>1 DEF Seam!With
  <2> HIDE DEF t, a, b, c, u
  <2>3. DOMAIN u = Fields /\ u.names = a /\ u.inodes = s.inodes
    BY <1>1, <2>1 DEF Fields
  <2>4. IsFiniteSet(DOMAIN s.names \cup {p})
    BY FS_AddElement DEF Shaped
  <2>5. Shaped(u)
    BY <2>2, <2>3, <2>4 DEF Shaped
  <2> QED BY <2>5 DEF u
<1> QED BY <1>2, <1>3

LEMMA UnbindShape ==
  ASSUME NEW s, Shaped(s), NEW p
  PROVE  Shaped(Seam!Unbind(s, p))
<1> DEFINE u == Seam!Unbind(s, p)
<1>1. DOMAIN u = Fields /\ u.inodes = s.inodes /\ DOMAIN u.names = (DOMAIN s.names) \ {p}
  BY UnbindUnbinds DEF Shaped
<1>2. IsFiniteSet((DOMAIN s.names) \ {p})
  BY FS_Subset DEF Shaped
<1> QED BY <1>1, <1>2 DEF Shaped

LEMMA MoveShape ==
  ASSUME NEW s, Shaped(s), NEW p, NEW q
  PROVE  Shaped(Seam!Move(s, p, q))
BY UnbindShape, BindShape DEF Seam!Move

(* The fold by which a rename moves what is below the name.                 *)
Under(y, src, dst) == dst \o SubSeq(y, Len(src) + 1, Len(y))
Moved(a, y, src, dst) == Seam!Move(a, y, Under(y, src, dst))
One(S) == CHOOSE y \in S : TRUE

MovesIs(T, top, src, dst, g) ==
  g = [S \in SUBSET T |-> IF S = {} THEN top ELSE Moved(g[S \ {One(S)}], One(S), src, dst)]

LEMMA OneIs ==
  ASSUME NEW S, IsFiniteSet(S), S # {}
  PROVE  /\ One(S) \in S /\ IsFiniteSet(S \ {One(S)}) /\ Cardinality(S) \in Nat
         /\ Cardinality(S \ {One(S)}) = Cardinality(S) - 1
         /\ Cardinality(S \ {One(S)}) \in Nat
<1>1. One(S) \in S
  BY DEF One
<1> QED BY <1>1, FS_RemoveElement, FS_CardinalityType

LEMMA MovesAgree ==
  ASSUME NEW U, NEW V, IsFiniteSet(V), V \subseteq U, NEW top, NEW src, NEW dst,
         NEW g, NEW h, MovesIs(U, top, src, dst, g), MovesIs(V, top, src, dst, h)
  PROVE  \A S \in SUBSET V : g[S] = h[S]
<1> DEFINE D == {n \in Nat : \E S \in SUBSET V : Cardinality(S) = n /\ g[S] # h[S]}
<1> SUFFICES ASSUME NEW S0 \in SUBSET V, g[S0] # h[S0] PROVE FALSE
  OBVIOUS
<1>0. \A S \in SUBSET V : IsFiniteSet(S) /\ Cardinality(S) \in Nat
  BY FS_Subset, FS_CardinalityType
<1>1. D \subseteq Nat /\ D # {}
  BY <1>0
<1>2. PICK n \in D : \A m \in D : n <= m
  BY <1>1, LeastOf
<1>3. PICK S \in SUBSET V : Cardinality(S) = n /\ g[S] # h[S]
  BY <1>2
<1>4. /\ g[S] = IF S = {} THEN top ELSE Moved(g[S \ {One(S)}], One(S), src, dst)
      /\ h[S] = IF S = {} THEN top ELSE Moved(h[S \ {One(S)}], One(S), src, dst)
  BY DEF MovesIs
<1>5. S # {}
  BY <1>3, <1>4
<1>6. /\ S \ {One(S)} \in SUBSET V /\ Cardinality(S \ {One(S)}) \in Nat
      /\ ~ (n <= Cardinality(S \ {One(S)}))
  <2>1. /\ Cardinality(S) \in Nat /\ Cardinality(S \ {One(S)}) = Cardinality(S) - 1
        /\ Cardinality(S \ {One(S)}) \in Nat
    BY <1>0, <1>5, OneIs
  <2> QED BY <1>3, <2>1
<1>7. Cardinality(S \ {One(S)}) \notin D
  BY <1>2, <1>6
<1>8. g[S \ {One(S)}] = h[S \ {One(S)}]
  BY <1>6, <1>7
<1> QED BY <1>3, <1>4, <1>8

LEMMA SomeMoves ==
  ASSUME NEW T, IsFiniteSet(T), NEW top, NEW src, NEW dst
  PROVE  \E g : MovesIs(T, top, src, dst, g)
<1> DEFINE Has(U) == \E g : MovesIs(U, top, src, dst, g)
           D == {n \in Nat : \E U : IsFiniteSet(U) /\ Cardinality(U) = n /\ ~ Has(U)}
<1> SUFFICES ASSUME ~ Has(T) PROVE FALSE
  OBVIOUS
<1>1. D \subseteq Nat /\ D # {}
  <2>1. Cardinality(T) \in Nat
    BY FS_CardinalityType
  <2>2. Cardinality(T) \in D
    BY <2>1
  <2> QED BY <2>2
<1>2. PICK n \in D : \A m \in D : n <= m
  BY <1>1, LeastOf
<1>3. PICK U : IsFiniteSet(U) /\ Cardinality(U) = n /\ ~ Has(U)
  BY <1>2
<1>4. ASSUME NEW S \in SUBSET U, S # U PROVE IsFiniteSet(S) /\ Has(S)
  <2>1. IsFiniteSet(S) /\ Cardinality(S) \in Nat /\ Cardinality(U) \in Nat
        /\ Cardinality(S) <= Cardinality(U) /\ Cardinality(S) # Cardinality(U)
    BY <1>3, <1>4, FS_Subset, FS_CardinalityType
  <2>2. ~ (n <= Cardinality(S))
    BY <1>3, <2>1
  <2>3. Cardinality(S) \notin D
    BY <1>2, <2>2
  <2> QED BY <2>1, <2>3
<1> DEFINE sol(S) == CHOOSE h : MovesIs(S, top, src, dst, h)
           g == [S \in SUBSET U |->
                   IF S = {} THEN top
                   ELSE Moved(sol(S \ {One(S)})[S \ {One(S)}], One(S), src, dst)]
<1>5. \A S \in SUBSET U : S # U => IsFiniteSet(S) /\ MovesIs(S, top, src, dst, sol(S))
  BY <1>4
<1>6. \A S \in SUBSET U : IsFiniteSet(S)
  BY <1>3, FS_Subset
<1> HIDE DEF sol, D, Has
<1>7. ASSUME NEW S \in SUBSET U, S # U PROVE g[S] = sol(S)[S]
  <2>1. MovesIs(S, top, src, dst, sol(S))
    BY <1>5, <1>7
  <2>2. sol(S)[S] = IF S = {} THEN top ELSE Moved(sol(S)[S \ {One(S)}], One(S), src, dst)
    <3>1. S \in SUBSET S
      OBVIOUS
    <3> QED BY <2>1, <3>1 DEF MovesIs
  <2>3. CASE S = {}
    BY <2>2, <2>3
  <2>4. CASE S # {}
    <3> DEFINE V == S \ {One(S)}
    <3>1. One(S) \in S
      BY <2>4 DEF One
    <3>2. V \in SUBSET U /\ V # U /\ V \subseteq S /\ V \in SUBSET V
      BY <3>1
    <3>3. IsFiniteSet(V) /\ MovesIs(V, top, src, dst, sol(V))
      BY <1>5, <3>2
    <3> HIDE DEF V
    <3>4. sol(S)[V] = sol(V)[V]
      BY <2>1, <3>2, <3>3, MovesAgree
    <3>5. g[S] = Moved(sol(V)[V], One(S), src, dst)
      BY <2>4 DEF V
    <3> QED BY <2>2, <2>4, <3>4, <3>5 DEF V
  <2> QED BY <2>3, <2>4
<1>8. \A S \in SUBSET U : S # {} =>
        S \ {One(S)} \in SUBSET U /\ g[S \ {One(S)}] = sol(S \ {One(S)})[S \ {One(S)}]
  <2> TAKE S \in SUBSET U
  <2> HAVE S # {}
  <2>1. One(S) \in S
    BY DEF One
  <2>2. S \ {One(S)} \in SUBSET U /\ S \ {One(S)} # U
    BY <2>1
  <2> HIDE DEF g
  <2> QED BY <1>7, <2>2
<1>9. \A S \in SUBSET U : g[S] = IF S = {} THEN top ELSE Moved(g[S \ {One(S)}], One(S), src, dst)
  <2> TAKE S \in SUBSET U
  <2>1. CASE S = {}
    BY <2>1
  <2>2. CASE S # {}
    <3>1. g[S] = Moved(sol(S \ {One(S)})[S \ {One(S)}], One(S), src, dst)
      BY <2>2
    <3> HIDE DEF g
    <3> QED BY <1>8, <2>2, <3>1
  <2> QED BY <2>1, <2>2
<1>10. g = [S \in SUBSET U |-> g[S]]
  OBVIOUS
<1> HIDE DEF g
<1>11. g = [S \in SUBSET U |-> IF S = {} THEN top ELSE Moved(g[S \ {One(S)}], One(S), src, dst)]
  BY <1>9, <1>10
<1>12. MovesIs(U, top, src, dst, g)
  BY <1>11 DEF MovesIs
<1> QED BY <1>3, <1>12 DEF Has

LEMMA RenameIs ==
  ASSUME NEW s, NEW src, NEW dst, IsFiniteSet(Seam!Below(Seam!Move(s, src, dst).names, src))
  PROVE  \E g : LET top == Seam!Move(s, src, dst)
                    T   == Seam!Below(top.names, src)
                IN  MovesIs(T, top, src, dst, g) /\ Seam!Rename(s, src, dst) = g[T]
<1> DEFINE top == Seam!Move(s, src, dst)
           T == Seam!Below(top.names, src)
           g == CHOOSE h : MovesIs(T, top, src, dst, h)
<1>1. MovesIs(T, top, src, dst, g)
  BY SomeMoves
<1>2. Seam!Rename(s, src, dst) = g[T]
  BY DEF Seam!Rename, Seam!FoldSet, Seam!MapThenFoldSet, MovesIs, Moved, Under, One
<1> QED BY <1>1, <1>2

LEMMA RenameShape ==
  ASSUME NEW s, Shaped(s), NEW src, NEW dst
  PROVE  Shaped(Seam!Rename(s, src, dst))
<1> DEFINE top == Seam!Move(s, src, dst)
           T == Seam!Below(top.names, src)
<1>1. Shaped(top)
  BY MoveShape
<1> HIDE DEF top
<1>2. IsFiniteSet(T)
  <2>1. T \subseteq DOMAIN top.names
    BY DEF Seam!Below
  <2> QED BY <1>1, <2>1, FS_Subset DEF Shaped
<1>3. PICK g : MovesIs(T, top, src, dst, g) /\ Seam!Rename(s, src, dst) = g[T]
  BY <1>2, RenameIs DEF top
<1> HIDE DEF T
<1>4. \A S \in SUBSET T : g[S] = IF S = {} THEN top ELSE Moved(g[S \ {One(S)}], One(S), src, dst)
  BY <1>3 DEF MovesIs
<1>5. \A S \in SUBSET T : IsFiniteSet(S) /\ Cardinality(S) \in Nat
  BY <1>2, FS_Subset, FS_CardinalityType
<1> DEFINE D == {n \in Nat : \E S \in SUBSET T : Cardinality(S) = n /\ ~ Shaped(g[S])}
<1>6. D = {}
  <2> SUFFICES ASSUME D # {} PROVE FALSE
    OBVIOUS
  <2>0. D \subseteq Nat
    OBVIOUS
  <2>1. PICK n \in D : \A m \in D : n <= m
    BY <2>0, LeastOf
  <2>2. PICK S \in SUBSET T : Cardinality(S) = n /\ ~ Shaped(g[S])
    BY <2>1
  <2>3. S # {}
    BY <1>1, <1>4, <2>2
  <2>4. /\ Cardinality(S) \in Nat /\ Cardinality(S \ {One(S)}) = Cardinality(S) - 1
        /\ Cardinality(S \ {One(S)}) \in Nat
    BY <1>5, <2>3, OneIs
  <2>5. S \ {One(S)} \in SUBSET T /\ ~ (n <= Cardinality(S \ {One(S)}))
    BY <2>2, <2>4
  <2>6. Cardinality(S \ {One(S)}) \notin D
    BY <2>1, <2>5
  <2>7. Shaped(g[S \ {One(S)}])
    BY <2>4, <2>5, <2>6
  <2>8. Shaped(g[S])
    BY <1>4, <2>3, <2>7, MoveShape DEF Moved
  <2> QED BY <2>2, <2>8
<1>7. T \in SUBSET T
  OBVIOUS
<1> QED BY <1>3, <1>5, <1>6, <1>7

LEMMA ApplyShape ==
  ASSUME Len(Empty) \in Nat, NEW s, Shaped(s), NEW e, NEW n,
         e.op \in {"FILE-WRITE", "FILE-TRUNCATE"} => Len(e.val) \in Nat
  PROVE  Shaped(Seam!Apply(s, e, n))
<1> DEFINE i == Seam!Node(s, e)
           u == Seam!Apply(s, e, n)
<1>1. CASE e.op \in Seam!Minting
  <2> DEFINE t == [s EXCEPT !.inodes = Seam!With(@, Seam!FormalName(n), Seam!NewNode(e, n))]
             new == Seam!NewNode(e, n)
             f == Seam!FormalName(n)
  <2>1. u = Seam!Bind(t, e.path, Seam!FormalName(n))
    BY <1>1 DEF Seam!Apply, Seam!Minting, Seam!AttrOps
  <2>2. DOMAIN new = NodeFields /\ new.content = Empty
    BY DEF Seam!NewNode, NodeFields
  <2> HIDE DEF new, f
  <2>3. /\ DOMAIN t = Fields /\ t.names = s.names
        /\ t.inodes = [x \in DOMAIN s.inodes \cup {f} |-> IF x = f THEN new ELSE s.inodes[x]]
    BY DEF Shaped, Fields, Seam!With, new, f
  <2> HIDE DEF t
  <2>4. Shaped(t)
    BY <2>2, <2>3 DEF Shaped
  <2> QED BY <2>1, <2>4, BindShape
<1>2. CASE e.op = "FILE-LINK" /\ u # s
  BY <1>2, BindShape DEF Seam!Apply, Seam!Minting, Seam!AttrOps
<1>3. CASE e.op \in {"FILE-UNLINK", "FILE-RMDIR"}
  BY <1>3, UnbindShape DEF Seam!Apply, Seam!Minting, Seam!AttrOps
<1>4. CASE e.op = "FILE-RENAME" /\ u # s
  BY <1>4, RenameShape DEF Seam!Apply, Seam!Minting, Seam!AttrOps
<1>5. CASE /\ e.op \notin Seam!Minting \cup {"FILE-UNLINK", "FILE-RMDIR", "FILE-LINK", "FILE-RENAME"}
           /\ u # s
  <2>1. i # 0 /\ i \in DOMAIN s.inodes
        /\ \E v : \/ Len(v) \in Nat /\ u = [s EXCEPT !.inodes[i].content = v]
                  \/ u = [s EXCEPT !.inodes[i].owner = v]
                  \/ u = [s EXCEPT !.inodes[i].attr = v]
    <3>0. i = 0 \/ i \in DOMAIN s.inodes
      BY DEF Seam!Node, Seam!NoIno
    <3>1. CASE e.op \in {"FILE-WRITE", "FILE-TRUNCATE"} /\ i # 0
      <4>1. u = [s EXCEPT !.inodes[i].content = e.val]
        BY <3>1 DEF Seam!Apply, Seam!Minting, Seam!NoIno, Seam!AttrOps
      <4> QED BY <3>0, <3>1, <4>1
    <3>2. CASE e.op = "FILE-CHOWN" /\ i # 0
      <4>1. u = [s EXCEPT !.inodes[i].owner = e.val]
        BY <3>2 DEF Seam!Apply, Seam!Minting, Seam!NoIno
      <4> QED BY <3>0, <3>2, <4>1
    <3>3. CASE e.op \in Seam!AttrOps \ {"FILE-CHOWN"} /\ i # 0
      <4>1. u = [s EXCEPT !.inodes[i].attr = e.val]
        BY <3>3 DEF Seam!Apply, Seam!Minting, Seam!NoIno, Seam!AttrOps
      <4> QED BY <3>0, <3>3, <4>1
    <3>4. CASE i = 0 \/ (e.op \notin {"FILE-WRITE", "FILE-TRUNCATE", "FILE-CHOWN"} /\ e.op \notin Seam!AttrOps)
      <4>1. u = s
        BY <1>5, <3>4 DEF Seam!Apply, Seam!Minting, Seam!NoIno
      <4> QED BY <1>5, <4>1
    <3> QED BY <3>1, <3>2, <3>3, <3>4
  <2> HIDE DEF i, u
  <2>2. PICK v : \/ Len(v) \in Nat /\ u = [s EXCEPT !.inodes[i].content = v]
                 \/ u = [s EXCEPT !.inodes[i].owner = v]
                 \/ u = [s EXCEPT !.inodes[i].attr = v]
    BY <2>1
  <2> DEFINE N == [s.inodes[i] EXCEPT !.content = v]
             O == [s.inodes[i] EXCEPT !.owner = v]
             A == [s.inodes[i] EXCEPT !.attr = v]
  <2>3. DOMAIN s.inodes[i] = NodeFields /\ Len(s.inodes[i].content) \in Nat
    BY <2>1 DEF Shaped
  <2>4. /\ DOMAIN N = NodeFields /\ (Len(v) \in Nat => Len(N.content) \in Nat)
        /\ DOMAIN O = NodeFields /\ Len(O.content) \in Nat
        /\ DOMAIN A = NodeFields /\ Len(A.content) \in Nat
    BY <2>3 DEF NodeFields
  <2>5. \/ Len(v) \in Nat /\ u = [s EXCEPT !.inodes = [@ EXCEPT ![i] = N]]
        \/ u = [s EXCEPT !.inodes = [@ EXCEPT ![i] = O]]
        \/ u = [s EXCEPT !.inodes = [@ EXCEPT ![i] = A]]
    BY <2>2
  <2> HIDE DEF N, O, A
  <2>6. PICK x : /\ DOMAIN x = NodeFields /\ Len(x.content) \in Nat
                 /\ u = [s EXCEPT !.inodes = [@ EXCEPT ![i] = x]]
    BY <2>4, <2>5
  <2>7. DOMAIN u = Fields /\ u.names = s.names /\ u.inodes = [s.inodes EXCEPT ![i] = x]
    BY <2>6 DEF Shaped, Fields
  <2>8. Shaped(u)
    BY <2>6, <2>7 DEF Shaped
  <2> QED BY <2>8 DEF u
<1>6. CASE u = s
  BY <1>6
<1> QED BY <1>1, <1>2, <1>3, <1>4, <1>5, <1>6

(* Records that write or cut a file carry its bytes.                        *)
Carrying(r) ==
  \A n \in 1..Len(r) : r[n].op \in {"FILE-WRITE", "FILE-TRUNCATE"} => Len(r[n].val) \in Nat

LEMMA FoldShape ==
  ASSUME Len(Empty) \in Nat, NEW r, Len(r) \in Nat, Carrying(r)
  PROVE  Shaped(Fs!Fold(r))
<1> DEFINE n == Len(r)
<1>1. PICK s : FoldIs(r, n, s) /\ Seam!Fold(r) = s[n]
  BY FoldAre
<1>2. \A k \in 0..n : s[k] = IF k = 0 THEN Seam!EmptyState
        ELSE IF SkippedIn(r, k) THEN s[k - 1] ELSE Seam!Apply(s[k - 1], r[k], k)
  BY <1>1 DEF FoldIs
<1>3. Shaped(Seam!EmptyState)
  <2>1. IsFiniteSet({Seam!Root})
    BY FS_Singleton
  <2> QED BY <2>1 DEF Shaped, Seam!EmptyState, Fields, NodeFields
<1> DEFINE D == {k \in 0..n : ~ Shaped(s[k])}
<1>4. D = {}
  <2> SUFFICES ASSUME D # {} PROVE FALSE
    OBVIOUS
  <2>0. D \subseteq Nat
    OBVIOUS
  <2>1. PICK k \in D : \A m \in D : k <= m
    BY <2>0, LeastOf
  <2>2. k # 0
    BY <1>2, <1>3, <2>1
  <2>3. k \in 0..n /\ k \in 1..n /\ k - 1 \in 0..n /\ k - 1 \notin D
    BY <2>1, <2>2
  <2>4. Shaped(s[k - 1])
    BY <2>3
  <2>5. Shaped(Seam!Apply(s[k - 1], r[k], k))
    BY <2>3, <2>4, ApplyShape DEF Carrying
  <2> QED BY <1>2, <2>1, <2>2, <2>3, <2>4, <2>5
<1>5. Shaped(Seam!Fold(r))
  <2>1. n \in 0..n
    OBVIOUS
  <2> QED BY <1>1, <1>4, <2>1
<1> QED BY <1>5, SameFold

LEMMA TopOf ==
  ASSUME NEW n \in Nat, NEW S, S \subseteq 0..n, S # {}
  PROVE  Fs!Max(S) \in S /\ \A m \in S : m <= Fs!Max(S)
<1> DEFINE D == {n - k : k \in S}
<1>0. \A k \in S : k \in 0..n
  OBVIOUS
<1>1. D \subseteq Nat /\ D # {}
  <2>1. \A k \in S : n - k \in Nat
    BY <1>0
  <2> QED BY <2>1
<1>2. PICK d \in D : \A m \in D : d <= m
  BY <1>1, LeastOf
<1>3. PICK k \in S : d = n - k
  OBVIOUS
<1>4. \A m \in S : n - k <= n - m
  BY <1>2, <1>3
<1>5. \A m \in S : m \in Nat /\ m <= k
  BY <1>0, <1>3, <1>4
<1>6. Fs!Max(S) = k
  BY <1>3, <1>5, TopIs
<1> QED BY <1>3, <1>5, <1>6

LEMMA LeastOfTwo ==
  ASSUME NEW a \in Nat, NEW b \in Nat
  PROVE  /\ Fs!Min({a, b}) \in Nat /\ Fs!Min({a, b}) <= a /\ Fs!Min({a, b}) <= b
         /\ Fs!Min({a, b}) \in {a, b}
<1>1. \E x \in {a, b} : \A y \in {a, b} : x <= y
  OBVIOUS
<1>2. /\ Fs!Min({a, b}) \in {a, b}
      /\ \A y \in {a, b} : Fs!Min({a, b}) <= y
  BY <1>1, Zenon DEF Fs!Min
<1> QED BY <1>2

(* One burst per handle.                                                    *)
Distinct(q) == \A i, j \in 1..Len(q) : i # j => q[i].fh # q[j].fh

(* What is chosen is of the bursts, each of them that is to be, once.       *)
Picks(q, bs, n, chosen) ==
  /\ IsSeq(q)
  /\ \A j \in 1..Len(q) : \E m \in 1..n : q[j] = bs[m] /\ bs[m] \in chosen
  /\ \A m \in 1..n : bs[m] \in chosen => \E j \in 1..Len(q) : q[j] = bs[m]
  /\ Distinct(bs) => Distinct(q)

LEMMA WherePicks ==
  ASSUME NEW bs, IsSeq(bs), NEW chosen
  PROVE  Picks(Fs!Where(bs, chosen), bs, Len(bs), chosen)
<1>0. Len(bs) \in Nat
  BY DEF IsSeq
<1>1. PICK g : /\ g[0] = << >>
               /\ \A k \in 1..Len(bs) : g[k] = Chosen(g[k - 1], bs[k], chosen)
               /\ Fs!Where(bs, chosen) = g[Len(bs)]
  BY WhereSteps
<1>2. Picks(<< >>, bs, 0, chosen)
  BY Singles DEF Picks, Distinct
<1>3. ASSUME NEW k \in 1..Len(bs), NEW q, Picks(q, bs, k - 1, chosen)
      PROVE  Picks(Chosen(q, bs[k], chosen), bs, k, chosen)
  <2>0. /\ k \in 1..k /\ \A m \in 1..k : m \in 1..(k - 1) \/ m = k
        /\ \A m \in 1..(k - 1) : m \in 1..k /\ m # k /\ m \in 1..Len(bs)
    BY <1>0
  <2>1. CASE bs[k] \notin chosen
    BY <1>3, <2>0, <2>1 DEF Picks, Chosen
  <2>2. CASE bs[k] \in chosen
    <3> DEFINE r == Append(q, bs[k])
    <3>1. /\ IsSeq(r) /\ Len(q) \in Nat /\ Len(r) = Len(q) + 1
          /\ r[Len(q) + 1] = bs[k]
          /\ \A i \in 1..Len(q) : r[i] = q[i]
      BY <1>3, SeqGrows DEF Picks
    <3> HIDE DEF r
    <3>2. /\ Len(q) + 1 \in 1..Len(r) /\ \A i \in 1..Len(q) : i \in 1..Len(r)
          /\ \A i \in 1..Len(r) : i \in 1..Len(q) \/ i = Len(q) + 1
      BY <3>1
    <3>3. \A j \in 1..Len(r) : \E m \in 1..k : r[j] = bs[m] /\ bs[m] \in chosen
      <4> TAKE j \in 1..Len(r)
      <4>1. CASE j \in 1..Len(q)
        <5>1. PICK m \in 1..(k - 1) : q[j] = bs[m] /\ bs[m] \in chosen
          BY <1>3, <4>1 DEF Picks
        <5> QED BY <2>0, <3>1, <4>1, <5>1
      <4>2. CASE j = Len(q) + 1
        BY <2>0, <2>2, <3>1, <4>2
      <4> QED BY <3>2, <4>1, <4>2
    <3>4. \A m \in 1..k : bs[m] \in chosen => \E j \in 1..Len(r) : r[j] = bs[m]
      <4> TAKE m \in 1..k
      <4> HAVE bs[m] \in chosen
      <4>1. CASE m \in 1..(k - 1)
        <5>1. PICK j \in 1..Len(q) : q[j] = bs[m]
          BY <1>3, <4>1 DEF Picks
        <5> QED BY <3>1, <3>2, <5>1
      <4>2. CASE m = k
        BY <3>1, <3>2, <4>2
      <4> QED BY <2>0, <4>1, <4>2
    <3>5. Distinct(bs) => Distinct(r)
      <4> SUFFICES ASSUME Distinct(bs), NEW i \in 1..Len(r), NEW j \in 1..Len(r), i # j
                   PROVE  r[i].fh # r[j].fh
        BY DEF Distinct
      <4>1. \A a \in 1..Len(q) : q[a].fh # bs[k].fh
        <5> TAKE a \in 1..Len(q)
        <5>1. PICK m \in 1..(k - 1) : q[a] = bs[m]
          BY <1>3 DEF Picks
        <5> QED BY <2>0, <5>1 DEF Distinct
      <4>2. Distinct(q)
        BY <1>3 DEF Picks
      <4>3. CASE i \in 1..Len(q) /\ j \in 1..Len(q)
        BY <3>1, <4>2, <4>3 DEF Distinct
      <4>4. CASE i \in 1..Len(q) /\ j = Len(q) + 1
        BY <3>1, <4>1, <4>4
      <4>5. CASE i = Len(q) + 1 /\ j \in 1..Len(q)
        BY <3>1, <4>1, <4>5
      <4> QED BY <3>2, <4>3, <4>4, <4>5
    <3>6. Picks(r, bs, k, chosen)
      BY <3>1, <3>3, <3>4, <3>5 DEF Picks
    <3> QED BY <2>2, <3>6 DEF Chosen, r
  <2> QED BY <2>1, <2>2
<1> DEFINE D == {k \in 0..Len(bs) : ~ Picks(g[k], bs, k, chosen)}
<1>4. D = {}
  <2>1. D \subseteq 0..Len(bs) /\ 0 \notin D /\ \A k \in 1..Len(bs) : k \in D => k - 1 \in D
    BY <1>0, <1>1, <1>2, <1>3
  <2> HIDE DEF D
  <2> QED BY <1>0, <2>1, Climb
<1>5. Len(bs) \in 0..Len(bs)
  BY <1>0
<1> QED BY <1>1, <1>4, <1>5

BurstFields == {"fh", "bytes", "dirty", "wrote", "events", "ino", "path"}

(* What a handle wrote is in its buffer and in the ranges it dirtied, which *)
(* are those places and the gaps, if there may be any.                      *)
BurstOK(b) ==
  /\ DOMAIN b = BurstFields /\ Len(b.bytes) \in Nat
  /\ \E n \in Nat : b.dirty \subseteq 1..n
  /\ b.wrote \subseteq b.dirty /\ (Sparse \/ b.dirty = b.wrote)
  /\ \A i \in b.wrote : i <= Len(b.bytes) /\ b.bytes[i] = b.fh

LEMMA MergedIs ==
  ASSUME NEW b, BurstOK(b), NEW x, Len(x) \in Nat
  PROVE  LET m == Fs!Merged(x, b)
         IN  /\ Len(m) \in Nat
             /\ \A i \in b.wrote : Fs!Byte(m, i) = b.fh
             /\ \A i \in 1..Len(x) : i \notin b.dirty => Fs!Byte(m, i) = x[i]
<1> DEFINE top == Fs!Max({Len(x)} \cup b.dirty)
           m == Fs!Merged(x, b)
<1>1. PICK n \in Nat : b.dirty \subseteq 1..n
  BY DEF BurstOK
<1>2. top \in {Len(x)} \cup b.dirty /\ \A i \in {Len(x)} \cup b.dirty : i <= top
  <2> DEFINE S == {Len(x)} \cup b.dirty
  <2>1. S \subseteq 0..(n + Len(x)) /\ S # {} /\ n + Len(x) \in Nat
    BY <1>1
  <2> QED BY <2>1, TopOf
<1> HIDE DEF top
<1>3. top \in Nat /\ Len(x) <= top /\ \A i \in b.dirty : i \in 1..top
  <2>1. \A i \in b.dirty : i \in 1..n
    BY <1>1
  <2>2. top \in Nat
    BY <1>2, <2>1
  <2>3. Len(x) <= top
    BY <1>2
  <2>4. \A i \in b.dirty : i <= top
    BY <1>2
  <2>5. \A i \in b.dirty : i \in 1..top
    BY <2>1, <2>2, <2>4
  <2> QED BY <2>2, <2>3, <2>5
<1>4. m = [i \in 1..top |-> IF i \in b.dirty THEN Fs!Byte(b.bytes, i) ELSE Fs!Byte(x, i)]
  BY DEF Fs!Merged, top
<1> HIDE DEF m
<1>5. Len(m) = top
  BY <1>3, <1>4
<1>6. \A i \in 1..top : Fs!Byte(m, i) = IF i \in b.dirty THEN Fs!Byte(b.bytes, i) ELSE Fs!Byte(x, i)
  BY <1>3, <1>4, <1>5 DEF Fs!Byte
<1>7. \A i \in b.wrote : i \in 1..top /\ Fs!Byte(b.bytes, i) = b.fh
  BY <1>3 DEF BurstOK, Fs!Byte
<1>8. \A i \in 1..Len(x) : i \in 1..top /\ Fs!Byte(x, i) = x[i]
  BY <1>3 DEF Fs!Byte
<1>9. \A i \in b.wrote : i \in b.dirty
  BY DEF BurstOK
<1> QED BY <1>3, <1>5, <1>6, <1>7, <1>8, <1>9 DEF m

(* Every burst is closed by a record of its own.                            *)
ClosedAs(e, b) ==
  \E x : Len(x) \in Nat /\ e = Fs!FileWrite(b.ino, Fs!Merged(x, b))

LEMMA ClosesAre ==
  ASSUME Shaped(served), Len(Empty) \in Nat, NEW bs, IsSeq(bs), \A k \in 1..Len(bs) : BurstOK(bs[k])
  PROVE  /\ IsSeq(Fs!CloseRecs(bs)) /\ Len(Fs!CloseRecs(bs)) = Len(bs)
         /\ \A k \in 1..Len(bs) : ClosedAs(Fs!CloseRecs(bs)[k], bs[k])
         /\ Len(bs) # 0 => /\ Len(Fs!Recorded(bs[1].ino)) \in Nat
                           /\ Fs!CloseRecs(bs)[1] =
                              Fs!FileWrite(bs[1].ino, Fs!Merged(Fs!Recorded(bs[1].ino), bs[1]))
<1>0. Len(bs) \in Nat
  BY DEF IsSeq
<1>1. PICK g : /\ g[0] = << >>
               /\ \A k \in 1..Len(bs) : g[k] = Closed(g[k - 1], bs[k])
               /\ Fs!CloseRecs(bs) = g[Len(bs)]
  BY ClosesSteps
<1>2. \A i : Len(Fs!Recorded(i)) \in Nat
  BY DEF Fs!Recorded, Shaped
<1> DEFINE Good(k) == /\ IsSeq(g[k]) /\ Len(g[k]) = k
                      /\ \A m \in 1..k : ClosedAs(g[k][m], bs[m])
                      /\ k # 0 => g[k][1] =
                           Fs!FileWrite(bs[1].ino, Fs!Merged(Fs!Recorded(bs[1].ino), bs[1]))
<1>3. Good(0)
  BY <1>1, Singles
<1>4. ASSUME NEW k \in 1..Len(bs), Good(k - 1) PROVE Good(k)
  <2> DEFINE done == g[k - 1]
             b == bs[k]
             earlier == {m \in 1..Len(done) : done[m].ino = b.ino}
             base == IF b.ino \notin DOMAIN served.inodes THEN Empty
                     ELSE IF earlier = {} THEN Fs!Recorded(b.ino) ELSE done[Fs!Max(earlier)].val
             e == Fs!FileWrite(b.ino, Fs!Merged(base, b))
  <2>0. Len(done) = k - 1 /\ k - 1 \in Nat /\ IsSeq(done)
    BY <1>0, <1>4
  <2>1. g[k] = Append(done, e)
    BY <1>1 DEF Closed
  <2>2. Len(base) \in Nat
    <3>1. CASE b.ino \in DOMAIN served.inodes /\ earlier # {}
      <4>1. earlier \subseteq 0..(k - 1)
        BY <2>0
      <4> HIDE DEF earlier
      <4>2. Fs!Max(earlier) \in earlier
        BY <2>0, <3>1, <4>1, TopOf
      <4>3. Fs!Max(earlier) \in 1..(k - 1)
        BY <2>0, <4>2 DEF earlier
      <4>4. PICK x : Len(x) \in Nat /\ done[Fs!Max(earlier)] =
                Fs!FileWrite(bs[Fs!Max(earlier)].ino, Fs!Merged(x, bs[Fs!Max(earlier)]))
        BY <1>4, <4>3 DEF ClosedAs
      <4>5. done[Fs!Max(earlier)].val = Fs!Merged(x, bs[Fs!Max(earlier)])
        BY <4>4 DEF Fs!FileWrite, Fs!Rec
      <4>6. Fs!Max(earlier) \in 1..Len(bs)
        BY <1>0, <4>3
      <4>7. Len(Fs!Merged(x, bs[Fs!Max(earlier)])) \in Nat
        BY <4>4, <4>6, MergedIs
      <4> QED BY <3>1, <4>5, <4>7
    <3>2. CASE ~ (b.ino \in DOMAIN served.inodes /\ earlier # {})
      BY <1>2, <3>2
    <3> QED BY <3>1, <3>2
  <2>3. k = 1 => base = Fs!Recorded(b.ino)
    BY <2>0 DEF Fs!Recorded
  <2> HIDE DEF done, base
  <2>4. ClosedAs(e, b)
    BY <2>2 DEF ClosedAs
  <2> HIDE DEF b
  <2>5. k = 1 => e = Fs!FileWrite(b.ino, Fs!Merged(Fs!Recorded(b.ino), b))
    BY <2>3
  <2> HIDE DEF e
  <2>6. /\ IsSeq(g[k]) /\ Len(g[k]) = k /\ g[k][k] = e
        /\ \A m \in 1..(k - 1) : g[k][m] = done[m]
    <3>1. (k - 1) + 1 = k
      OBVIOUS
    <3> QED BY <2>0, <2>1, <3>1, SeqGrows
  <2>7. \A m \in 1..(k - 1) : ClosedAs(g[k][m], bs[m])
    BY <1>4, <2>6 DEF done
  <2>8. \A m \in 1..k : m \in 1..(k - 1) \/ m = k
    OBVIOUS
  <2>9. \A m \in 1..k : ClosedAs(g[k][m], bs[m])
    BY <2>4, <2>6, <2>7, <2>8 DEF b
  <2>10. g[k][1] = Fs!FileWrite(bs[1].ino, Fs!Merged(Fs!Recorded(bs[1].ino), bs[1]))
    <3>1. CASE k = 1
      BY <2>5, <2>6, <3>1 DEF b
    <3>2. CASE k # 1
      <4>1. 1 \in 1..(k - 1) /\ k - 1 # 0
        BY <3>2
      <4> QED BY <1>4, <2>6, <4>1 DEF done
    <3> QED BY <3>1, <3>2
  <2> QED BY <2>6, <2>9, <2>10
<1> HIDE DEF Good
<1> DEFINE D == {k \in 0..Len(bs) : ~ Good(k)}
<1>5. D = {}
  <2>1. D \subseteq 0..Len(bs) /\ 0 \notin D /\ \A k \in 1..Len(bs) : k \in D => k - 1 \in D
    BY <1>0, <1>3, <1>4
  <2> HIDE DEF D
  <2> QED BY <1>0, <2>1, Climb
<1>6. Good(Len(bs))
  <2>1. Len(bs) \in 0..Len(bs)
    BY <1>0
  <2> QED BY <1>5, <2>1
<1> QED BY <1>1, <1>2, <1>6 DEF Good

(* The acts of a call are the records that come next.                       *)
LEMMA ActsAreNext ==
  ASSUME IsSeq(rec), NEW es, IsSeq(es), Fs!Acts(es)
  PROVE  /\ Len(rec) \in Nat /\ Len(es) \in Nat /\ Len(rec') = Len(rec) + Len(es)
         /\ \A n \in 1..Len(rec) : rec'[n] = rec[n]
         /\ \A k \in 1..Len(es) : rec'[Len(rec) + k] = es[k]
<1>0. Len(es) \in Nat /\ Len(rec) \in Nat
  BY DEF IsSeq
<1>1. PICK g : /\ g[0] = Before
               /\ \A k \in 1..Len(es) : g[k] = Acted(g[k - 1], es[k])
               /\ Fs!AppendAll(es) = g[Len(es)]
  BY ActsSteps
<1> DEFINE Good(k) == /\ IsSeq(g[k].rec) /\ Len(g[k].rec) = Len(rec) + k
                      /\ \A n \in 1..Len(rec) : g[k].rec[n] = rec[n]
                      /\ \A m \in 1..k : g[k].rec[Len(rec) + m] = es[m]
<1>2. Good(0)
  BY <1>0, <1>1 DEF Before
<1>3. ASSUME NEW k \in 1..Len(es), Good(k - 1) PROVE Good(k)
  <2> DEFINE r == g[k - 1].rec
             q == g[k].rec
  <2>1. q = Append(r, es[k])
    <3>1. \A a, e : Acted(a, e).rec = Append(a.rec, e)
      BY DEF Acted
    <3> QED BY <1>1, <3>1
  <2>2. IsSeq(r) /\ Len(r) = Len(rec) + (k - 1)
    BY <1>3
  <2> HIDE DEF q
  <2>3. /\ IsSeq(q) /\ Len(q) = Len(r) + 1 /\ q[Len(r) + 1] = es[k]
        /\ \A n \in 1..Len(r) : q[n] = r[n]
    BY <2>1, <2>2, SeqGrows
  <2>4. /\ \A n \in 1..Len(rec) : n \in 1..Len(r)
        /\ \A m \in 1..(k - 1) : Len(rec) + m \in 1..Len(r)
        /\ Len(r) + 1 = Len(rec) + k
        /\ \A m \in 1..k : m \in 1..(k - 1) \/ m = k
    BY <1>0, <2>2
  <2>5. /\ \A n \in 1..Len(rec) : r[n] = rec[n]
        /\ \A m \in 1..(k - 1) : r[Len(rec) + m] = es[m]
    BY <1>3
  <2> HIDE DEF r
  <2>6. /\ \A n \in 1..Len(rec) : q[n] = rec[n]
        /\ \A m \in 1..(k - 1) : q[Len(rec) + m] = es[m]
    BY <2>3, <2>4, <2>5
  <2>7. q[Len(rec) + k] = es[k]
    BY <2>3, <2>4
  <2>8. \A m \in 1..k : q[Len(rec) + m] = es[m]
    BY <2>4, <2>6, <2>7
  <2> QED BY <2>3, <2>4, <2>6, <2>8 DEF q
<1> HIDE DEF Good
<1> DEFINE D == {k \in 0..Len(es) : ~ Good(k)}
<1>5. D = {}
  <2>1. D \subseteq 0..Len(es) /\ 0 \notin D /\ \A k \in 1..Len(es) : k \in D => k - 1 \in D
    BY <1>0, <1>2, <1>3
  <2> HIDE DEF D
  <2> QED BY <1>0, <2>1, Climb
<1>6. Good(Len(es))
  <2>1. Len(es) \in 0..Len(es)
    BY <1>0
  <2> QED BY <1>5, <2>1
<1>7. rec' = g[Len(es)].rec
  BY <1>1 DEF Fs!Acts
<1> QED BY <1>0, <1>6, <1>7 DEF Good

(* A call that closes bursts records them first.                            *)
Closing(q, bs) ==
  /\ IsSeq(q) /\ IsSeq(bs) /\ Len(bs) <= Len(q)
  /\ \A k \in 1..Len(bs) : q[k] = Fs!CloseRecs(bs)[k]
  /\ \A k \in 1..Len(q) : Len(bs) < k => Other(q[k])

(* The bytes of every record are a sequence, there is one burst to a handle *)
(* and what it holds is what it wrote.                                      *)
Bursting ==
  /\ Carrying(rec) /\ Distinct(bursts)
  /\ \A k \in 1..Len(bursts) : BurstOK(bursts[k])

LEMMA ServedShape ==
  ASSUME Len(Empty) \in Nat, Serving, Bursting
  PROVE  Shaped(served) /\ \A i : Len(Fs!Recorded(i)) \in Nat
<1>1. Len(rec) \in Nat
  BY DEF Serving, IsSeq
<1>2. Shaped(served)
  BY <1>1, FoldShape DEF Serving, Bursting
<1> QED BY <1>2 DEF Shaped, Fs!Recorded

LEMMA Closings ==
  ASSUME Len(Empty) \in Nat, Serving, Bursting, NEW bs, IsSeq(bs), \A k \in 1..Len(bs) : BurstOK(bs[k])
  PROVE  /\ Closing(Fs!CloseRecs(bs), bs)
         /\ \A e : Other(e) => Closing(Append(Fs!CloseRecs(bs), e), bs)
         /\ \A t : IsSeq(t) /\ (\A k \in 1..Len(t) : Other(t[k])) => Closing(Fs!CloseRecs(bs) \o t, bs)
<1> DEFINE c == Fs!CloseRecs(bs)
<1>1. IsSeq(c) /\ Len(c) = Len(bs) /\ Len(bs) \in Nat
  <2>1. Shaped(served)
    BY ServedShape
  <2> QED BY <2>1, ClosesAre DEF IsSeq
<1> HIDE DEF c
<1>2. Closing(c, bs)
  BY <1>1 DEF Closing, c
<1>3. ASSUME NEW e, Other(e) PROVE Closing(Append(c, e), bs)
  <2>1. /\ IsSeq(Append(c, e)) /\ Len(Append(c, e)) = Len(bs) + 1 /\ Append(c, e)[Len(bs) + 1] = e
        /\ \A i \in 1..Len(bs) : Append(c, e)[i] = c[i]
    BY <1>1, SeqGrows
  <2>2. \A k \in 1..(Len(bs) + 1) : Len(bs) < k => k = Len(bs) + 1
    BY <1>1
  <2>3. \A k \in 1..Len(Append(c, e)) : Len(bs) < k => Other(Append(c, e)[k])
    BY <1>3, <2>1, <2>2
  <2>4. Len(bs) <= Len(Append(c, e))
    BY <1>1, <2>1
  <2> QED BY <1>1, <2>1, <2>3, <2>4 DEF Closing, c
<1>4. ASSUME NEW t, IsSeq(t), \A k \in 1..Len(t) : Other(t[k]) PROVE Closing(c \o t, bs)
  <2>1. IsSeq(c \o t)
    BY <1>1, <1>4, JoinIsSeq
  <2>2. PICK S, T : c \in Seq(S) /\ t \in Seq(T)
    BY <1>1, <1>4 DEF IsSeq
  <2>3. c \in Seq(S \cup T) /\ t \in Seq(S \cup T)
    BY <2>2
  <2>4. /\ Len(t) \in Nat /\ Len(c \o t) = Len(bs) + Len(t)
        /\ \A k \in 1..(Len(bs) + Len(t)) : (c \o t)[k] = IF k <= Len(bs) THEN c[k] ELSE t[k - Len(bs)]
    BY <1>1, <2>3
  <2>5. Len(bs) <= Len(c \o t) /\ \A k \in 1..Len(bs) : k <= Len(bs) /\ k \in 1..(Len(bs) + Len(t))
    BY <1>1, <2>4
  <2>6. \A k \in 1..(Len(bs) + Len(t)) : Len(bs) < k => ~ (k <= Len(bs)) /\ k - Len(bs) \in 1..Len(t)
    BY <1>1, <2>4
  <2>7. \A k \in 1..Len(c \o t) : Len(bs) < k => Other((c \o t)[k])
    BY <1>4, <2>4, <2>6
  <2>8. \A k \in 1..Len(bs) : (c \o t)[k] = c[k]
    BY <2>4, <2>5
  <2> QED BY <1>1, <2>1, <2>5, <2>7, <2>8 DEF Closing, c
<1> QED BY <1>2, <1>3, <1>4 DEF c

LEMMA NoClosing ==
  Closing(<< >>, << >>) /\ \A e : Other(e) => Closing(<<e>>, << >>)
<1>1. IsSeq(<< >>) /\ (\A e : IsSeq(<<e>>)) /\ Len(<< >>) = 0
  BY Singles
<1> QED BY <1>1 DEF Closing

LEMMA ClosedIs ==
  ASSUME NEW b, BurstOK(b), NEW e, ClosedAs(e, b)
  PROVE  /\ e.op = "FILE-WRITE" /\ e.ino = b.ino /\ Len(e.val) \in Nat
         /\ \A i \in b.wrote : Fs!Byte(e.val, i) = b.fh
<1>1. PICK x : Len(x) \in Nat /\ e = Fs!FileWrite(b.ino, Fs!Merged(x, b))
  BY DEF ClosedAs
<1>2. e.op = "FILE-WRITE" /\ e.ino = b.ino /\ e.val = Fs!Merged(x, b)
  BY <1>1 DEF Fs!FileWrite, Fs!Rec
<1>3. /\ Len(Fs!Merged(x, b)) \in Nat
      /\ \A i \in b.wrote : Fs!Byte(Fs!Merged(x, b), i) = b.fh
  BY <1>1, MergedIs
<1> QED BY <1>2, <1>3

(* What the acts of a call record: the bursts it closes, and then the rest. *)
LEMMA ClosingActs ==
  ASSUME Len(Empty) \in Nat, Serving, Bursting, NEW q, NEW bs, Closing(q, bs), Fs!Acts(q),
         \A k \in 1..Len(bs) : BurstOK(bs[k])
  PROVE  /\ Carrying(rec') /\ Len(rec) \in Nat /\ Len(bs) \in Nat
         /\ Len(rec) + Len(bs) <= Len(rec')
         /\ \A k \in 1..Len(bs) : ClosedAs(rec'[Len(rec) + k], bs[k])
         /\ Len(rec') > Len(rec) /\ rec'[Len(rec) + 1].op = "FILE-WRITE" =>
              /\ 1 \in 1..Len(bs)
              /\ rec'[Len(rec) + 1] =
                   Fs!FileWrite(bs[1].ino, Fs!Merged(Fs!Recorded(bs[1].ino), bs[1]))
<1>1. /\ Len(rec) \in Nat /\ Len(q) \in Nat /\ Len(rec') = Len(rec) + Len(q)
      /\ \A n \in 1..Len(rec) : rec'[n] = rec[n]
      /\ \A k \in 1..Len(q) : rec'[Len(rec) + k] = q[k]
  BY ActsAreNext DEF Closing, Serving
<1>2. /\ \A k \in 1..Len(bs) : ClosedAs(Fs!CloseRecs(bs)[k], bs[k])
      /\ Len(bs) # 0 => Fs!CloseRecs(bs)[1] =
                        Fs!FileWrite(bs[1].ino, Fs!Merged(Fs!Recorded(bs[1].ino), bs[1]))
  <2>1. Shaped(served) /\ IsSeq(bs)
    BY ServedShape DEF Closing
  <2> QED BY <2>1, ClosesAre
<1>3. /\ Len(bs) \in Nat /\ Len(bs) <= Len(q)
      /\ \A k \in 1..Len(bs) : q[k] = Fs!CloseRecs(bs)[k]
      /\ \A k \in 1..Len(q) : Len(bs) < k => Other(q[k])
  BY DEF Closing, IsSeq
<1>4. \A k \in 1..Len(bs) : k \in 1..Len(q)
  BY <1>1, <1>3
<1>5. \A k \in 1..Len(bs) : ClosedAs(q[k], bs[k])
  BY <1>2, <1>3
<1>6. Carrying(rec')
  <2> SUFFICES ASSUME NEW n \in 1..Len(rec'), rec'[n].op \in {"FILE-WRITE", "FILE-TRUNCATE"}
               PROVE  Len(rec'[n].val) \in Nat
    BY DEF Carrying
  <2>1. CASE n \in 1..Len(rec)
    BY <1>1, <2>1 DEF Bursting, Carrying
  <2>2. CASE n \notin 1..Len(rec)
    <3> DEFINE k == n - Len(rec)
    <3>1. k \in 1..Len(q) /\ n = Len(rec) + k /\ (k \in 1..Len(bs) \/ Len(bs) < k)
      BY <1>1, <1>3, <2>2
    <3> HIDE DEF k
    <3>2. rec'[n] = q[k]
      BY <1>1, <3>1
    <3>3. CASE k \in 1..Len(bs)
      BY <1>5, <3>2, <3>3, ClosedIs
    <3>4. CASE Len(bs) < k
      BY <1>3, <3>1, <3>2, <3>4 DEF Other
    <3> QED BY <3>1, <3>3, <3>4
  <2> QED BY <2>1, <2>2
<1>7. \A k \in 1..Len(bs) : ClosedAs(rec'[Len(rec) + k], bs[k])
  BY <1>1, <1>4, <1>5
<1>8. ASSUME Len(rec') > Len(rec), rec'[Len(rec) + 1].op = "FILE-WRITE"
      PROVE  /\ 1 \in 1..Len(bs)
             /\ rec'[Len(rec) + 1] =
                  Fs!FileWrite(bs[1].ino, Fs!Merged(Fs!Recorded(bs[1].ino), bs[1]))
  <2>1. 1 \in 1..Len(q)
    BY <1>1, <1>8
  <2>2. rec'[Len(rec) + 1] = q[1]
    BY <1>1, <2>1
  <2>3. ~ (Len(bs) < 1)
    BY <1>3, <1>8, <2>1, <2>2 DEF Other
  <2>4. 1 \in 1..Len(bs) /\ Len(bs) # 0
    BY <1>3, <2>3
  <2> QED BY <1>2, <1>3, <2>2, <2>4
<1>9. Len(rec) + Len(bs) <= Len(rec')
  BY <1>1, <1>3
<1> QED BY <1>1, <1>3, <1>6, <1>7, <1>8, <1>9

(* A close over what is recorded leaves the bytes it did not write.         *)
LEMMA CloseKeeps ==
  ASSUME ~ Sparse, NEW b, BurstOK(b), NEW x, Len(x) \in Nat
  PROVE  LET m == Fs!Merged(x, b)
         IN  /\ \A i \in b.wrote : Fs!Byte(m, i) = b.fh
             /\ \A i \in 1..Len(x) : Fs!Byte(m, i) \in {x[i], b.fh}
<1>1. b.dirty = b.wrote
  BY DEF BurstOK
<1> QED BY <1>1, MergedIs

(* What a step does to the bursts.                                          *)
Goes ==
  /\ Bursting'
  /\ Fs!AcceptedBytesAreKeptStep
  /\ ~ Sparse => Fs!CommitKeepsOthersStep

LEMMA StayGoes ==
  ASSUME Len(Empty) \in Nat, Serving, Bursting, NEW q, Closing(q, << >>), Fs!Acts(q), bursts' = bursts
  PROVE  Goes
<1>1. Carrying(rec')
  <2>1. \A k \in 1..Len(<< >>) : BurstOK(<< >>[k])
    OBVIOUS
  <2> QED BY <2>1, ClosingActs
<1>2. Bursting'
  BY <1>1 DEF Bursting, Carrying, Distinct, BurstOK
<1>3. Fs!AcceptedBytesAreKeptStep
  BY DEF Fs!AcceptedBytesAreKeptStep, Fs!Kept
<1>4. Fs!CommitKeepsOthersStep
  BY DEF Fs!CommitKeepsOthersStep
<1> QED BY <1>2, <1>3, <1>4 DEF Goes

(* What a call closes: open bursts, or the one a write has grown.           *)
Spares(bs) ==
  /\ IsSeq(bs) /\ \A j \in 1..Len(bs) : BurstOK(bs[j])
  /\ Len(bs) = 1 \/ \A j \in 1..Len(bs) : \E m \in 1..Len(bursts) : bs[j] = bursts[m]
  /\ \A j \in 1..Len(bs), m \in 1..Len(bursts) :
       bs[j].fh = bursts[m].fh => bs[j].ino = bursts[m].ino /\ bursts[m].wrote \subseteq bs[j].wrote

LEMMA SparesFirst ==
  ASSUME NEW bs, Spares(bs), NEW n \in 0..Len(bs), NEW q, IsSeq(q), Len(q) = n,
         \A k \in 1..n : k \in 1..Len(bs) /\ q[k] = bs[k]
  PROVE  Spares(q)
<1>1. Len(bs) = 1 => n = 0 \/ n = 1
  OBVIOUS
<1>2. n = 0 => \A k \in 1..n : FALSE
  OBVIOUS
<1>3. Len(q) = 1 \/ \A j \in 1..Len(q) : \E m \in 1..Len(bursts) : q[j] = bursts[m]
  BY <1>1, <1>2 DEF Spares
<1>4. ASSUME NEW j \in 1..Len(q)
      PROVE  /\ BurstOK(q[j])
             /\ \A m \in 1..Len(bursts) : q[j].fh = bursts[m].fh =>
                  q[j].ino = bursts[m].ino /\ bursts[m].wrote \subseteq q[j].wrote
  <2>1. j \in 1..Len(bs) /\ q[j] = bs[j]
    OBVIOUS
  <2> QED BY <2>1 DEF Spares
<1> QED BY <1>3, <1>4 DEF Spares

LEMMA DropGoes ==
  ASSUME Len(Empty) \in Nat, Serving, Bursting, NEW gone, Spares(gone), NEW done, NEW q, Closing(q, done),
         \A k \in 1..Len(done) : k \in 1..Len(gone) /\ done[k] = gone[k],
         Len(done) = Len(gone) \/ (failed' /\ Len(done) + 1 = Len(gone)),
         Fs!Acts(q), Fs!DropBursts(gone)
  PROVE  Goes
<1> DEFINE others == {b \in Fs!ToSet(bursts) : \A k \in 1..Len(gone) : gone[k].fh # b.fh}
<1>1. Picks(bursts', bursts, Len(bursts), others)
  BY WherePicks DEF Fs!DropBursts, Serving
<1>2. IsSeq(gone) /\ Len(gone) \in Nat /\ Len(done) \in Nat
  BY DEF Spares, Closing, IsSeq
<1>3. \A k \in 1..Len(done) : BurstOK(done[k])
  BY DEF Spares
<1>4. /\ Carrying(rec') /\ Len(rec) \in Nat
      /\ Len(rec) + Len(done) <= Len(rec')
      /\ \A k \in 1..Len(done) : ClosedAs(rec'[Len(rec) + k], done[k])
      /\ Len(rec') > Len(rec) /\ rec'[Len(rec) + 1].op = "FILE-WRITE" =>
           /\ 1 \in 1..Len(done)
           /\ rec'[Len(rec) + 1] =
                Fs!FileWrite(done[1].ino, Fs!Merged(Fs!Recorded(done[1].ino), done[1]))
  BY <1>3, ClosingActs
<1>5. /\ Distinct(bursts')
      /\ \A j \in 1..Len(bursts') : \E m \in 1..Len(bursts) : bursts'[j] = bursts[m] /\ bursts[m] \in others
      /\ \A m \in 1..Len(bursts) : bursts[m] \in others => \E j \in 1..Len(bursts') : bursts'[j] = bursts[m]
  BY <1>1 DEF Picks, Bursting
<1>6. Bursting'
  <2>1. \A k \in 1..Len(bursts') : BurstOK(bursts'[k])
    BY <1>5 DEF Bursting
  <2> QED BY <1>4, <1>5, <2>1 DEF Bursting, Carrying, Distinct, BurstOK
<1>7. \A m \in 1..Len(bursts) : bursts[m] \notin others => \E k \in 1..Len(gone) : gone[k].fh = bursts[m].fh
  BY DEF Fs!ToSet
<1>0. \A m \in 1..Len(bursts), k \in 1..Len(gone) : gone[k].fh = bursts[m].fh => bursts[m] \notin others
  OBVIOUS
<1> HIDE DEF others
<1>8. Fs!AcceptedBytesAreKeptStep
  <2>1. ASSUME NEW m \in 1..Len(bursts), bursts[m] \in others PROVE Fs!Kept(bursts[m])
    BY <1>5, <2>1 DEF Fs!Kept
  <2>2. ASSUME NEW m \in 1..Len(bursts), NEW k \in 1..Len(done), done[k].fh = bursts[m].fh
        PROVE  Fs!Kept(bursts[m])
    <3>1. Len(rec) + k \in (Len(rec) + 1)..Len(rec')
      BY <1>2, <1>4
    <3>2. done[k].ino = bursts[m].ino /\ bursts[m].wrote \subseteq done[k].wrote
      BY <2>2 DEF Spares
    <3>3. LET e == rec'[Len(rec) + k]
          IN  /\ e.op = "FILE-WRITE" /\ e.ino = done[k].ino
              /\ \A i \in done[k].wrote : Fs!Byte(e.val, i) = done[k].fh
      BY <1>3, <1>4, ClosedIs
    <3> QED BY <2>2, <3>1, <3>2, <3>3 DEF Fs!Kept
  <2>3. ASSUME NEW m \in 1..Len(bursts), ~ Fs!Kept(bursts[m])
        PROVE  failed' /\ bursts[m].fh = gone[Len(gone)].fh
    <3>1. PICK k \in 1..Len(gone) : gone[k].fh = bursts[m].fh
      BY <1>7, <2>1, <2>3
    <3>2. k \notin 1..Len(done)
      BY <2>2, <2>3, <3>1
    <3>3. failed' /\ k = Len(gone)
      <4>1. Len(done) = Len(gone) \/ (failed' /\ Len(done) + 1 = Len(gone))
        OBVIOUS
      <4> QED BY <1>2, <3>2, <4>1
    <3> QED BY <3>1, <3>3
  <2>4. ASSUME NEW m \in 1..Len(bursts), ~ Fs!Kept(bursts[m]), NEW j \in (1..Len(bursts)) \ {m}
        PROVE  Fs!Kept(bursts[j])
    <3>1. bursts[j].fh # bursts[m].fh
      BY DEF Bursting, Distinct
    <3> QED BY <2>3, <2>4, <3>1
  <2> QED BY <2>3, <2>4, Zenon DEF Fs!AcceptedBytesAreKeptStep
<1>9. ASSUME ~ Sparse PROVE Fs!CommitKeepsOthersStep
  <2> SUFFICES ASSUME NEW k \in 1..Len(bursts),
                      Len(rec') > Len(rec), rec'[Len(rec) + 1].op = "FILE-WRITE",
                      \A j \in 1..Len(bursts') : bursts'[j].fh # bursts[k].fh,
                      \A j \in 1..Len(bursts) : j # k => \E i \in 1..Len(bursts') : bursts'[i] = bursts[j]
               PROVE  /\ \A i \in bursts[k].wrote : Fs!Byte(rec'[Len(rec) + 1].val, i) = bursts[k].fh
                      /\ \A i \in 1..Len(Fs!Recorded(bursts[k].ino)) :
                           Fs!Byte(rec'[Len(rec) + 1].val, i) \in
                             {Fs!Recorded(bursts[k].ino)[i], bursts[k].fh}
    BY DEF Fs!CommitKeepsOthersStep
  <2>1. 1 \in 1..Len(done) /\ 1 \in 1..Len(gone) /\ done[1] = gone[1]
    BY <1>4
  <2>2. gone[1].fh = bursts[k].fh
    <3>1. PICK j \in 1..Len(gone) : gone[j].fh = bursts[k].fh
      BY <1>5, <1>7
    <3>2. CASE Len(gone) = 1
      BY <3>1, <3>2
    <3>3. CASE Len(gone) # 1
      <4>1. PICK m \in 1..Len(bursts) : gone[1] = bursts[m]
        BY <2>1, <3>3 DEF Spares
      <4>2. bursts[m] \notin others
        BY <1>0, <2>1, <4>1
      <4>3. \A i \in 1..Len(bursts') : bursts'[i] # bursts[m]
        <5> SUFFICES ASSUME NEW i \in 1..Len(bursts'), bursts'[i] = bursts[m] PROVE FALSE
          OBVIOUS
        <5> QED BY <1>5, <4>2
      <4>4. m = k
        BY <4>3
      <4> QED BY <4>1, <4>4
    <3> QED BY <3>2, <3>3
  <2>3. gone[1].ino = bursts[k].ino /\ bursts[k].wrote \subseteq gone[1].wrote /\ BurstOK(gone[1])
    BY <2>1, <2>2 DEF Spares
  <2>5. rec'[Len(rec) + 1].val = Fs!Merged(Fs!Recorded(bursts[k].ino), gone[1])
    BY <1>4, <2>1, <2>3 DEF Fs!FileWrite, Fs!Rec
  <2>6. Len(Fs!Recorded(bursts[k].ino)) \in Nat
    BY ServedShape
  <2> DEFINE g == gone[1]
             old == Fs!Recorded(bursts[k].ino)
  <2> HIDE DEF g, old
  <2>7. /\ \A i \in g.wrote : Fs!Byte(Fs!Merged(old, g), i) = g.fh
        /\ \A i \in 1..Len(old) : Fs!Byte(Fs!Merged(old, g), i) \in {old[i], g.fh}
    BY <1>9, <2>3, <2>6, CloseKeeps DEF g, old
  <2> QED BY <2>2, <2>3, <2>5, <2>7 DEF g, old
<1> QED BY <1>6, <1>8, <1>9 DEF Goes

(* A write grows the burst of its handle, or begins one.                    *)
Grown(b, offset, n) ==
  [b EXCEPT !.bytes = Fs!Written(@, offset, b.fh), !.dirty = @ \cup Fs!Dirtied(b, offset),
            !.wrote = @ \cup {offset + 1}, !.events = n]

LEMMA WriteGrows ==
  ASSUME NEW b, BurstOK(b), NEW offset \in Nat, Sparse \/ offset <= Len(b.bytes), NEW n
  PROVE  LET new == Grown(b, offset, n)
         IN  BurstOK(new) /\ new.fh = b.fh /\ new.ino = b.ino /\ b.wrote \subseteq new.wrote
<1> DEFINE new == Grown(b, offset, n)
           more == Fs!Dirtied(b, offset)
           w == Fs!Written(b.bytes, offset, b.fh)
           top == Fs!Max({Len(b.bytes), offset + 1})
<1>1. /\ DOMAIN b = BurstFields /\ Len(b.bytes) \in Nat
      /\ b.wrote \subseteq b.dirty /\ (Sparse \/ b.dirty = b.wrote)
      /\ \A i \in b.wrote : i <= Len(b.bytes) /\ b.bytes[i] = b.fh
  BY DEF BurstOK
<1>2. PICK m \in Nat : b.dirty \subseteq 1..m
  BY DEF BurstOK
<1>3. top \in Nat /\ Len(b.bytes) <= top /\ offset + 1 <= top
  <2> DEFINE S == {Len(b.bytes), offset + 1}
  <2>1. S \subseteq 0..(Len(b.bytes) + offset + 1) /\ S # {} /\ Len(b.bytes) + offset + 1 \in Nat
    BY <1>1
  <2>2. top \in S /\ \A i \in S : i <= top
    BY <2>1, TopOf
  <2> QED BY <1>1, <2>2
<1>4. w = [i \in 1..top |-> IF i = offset + 1 THEN b.fh ELSE Fs!Byte(b.bytes, i)]
  BY DEF Fs!Written
<1>5. /\ offset + 1 \in more
      /\ \A i \in more : i \in Nat /\ 1 <= i /\ i <= offset + 1
      /\ Sparse \/ more = {offset + 1}
  <2>1. /\ Fs!Min({offset, Len(b.bytes)}) \in Nat /\ Fs!Min({offset, Len(b.bytes)}) <= offset
        /\ Fs!Min({offset, Len(b.bytes)}) \in {offset, Len(b.bytes)}
    BY <1>1, LeastOfTwo
  <2>2. more = (Fs!Min({offset, Len(b.bytes)}) + 1)..(offset + 1)
    BY DEF Fs!Dirtied
  <2>3. offset <= Len(b.bytes) => Fs!Min({offset, Len(b.bytes)}) = offset
    <3>1. Fs!Min({offset, Len(b.bytes)}) <= Len(b.bytes)
      BY <1>1, LeastOfTwo
    <3> QED BY <1>1, <2>1, <3>1
  <2>4. Sparse \/ more = {offset + 1}
    BY <2>1, <2>2, <2>3
  <2> DEFINE lo == Fs!Min({offset, Len(b.bytes)})
  <2>5. lo \in Nat /\ lo <= offset /\ more = (lo + 1)..(offset + 1)
    BY <2>1, <2>2
  <2> HIDE DEF lo, more
  <2>6. offset + 1 \in more /\ \A i \in more : i \in Nat /\ 1 <= i /\ i <= offset + 1
    BY <2>5
  <2> QED BY <2>4, <2>6
<1> HIDE DEF more, w, top
<1>6. /\ DOMAIN new = BurstFields /\ new.fh = b.fh /\ new.ino = b.ino
      /\ new.bytes = w /\ new.dirty = b.dirty \cup more /\ new.wrote = b.wrote \cup {offset + 1}
  BY <1>1 DEF Grown, BurstFields, more, w
<1> HIDE DEF new
<1>7. /\ Len(w) = top /\ w[offset + 1] = b.fh
      /\ \A i \in b.wrote : i <= Len(w) /\ w[i] = b.fh
  <2>1. Len(w) = top
    BY <1>3, <1>4
  <2>2. \A i \in b.wrote : i \in 1..m
    BY <1>1, <1>2
  <2>3. \A i \in b.wrote : i \in 1..top /\ i <= top /\ Fs!Byte(b.bytes, i) = b.fh
    BY <1>1, <1>3, <2>2 DEF Fs!Byte
  <2>4. offset + 1 \in 1..top
    BY <1>3
  <2> QED BY <1>4, <2>1, <2>3, <2>4
<1>8. new.dirty \subseteq 1..(m + offset + 1) /\ m + offset + 1 \in Nat
  <2>1. \A i \in b.dirty : i \in 1..(m + offset + 1)
    BY <1>2
  <2>2. \A i \in more : i \in 1..(m + offset + 1)
    BY <1>5
  <2> QED BY <1>6, <2>1, <2>2
<1>9. new.wrote \subseteq new.dirty /\ (Sparse \/ new.dirty = new.wrote)
  BY <1>1, <1>5, <1>6
<1>10. Len(new.bytes) \in Nat /\ \A i \in new.wrote : i <= Len(new.bytes) /\ new.bytes[i] = new.fh
  BY <1>3, <1>6, <1>7
<1>11. BurstOK(new)
  BY <1>6, <1>8, <1>9, <1>10 DEF BurstOK
<1> QED BY <1>6, <1>11 DEF new

(* The burst a handle has, if it has one.                                   *)
LEMMA OwnIs ==
  ASSUME Serving, Bursting, NEW h
  PROVE  LET own == Fs!BurstOf(h)
         IN  /\ IsSeq(own) /\ \A m \in 1..Len(bursts) : bursts[m].fh = h => own # << >> /\ bursts[m] = own[1]
             /\ own # << >> => /\ own[1].fh = h /\ BurstOK(own[1])
                               /\ \E m \in 1..Len(bursts) : own[1] = bursts[m]
<1> DEFINE own == Fs!BurstOf(h)
           mine == {b \in Fs!ToSet(bursts) : b.fh = h}
<1>1. Picks(own, bursts, Len(bursts), mine)
  BY WherePicks DEF Serving, Fs!BurstOf
<1>2. IsSeq(own) /\ Len(own) \in Nat /\ (own # << >> => 1 \in 1..Len(own))
  <2>1. PICK S : own \in Seq(S)
    BY <1>1 DEF Picks, IsSeq
  <2>2. Len(own) \in Nat /\ (own # << >> => Len(own) # 0)
    BY <2>1
  <2> QED BY <2>1, <2>2 DEF IsSeq
<1>3. \A j \in 1..Len(own) : \E m \in 1..Len(bursts) : own[j] = bursts[m] /\ bursts[m].fh = h
  BY <1>1 DEF Picks
<1>4. \A m \in 1..Len(bursts) : bursts[m] \in Fs!ToSet(bursts)
  BY DEF Fs!ToSet
<1>5. \A m \in 1..Len(bursts) : bursts[m].fh = h => \E j \in 1..Len(own) : own[j] = bursts[m]
  BY <1>1, <1>4 DEF Picks
<1> HIDE DEF own
<1>6. ASSUME NEW m \in 1..Len(bursts), bursts[m].fh = h PROVE own # << >> /\ bursts[m] = own[1]
  <2>1. PICK j \in 1..Len(own) : own[j] = bursts[m]
    BY <1>5, <1>6
  <2>2. own # << >>
    <3>1. own = << >> => Len(own) = 0
      OBVIOUS
    <3> QED BY <2>1, <3>1
  <2>3. PICK n \in 1..Len(bursts) : own[1] = bursts[n] /\ bursts[n].fh = h
    BY <1>2, <1>3, <2>2
  <2>4. n = m
    BY <1>6, <2>3 DEF Bursting, Distinct
  <2> QED BY <2>2, <2>3, <2>4
<1>7. own # << >> => /\ own[1].fh = h /\ BurstOK(own[1])
                     /\ \E m \in 1..Len(bursts) : own[1] = bursts[m]
  BY <1>2, <1>3 DEF Bursting
<1> QED BY <1>2, <1>6, <1>7 DEF own

(* What a write leaves its handle with is its burst, grown.                 *)
LEMMA WriteSpares ==
  ASSUME Len(Empty) \in Nat, Serving, Bursting, NEW h, NEW offset \in Nat, Fs!MayWrite(h, offset)
  PROVE  LET new == Fs!Grown(h, offset)
         IN  BurstOK(new) /\ new.fh = h /\ IsSeq(<<new>>) /\ Spares(<<new>>)
<1> DEFINE own == Fs!BurstOf(h)
           b == Fs!OwnBurst(h)
           new == Fs!Grown(h, offset)
<1>1. Sparse \/ offset <= Len(b.bytes)
  BY DEF Fs!MayWrite
<1>2. /\ \A m \in 1..Len(bursts) : bursts[m].fh = h => own # << >> /\ bursts[m] = own[1]
      /\ own # << >> => own[1].fh = h /\ BurstOK(own[1])
  BY OwnIs
<1>3. b.fh = h /\ BurstOK(b)
  <2>1. CASE own # << >>
    BY <1>2, <2>1 DEF Fs!OwnBurst
  <2>2. CASE own = << >>
    <3> DEFINE c == Fs!NewBurst(h, Fs!NodeOf(handles[h].path), handles[h].path)
    <3>1. Len(Fs!Recorded(Fs!NodeOf(handles[h].path))) \in Nat
      BY ServedShape
    <3>2. /\ DOMAIN c = BurstFields /\ c.fh = h /\ c.dirty = {} /\ c.wrote = {} /\ Len(c.bytes) \in Nat
      BY <3>1 DEF Fs!NewBurst, BurstFields
    <3>3. b = c
      BY <2>2 DEF Fs!OwnBurst
    <3> HIDE DEF c, b
    <3>4. {} \subseteq 1..0 /\ 0 \in Nat
      OBVIOUS
    <3>5. BurstOK(c)
      BY <3>2, <3>4 DEF BurstOK
    <3> QED BY <3>2, <3>3, <3>5
  <2> QED BY <2>1, <2>2
<1>5. \A m \in 1..Len(bursts) : bursts[m].fh = h => bursts[m] = b
  BY <1>2 DEF Fs!OwnBurst
<1>4. BurstOK(new) /\ new.fh = h /\ new.ino = b.ino /\ b.wrote \subseteq new.wrote
  <2>1. new = Grown(b, offset, Fs!Min({b.events + 1, MaxEvents}))
    BY <1>3 DEF Grown, Fs!Grown
  <2> HIDE DEF new, b
  <2>3. BurstOK(new) /\ new.fh = b.fh /\ new.ino = b.ino /\ b.wrote \subseteq new.wrote
    BY <1>1, <1>3, <2>1, WriteGrows
  <2> QED BY <1>3, <2>3
<1> HIDE DEF new, b, own
<1>6. IsSeq(<<new>>) /\ Len(<<new>>) = 1 /\ \A k \in 1..Len(<<new>>) : <<new>>[k] = new
  BY Singles
<1>7. Spares(<<new>>)
  BY <1>4, <1>5, <1>6 DEF Spares
<1> QED BY <1>4, <1>6, <1>7 DEF new

LEMMA WriteGoes ==
  ASSUME Len(Empty) \in Nat, Serving, Bursting, NEW h, NEW offset \in Nat, Fs!Write(h, offset)
  PROVE  Goes
<1> DEFINE own == Fs!BurstOf(h)
           new == Fs!Grown(h, offset)
           closes == Fs!IsFull(new) /\ Fs!Admits
<1>1. /\ Fs!MayWrite(h, offset)
      /\ Fs!Acts(IF closes THEN Fs!CloseRecs(<<new>>) ELSE << >>)
      /\ IF closes THEN Fs!DropBursts(<<new>>)
         ELSE bursts' = IF own = << >> THEN Append(bursts, new)
                        ELSE [k \in 1..Len(bursts) |-> IF bursts[k].fh = h THEN new ELSE bursts[k]]
  BY Zenon DEF Fs!Write
<1>4. BurstOK(new) /\ new.fh = h /\ IsSeq(<<new>>) /\ Spares(<<new>>)
  BY <1>1, WriteSpares
<1> HIDE DEF new, closes
<1>5. \A m \in 1..Len(bursts) : bursts[m].fh = h => own # << >> /\ bursts[m].wrote \subseteq new.wrote
  <2>1. 1 \in 1..Len(<<new>>) /\ <<new>>[1] = new
    OBVIOUS
  <2> QED BY <1>4, <2>1, OwnIs DEF Spares
<1> HIDE DEF own
<1>6. IsSeq(bursts) /\ Distinct(bursts) /\ Len(bursts) \in Nat /\ \A k \in 1..Len(bursts) : BurstOK(bursts[k])
  BY DEF Serving, Bursting, IsSeq
<1>7. CASE closes
  <2>1. \A k \in 1..Len(<<new>>) : BurstOK(<<new>>[k])
    BY <1>4
  <2>2. Closing(Fs!CloseRecs(<<new>>), <<new>>) /\ Fs!Acts(Fs!CloseRecs(<<new>>))
    BY <1>1, <1>4, <1>7, <2>1, Closings
  <2> QED BY <1>1, <1>4, <1>7, <2>2, DropGoes
<1>8. CASE ~ closes
  <2>1. Closing(<< >>, << >>) /\ Fs!Acts(<< >>)
    BY <1>1, <1>8, NoClosing
  <2>2. Carrying(rec') /\ Len(rec') = Len(rec) /\ Len(rec) \in Nat
    <3>1. \A k \in 1..Len(<< >>) : BurstOK(<< >>[k])
      OBVIOUS
    <3>2. Carrying(rec')
      BY <2>1, <3>1, ClosingActs
    <3>3. Len(rec) \in Nat /\ Len(rec') = Len(rec) + Len(<< >>)
      BY <2>1, ActsAreNext DEF Closing, Serving
    <3> QED BY <3>2, <3>3
  <2>3. /\ Distinct(bursts') /\ \A k \in 1..Len(bursts') : BurstOK(bursts'[k])
        /\ \A m \in 1..Len(bursts) : \E j \in 1..Len(bursts') :
             bursts'[j].fh = bursts[m].fh /\ bursts[m].wrote \subseteq bursts'[j].wrote
    <3>1. CASE own = << >>
      <4>1. \A m \in 1..Len(bursts) : bursts[m].fh # h
        BY <1>5, <3>1
      <4>2. bursts' = Append(bursts, new)
        BY <1>1, <1>8, <3>1
      <4>3. /\ Len(bursts') = Len(bursts) + 1 /\ bursts'[Len(bursts) + 1] = new
            /\ \A i \in 1..Len(bursts) : bursts'[i] = bursts[i]
        BY <1>6, <4>2, SeqGrows
      <4>4. /\ \A i \in 1..Len(bursts') : i \in 1..Len(bursts) \/ i = Len(bursts) + 1
            /\ \A i \in 1..Len(bursts) : i \in 1..Len(bursts')
        BY <1>6, <4>3
      <4>5. Distinct(bursts')
        BY <1>4, <1>6, <4>1, <4>3, <4>4 DEF Distinct
      <4>6. \A k \in 1..Len(bursts') : BurstOK(bursts'[k])
        BY <1>4, <1>6, <4>3, <4>4
      <4> QED BY <4>3, <4>4, <4>5, <4>6
    <3>2. CASE own # << >>
      <4>1. bursts' = [k \in 1..Len(bursts) |-> IF bursts[k].fh = h THEN new ELSE bursts[k]]
        BY <1>1, <1>8, <3>2
      <4>2. /\ Len(bursts') = Len(bursts)
            /\ \A k \in 1..Len(bursts) : bursts'[k] = IF bursts[k].fh = h THEN new ELSE bursts[k]
        BY <1>6, <4>1
      <4>3. \A k \in 1..Len(bursts) : bursts'[k].fh = bursts[k].fh
        BY <1>4, <4>2
      <4>4. Distinct(bursts')
        BY <1>6, <4>2, <4>3 DEF Distinct
      <4>5. \A k \in 1..Len(bursts') : BurstOK(bursts'[k])
        BY <1>4, <1>6, <4>2
      <4>6. \A k \in 1..Len(bursts) : bursts[k].wrote \subseteq bursts'[k].wrote
        BY <1>4, <1>5, <4>2
      <4> QED BY <4>2, <4>3, <4>4, <4>5, <4>6
    <3> QED BY <3>1, <3>2
  <2>4. Bursting'
    BY <2>2, <2>3 DEF Bursting, Carrying, Distinct, BurstOK
  <2>5. Fs!AcceptedBytesAreKeptStep
    BY <2>3 DEF Fs!AcceptedBytesAreKeptStep, Fs!Kept
  <2>6. Fs!CommitKeepsOthersStep
    BY <2>2 DEF Fs!CommitKeepsOthersStep
  <2> QED BY <2>4, <2>5, <2>6 DEF Goes
<1> QED BY <1>7, <1>8

LEMMA ReleasesOther ==
  ASSUME Serving, NEW ino, NEW who, NEW us, NEW ul
  PROVE  \A k \in 1..Len(Fs!ReleaseLocks(ino, who, us, ul)) : Other(Fs!ReleaseLocks(ino, who, us, ul)[k])
<1> DEFINE H == Hit(ino, who, us, ul)
           R == Fs!ReleaseLocks(ino, who, us, ul)
<1>1. R \in Seq(Releases(H, us, ul))
  BY ReleasedAre DEF Serving
<1>2. \A e \in Releases(H, us, ul) : Other(e)
  BY OthersAre DEF Releases, GivenUp, Again
<1> HIDE DEF R, H
<1>3. \A k \in 1..Len(R) : R[k] \in Releases(H, us, ul)
  BY <1>1
<1> QED BY <1>2, <1>3 DEF R

(* The bursts at a name and of a handle are chosen of the bursts.           *)
LEMMA ChosenSpares ==
  ASSUME Serving, Bursting, NEW chosen
  PROVE  Spares(Fs!Where(bursts, chosen))
<1> DEFINE bs == Fs!Where(bursts, chosen)
<1>1. IsSeq(bs) /\ \A j \in 1..Len(bs) : \E m \in 1..Len(bursts) : bs[j] = bursts[m]
  BY WherePicks DEF Picks, Serving
<1> HIDE DEF bs
<1>2. \A j \in 1..Len(bs), m \in 1..Len(bursts) : bs[j].fh = bursts[m].fh => bs[j] = bursts[m]
  BY <1>1 DEF Bursting, Distinct
<1>3. \A j \in 1..Len(bs) : BurstOK(bs[j])
  BY <1>1 DEF Bursting
<1>4. Spares(bs)
  BY <1>1, <1>2, <1>3 DEF Spares
<1> QED BY <1>4 DEF bs

LEMMA CloseGoes ==
  ASSUME Len(Empty) \in Nat, Serving, Bursting, NEW chosen, NEW bs, bs = Fs!Where(bursts, chosen),
         Fs!DropBursts(bs),
         \/ Fs!Acts(Fs!CloseRecs(bs))
         \/ \E e : Other(e) /\ Fs!Acts(Append(Fs!CloseRecs(bs), e))
         \/ \E t : IsSeq(t) /\ (\A k \in 1..Len(t) : Other(t[k])) /\ Fs!Acts(Fs!CloseRecs(bs) \o t)
  PROVE  Goes
<1>1. Spares(bs) /\ IsSeq(bs) /\ \A k \in 1..Len(bs) : BurstOK(bs[k])
  BY ChosenSpares DEF Spares
<1>2. PICK q : Closing(q, bs) /\ Fs!Acts(q)
  BY <1>1, Closings
<1> QED BY <1>1, <1>2, DropGoes

LEMMA FailedGoes ==
  ASSUME Len(Empty) \in Nat, Serving, Bursting, failed', Fs!FailedCall
  PROVE  Goes
<1>1. PICK bs \in Fs!ClosedByACall : IsSeq(bs) /\ \E done, gone : Failing(bs, done, gone)
  BY FailedIs
<1>2. PICK done, gone : Failing(bs, done, gone)
  BY <1>1
<1>3. Spares(bs)
  <2>1. ASSUME NEW h, NEW offset \in 0..(MaxLen - 1), Fs!MayWrite(h, offset)
        PROVE  Spares(<<Fs!Grown(h, offset)>>)
    BY <2>1, WriteSpares
  <2> QED BY <2>1, ChosenSpares DEF Fs!ClosedByACall, Fs!BurstsAt, Fs!BurstOf
<1>4. Spares(gone)
  BY <1>2, <1>3, SparesFirst DEF Failing
<1>5. \A k \in 1..Len(done) : BurstOK(done[k])
  BY <1>2, <1>4 DEF Failing, Spares
<1>6. Closing(Fs!CloseRecs(done), done)
  BY <1>2, <1>5, Closings DEF Failing
<1> QED BY <1>2, <1>4, <1>6, DropGoes DEF Failing

LEMMA NamesGo ==
  ASSUME Len(Empty) \in Nat, Serving, Bursting, Fs!NameCalls
  PROVE  Goes
<1>1. ASSUME NEW e, Other(e), Fs!Acts(<<e>>), UNCHANGED bursts PROVE Goes
  BY <1>1, NoClosing, StayGoes
<1>2. ASSUME NEW e, Other(e), NEW p, Fs!Acts(Append(Fs!CloseRecs(Fs!BurstsAt(p)), e)),
             Fs!DropBursts(Fs!BurstsAt(p))
      PROVE  Goes
  BY <1>2, CloseGoes DEF Fs!BurstsAt
<1> QED BY <1>1, <1>2, NameIs

LEMMA ContentsGo ==
  ASSUME Len(Empty) \in Nat, Serving, Bursting, Fs!ContentCalls
  PROVE  Goes
<1>1. ASSUME NEW p, NEW n \in {0, 1}, Fs!Truncate(p, n) PROVE Goes
  <2> DEFINE bs == Fs!BurstsAt(p)
             cur == IF bs = << >> THEN Fs!Recorded(Fs!NodeOf(p))
                    ELSE Fs!Last(Fs!CloseRecs(bs)).val
             e == Fs!FileTruncate(Fs!NodeOf(p), Fs!Truncated(cur, n))
  <2>1. Fs!Acts(Append(Fs!CloseRecs(bs), e)) /\ Fs!DropBursts(bs)
    BY <1>1 DEF Fs!Truncate
  <2>2. Len(Fs!Truncated(cur, n)) \in Nat
    <3> HIDE DEF cur
    <3> QED BY DEF Fs!Truncated
  <2>3. Other(e)
    BY <2>2, OthersAre
  <2> HIDE DEF e
  <2> QED BY <2>1, <2>3, CloseGoes DEF Fs!BurstsAt
<1>2. ASSUME NEW p, NEW trunc, Fs!Open(p, trunc) PROVE Goes
  <2> DEFINE e == Fs!FileTruncate(served.names[p], Empty)
             q == IF trunc THEN <<e>> ELSE << >>
  <2>1. Fs!Acts(q) /\ UNCHANGED bursts
    BY <1>2 DEF Fs!Open
  <2>2. Other(e)
    BY OthersAre
  <2> HIDE DEF e
  <2>3. Closing(q, << >>)
    BY <2>2, NoClosing
  <2> HIDE DEF q
  <2> QED BY <2>1, <2>3, StayGoes
<1>3. ASSUME NEW h, NEW offset \in 0..(MaxLen - 1), Fs!Write(h, offset) PROVE Goes
  <2>1. offset \in Nat
    OBVIOUS
  <2> QED BY <1>3, <2>1, WriteGoes
<1>4. ASSUME NEW h, NEW o, Fs!Flush(h, o) PROVE Goes
  <2> DEFINE t == Fs!ReleaseLocks(handles[h].ino, o, 0, 0)
  <2>1. Fs!Acts(Fs!CloseRecs(Fs!BurstOf(h)) \o t) /\ Fs!DropBursts(Fs!BurstOf(h))
    BY <1>4 DEF Fs!Flush
  <2>2. IsSeq(t) /\ \A k \in 1..Len(t) : Other(t[k])
    BY Taken, ReleasesOther
  <2> HIDE DEF t
  <2> QED BY <2>1, <2>2, CloseGoes DEF Fs!BurstOf
<1>5. ASSUME NEW h, Fs!Fsync(h) \/ Fs!Release(h) PROVE Goes
  <2>1. Fs!Acts(Fs!CloseRecs(Fs!BurstOf(h))) /\ Fs!DropBursts(Fs!BurstOf(h))
    BY <1>5 DEF Fs!Fsync, Fs!Release
  <2> QED BY <2>1, CloseGoes DEF Fs!BurstOf
<1> QED BY <1>1, <1>2, <1>3, <1>4, <1>5 DEF Fs!ContentCalls

LEMMA NextGoes ==
  ASSUME Len(Empty) \in Nat, Serving, Bursting, Fs!Next
  PROVE  Goes
<1>1. CASE Fs!NameCalls
  BY <1>1, NamesGo
<1>2. CASE Fs!ContentCalls
  BY <1>2, ContentsGo
<1>3. CASE \/ Fs!LockCalls \/ \E t \in 1..MaxRec : Fs!Recover(t)
  <2>1. PICK q : Closing(q, << >>) /\ Fs!Acts(q) /\ UNCHANGED bursts
    <3>1. ASSUME NEW h, NEW o, NEW s, NEW n, NEW lt, Fs!LockRange(h, o, lt, s, n)
          PROVE  \E q : Closing(q, << >>) /\ Fs!Acts(q) /\ UNCHANGED bursts
      BY <3>1, OthersAre, NoClosing DEF Fs!LockRange
    <3>2. ASSUME NEW h, NEW o, NEW s, NEW n, Fs!UnlockRange(h, o, s, n)
          PROVE  \E q : Closing(q, << >>) /\ Fs!Acts(q) /\ UNCHANGED bursts
      <4> DEFINE t == Fs!ReleaseLocks(handles[h].ino, o, s, n)
      <4>1. Fs!Acts(t) /\ UNCHANGED bursts
        BY <3>2 DEF Fs!UnlockRange
      <4>2. IsSeq(t) /\ (\A k \in 1..Len(t) : Other(t[k])) /\ IsSeq(<< >>) /\ Len(<< >>) = 0
        BY Taken, ReleasesOther, Singles
      <4> HIDE DEF t
      <4>3. Len(t) \in Nat
        BY <4>2 DEF IsSeq
      <4>4. Closing(t, << >>)
        BY <4>2, <4>3 DEF Closing
      <4> QED BY <4>1, <4>4
    <3>3. ASSUME NEW t, Fs!Recover(t)
          PROVE  \E q : Closing(q, << >>) /\ Fs!Acts(q) /\ UNCHANGED bursts
      BY <3>3, OthersAre, NoClosing DEF Fs!Recover
    <3> QED BY <1>3, <3>1, <3>2, <3>3 DEF Fs!LockCalls
  <2> QED BY <2>1, StayGoes
<1>4. CASE Fs!HiddenCalls \/ Fs!Brake
  <2>1. rec' = rec /\ bursts' = bursts
    BY <1>4 DEF Fs!HiddenCalls, Fs!UnlinkHidden, Fs!Brake
  <2>2. Bursting'
    BY <2>1 DEF Bursting, Carrying, Distinct, BurstOK
  <2> QED BY <2>1, <2>2 DEF Goes, Fs!AcceptedBytesAreKeptStep, Fs!Kept, Fs!CommitKeepsOthersStep
<1>5. CASE Fs!Remount
  <2>1. rec' = rec /\ bursts' = << >> /\ nextFh' = 1 /\ Len(<< >>) = 0
    BY <1>5 DEF Fs!Remount
  <2>2. Bursting'
    BY <2>1 DEF Bursting, Carrying, Distinct, BurstOK
  <2>3. Fs!AcceptedBytesAreKeptStep
    BY <2>1 DEF Fs!AcceptedBytesAreKeptStep
  <2>4. Fs!CommitKeepsOthersStep
    <3>1. Len(rec) \in Nat
      BY DEF Serving, IsSeq
    <3> QED BY <2>1, <3>1 DEF Fs!CommitKeepsOthersStep
  <2> QED BY <2>2, <2>3, <2>4 DEF Goes
<1> QED BY <1>1, <1>2, <1>3, <1>4, <1>5, FailedGoes DEF Fs!Next

LEMMA AlwaysBursting == Len(Empty) \in Nat => (Fs!Spec => []Bursting)
<1> SUFFICES ASSUME Len(Empty) \in Nat PROVE Fs!Spec => []Bursting
  OBVIOUS
<1>1. Fs!Init => Bursting
  BY DEF Fs!Init, Bursting, Carrying, Distinct
<1>2. Serving /\ Bursting /\ [Fs!Next]_(Fs!vars) => Bursting'
  <2> SUFFICES ASSUME Serving, Bursting, [Fs!Next]_(Fs!vars) PROVE Bursting'
    OBVIOUS
  <2>1. CASE Fs!Next
    BY <2>1, NextGoes DEF Goes
  <2>2. CASE UNCHANGED Fs!vars
    BY <2>2 DEF Fs!vars, Bursting, Carrying, Distinct, BurstOK
  <2> QED BY <2>1, <2>2
<1> QED BY <1>1, <1>2, AlwaysServing, PTL DEF Fs!Spec

(* Bytes a handle was told were written leave its burst only into a record  *)
(* of them, or with the mount: whatever else is written, renamed, cut,      *)
(* locked or refused meanwhile.  A call that fails without being refused    *)
(* loses one burst at most, that of the one handle whose bytes it was       *)
(* closing; all others are kept (RecordsFS._close_burst, _act).             *)
THEOREM AcceptedBytesAreKept ==
  Len(Empty) \in Nat => (Fs!Spec => [][Fs!AcceptedBytesAreKeptStep]_(Fs!vars))
<1> SUFFICES ASSUME Len(Empty) \in Nat
             PROVE  Fs!Spec => [][Fs!AcceptedBytesAreKeptStep]_(Fs!vars)
  OBVIOUS
<1>1. Serving /\ Bursting /\ Fs!Next => Fs!AcceptedBytesAreKeptStep
  BY NextGoes DEF Goes
<1> QED BY <1>1, AlwaysServing, AlwaysBursting, PTL DEF Fs!Spec

(* Where a write starts within its handle's buffer, as it does at any       *)
(* caller that does not seek past the end, closing one burst records what   *)
(* its handle wrote over what others had recorded by then, and changes no   *)
(* other byte of it (RecordsFS._close_burst).                               *)
THEOREM CommitsKeepOthers ==
  (Len(Empty) \in Nat /\ ~ Sparse) => (Fs!Spec => [][Fs!CommitKeepsOthersStep]_(Fs!vars))
<1> SUFFICES ASSUME Len(Empty) \in Nat, ~ Sparse
             PROVE  Fs!Spec => [][Fs!CommitKeepsOthersStep]_(Fs!vars)
  OBVIOUS
<1>1. Serving /\ Bursting /\ Fs!Next => Fs!CommitKeepsOthersStep
  BY NextGoes DEF Goes
<1> QED BY <1>1, AlwaysServing, AlwaysBursting, PTL DEF Fs!Spec

-----------------------------------------------------------------------------
(* The port's indexes                                                      *)

(* f says of every key which values R pairs it with.                        *)
Index(f, R) ==
  /\ f = [k \in DOMAIN f |-> f[k]]
  /\ \A k : k \in DOMAIN f <=> \E v : <<k, v>> \in R
  /\ \A k \in DOMAIN f : \A v : v \in f[k] <=> <<k, v>> \in R

(* The paths of every inode, and what every directory holds, as names say.  *)
Bindings(N) == {<<N[p], p>> : p \in DOMAIN N}
Entries(D)  == {<<Seam!parent_of(p), Seam!basename(p)>> : p \in D \ {<< >>}}

Indexed(s, N) ==
  /\ DOMAIN s = Fields
  /\ Index(s.paths, Bindings(N)) /\ Index(s.kids, Entries(DOMAIN N))

LEMMA IndexLoses ==
  ASSUME NEW f, NEW R, Index(f, R), NEW k, NEW v
  PROVE  Index(Seam!Entry(f, k, Seam!At(f, k, {}) \ {v}), R \ {<<k, v>>})
<1> DEFINE rest == Seam!At(f, k, {}) \ {v}
           g == Seam!Entry(f, k, rest)
<1>1. \A x : x \in rest <=> <<k, x>> \in R /\ x # v
  BY DEF Seam!At, Index
<1> HIDE DEF rest
<1>2. CASE rest = {}
  <2>1. g = [x \in (DOMAIN f) \ {k} |-> f[x]]
    BY <1>2 DEF Seam!Entry, Seam!Without
  <2> HIDE DEF g
  <2>2. Index(g, R \ {<<k, v>>})
    BY <1>1, <1>2, <2>1 DEF Index
  <2> QED BY <2>2 DEF g, rest
<1>3. CASE rest # {}
  <2>1. g = [x \in DOMAIN f \cup {k} |-> IF x = k THEN rest ELSE f[x]]
    BY <1>3 DEF Seam!Entry, Seam!With
  <2> HIDE DEF g
  <2>2. Index(g, R \ {<<k, v>>})
    BY <1>1, <1>3, <2>1 DEF Index
  <2> QED BY <2>2 DEF g, rest
<1> QED BY <1>2, <1>3 DEF g, rest

LEMMA IndexGains ==
  ASSUME NEW f, NEW R, Index(f, R), NEW k, NEW v
  PROVE  Index(Seam!With(f, k, Seam!At(f, k, {}) \cup {v}), R \cup {<<k, v>>})
<1> DEFINE all == Seam!At(f, k, {}) \cup {v}
           g == Seam!With(f, k, all)
<1>1. \A x : x \in all <=> <<k, x>> \in R \/ x = v
  BY DEF Seam!At, Index
<1> HIDE DEF all
<1>2. g = [x \in DOMAIN f \cup {k} |-> IF x = k THEN all ELSE f[x]]
  BY DEF Seam!With
<1> HIDE DEF g
<1>3. Index(g, R \cup {<<k, v>>})
  BY <1>1, <1>2 DEF Index
<1> QED BY <1>3 DEF g, all

LEMMA PathIs ==
  ASSUME NEW p \in Seq(Names), p # << >>, NEW q \in Seq(Names), q # << >>,
         Seam!parent_of(p) = Seam!parent_of(q), Seam!basename(p) = Seam!basename(q)
  PROVE  p = q
<1> DEFINE m == Len(p)
           n == Len(q)
<1>1. m \in Nat \ {0} /\ n \in Nat \ {0}
  BY EmptySeq, LenProperties
<1>2. SubSeq(p, 1, m - 1) = SubSeq(q, 1, n - 1) /\ p[m] = q[n]
  BY DEF Seam!parent_of, Seam!basename, Seam!Front, Seam!Last
<1>0. m - 1 \in 0..Len(p) /\ n - 1 \in 0..Len(q)
  BY <1>1
<1>3. /\ Len(SubSeq(p, 1, m - 1)) = m - 1 /\ \A i \in 1..(m - 1) : SubSeq(p, 1, m - 1)[i] = p[i]
      /\ Len(SubSeq(q, 1, n - 1)) = n - 1 /\ \A i \in 1..(n - 1) : SubSeq(q, 1, n - 1)[i] = q[i]
  BY <1>0, Prefix
<1> HIDE DEF m, n
<1>4. m = n
  BY <1>1, <1>2, <1>3
<1>5. \A i \in 1..m : i \in 1..(m - 1) \/ i = m
  BY <1>1
<1>6. \A i \in 1..m : p[i] = q[i]
  BY <1>2, <1>3, <1>4, <1>5
<1> QED BY <1>4, <1>6, SeqEqual DEF m, n

LEMMA BindingsMove ==
  ASSUME NEW N, NEW p
  PROVE  /\ p \in DOMAIN N => Bindings(Seam!Without(N, p)) = Bindings(N) \ {<<N[p], p>>}
         /\ p \notin DOMAIN N => \A i : Bindings(Seam!With(N, p, i)) = Bindings(N) \cup {<<i, p>>}
<1>1. ASSUME p \in DOMAIN N PROVE Bindings(Seam!Without(N, p)) = Bindings(N) \ {<<N[p], p>>}
  <2> DEFINE M == Seam!Without(N, p)
  <2>1. DOMAIN M = (DOMAIN N) \ {p} /\ \A q \in DOMAIN M : M[q] = N[q]
    BY DEF Seam!Without
  <2> HIDE DEF M
  <2>2. Bindings(M) = Bindings(N) \ {<<N[p], p>>}
    BY <2>1 DEF Bindings
  <2> QED BY <2>2 DEF M
<1>2. ASSUME p \notin DOMAIN N, NEW i PROVE Bindings(Seam!With(N, p, i)) = Bindings(N) \cup {<<i, p>>}
  <2> DEFINE M == Seam!With(N, p, i)
  <2>1. DOMAIN M = DOMAIN N \cup {p} /\ M[p] = i /\ \A q \in DOMAIN N : M[q] = N[q]
    BY <1>2 DEF Seam!With
  <2> HIDE DEF M
  <2>2. Bindings(M) = Bindings(N) \cup {<<i, p>>}
    BY <2>1 DEF Bindings
  <2> QED BY <2>2 DEF M
<1> QED BY <1>1, <1>2

LEMMA EntriesMove ==
  ASSUME NEW D, D \subseteq Seq(Names), NEW p \in Seq(Names), p # << >>
  PROVE  LET pair == <<Seam!parent_of(p), Seam!basename(p)>>
         IN  Entries(D \ {p}) = Entries(D) \ {pair} /\ Entries(D \cup {p}) = Entries(D) \cup {pair}
<1> DEFINE pair == <<Seam!parent_of(p), Seam!basename(p)>>
<1>1. \A q \in D \ {<< >>} : <<Seam!parent_of(q), Seam!basename(q)>> = pair => q = p
  BY PathIs
<1>2. Entries(D \ {p}) = Entries(D) \ {pair}
  BY <1>1 DEF Entries
<1>3. Entries(D \cup {p}) = Entries(D) \cup {pair}
  BY DEF Entries
<1> QED BY <1>2, <1>3

(* A state whose names are paths, indexed as they are.                      *)
Tidy(s) ==
  /\ IsFiniteSet(DOMAIN s.names) /\ Indexed(s, s.names)
  /\ \A p \in DOMAIN s.names : p \in Seq(Names) /\ s.names[p] # 0

LEMMA ForgetIndexed ==
  ASSUME NEW s, NEW N, Indexed(s, N), DOMAIN N \subseteq Seq(Names),
         NEW p \in DOMAIN N, p # << >>
  PROVE  Indexed(Seam!Forget(s, p, N[p]), Seam!Without(N, p))
<1> DEFINE u == Seam!Forget(s, p, N[p])
           a == Seam!Entry(s.paths, N[p], Seam!At(s.paths, N[p], {}) \ {p})
           up == Seam!parent_of(p)
           b == Seam!Entry(s.kids, up, Seam!At(s.kids, up, {}) \ {Seam!basename(p)})
           M == Seam!Without(N, p)
<1>1. u = [s EXCEPT !.paths = a, !.kids = b]
  BY DEF Seam!Forget
<1>2. Index(a, Bindings(N) \ {<<N[p], p>>})
  BY IndexLoses DEF Indexed
<1>3. Index(b, Entries(DOMAIN N) \ {<<up, Seam!basename(p)>>})
  BY IndexLoses DEF Indexed
<1>4. Bindings(M) = Bindings(N) \ {<<N[p], p>>}
  BY BindingsMove
<1>5. DOMAIN M = (DOMAIN N) \ {p}
  BY DEF Seam!Without
<1>6. Entries((DOMAIN N) \ {p}) = Entries(DOMAIN N) \ {<<up, Seam!basename(p)>>}
  BY EntriesMove
<1> HIDE DEF u, a, b, up, M
<1>7. DOMAIN u = Fields /\ u.paths = a /\ u.kids = b
  BY <1>1 DEF Indexed, Fields
<1>8. Indexed(u, M)
  BY <1>2, <1>3, <1>4, <1>5, <1>6, <1>7 DEF Indexed
<1> QED BY <1>8 DEF u, M

LEMMA BindTidy ==
  ASSUME NEW s, Tidy(s), NEW p \in Seq(Names), p # << >>, NEW i, i # 0
  PROVE  Tidy(Seam!Bind(s, p, i))
<1> DEFINE prev == Seam!At(s.names, p, Seam!NoIno)
           t == IF prev = Seam!NoIno THEN s ELSE Seam!Forget(s, p, prev)
           M == IF p \in DOMAIN s.names THEN Seam!Without(s.names, p) ELSE s.names
           u == Seam!Bind(s, p, i)
<1>0. DOMAIN s = Fields /\ DOMAIN s.names \subseteq Seq(Names) /\ IsFiniteSet(DOMAIN s.names)
  BY DEF Tidy, Indexed
<1>1. DOMAIN t = Fields /\ t.names = s.names
  BY <1>0, ForgetForgets
<1>2. CASE prev = i
  BY <1>2 DEF Seam!Bind
<1>3. CASE prev # i
  <2> DEFINE up == Seam!parent_of(p)
             a == Seam!With(t.names, p, i)
             b == Seam!With(t.paths, i, Seam!At(t.paths, i, {}) \cup {p})
             c == Seam!With(t.kids, up, Seam!At(t.kids, up, {}) \cup {Seam!basename(p)})
  <2>1. u = [t EXCEPT !.names = a, !.paths = b, !.kids = c]
    BY <1>3 DEF Seam!Bind
  <2>2. Indexed(t, M)
    <3>1. CASE p \in DOMAIN s.names
      <4>1. prev = s.names[p] /\ prev # Seam!NoIno
        BY <3>1 DEF Seam!At, Tidy, Seam!NoIno
      <4>2. Indexed(Seam!Forget(s, p, s.names[p]), Seam!Without(s.names, p))
        BY <1>0, <3>1, ForgetIndexed DEF Tidy
      <4> QED BY <3>1, <4>1, <4>2
    <3>2. CASE p \notin DOMAIN s.names
      BY <3>2 DEF Seam!At, Tidy
    <3> QED BY <3>1, <3>2
  <2>3. /\ DOMAIN M = (DOMAIN s.names) \ {p} /\ \A q \in DOMAIN M : M[q] = s.names[q]
    BY DEF Seam!Without
  <2> HIDE DEF t, M
  <2>4. Seam!With(M, p, i) = a
    <3>1. \A x : x \in DOMAIN M \cup {p} <=> x \in DOMAIN s.names \cup {p}
      BY <2>3
    <3>2. a = [x \in DOMAIN s.names \cup {p} |-> IF x = p THEN i ELSE s.names[x]]
      BY <1>1 DEF Seam!With
    <3> QED BY <2>3, <3>1, <3>2 DEF Seam!With
  <2>5. Bindings(a) = Bindings(M) \cup {<<i, p>>}
    BY <2>3, <2>4, BindingsMove
  <2>6. DOMAIN a = DOMAIN s.names \cup {p}
    BY <1>1 DEF Seam!With
  <2>7. Entries(DOMAIN a) = Entries(DOMAIN M) \cup {<<up, Seam!basename(p)>>}
    <3>1. DOMAIN M \subseteq Seq(Names) /\ DOMAIN a = DOMAIN M \cup {p}
      BY <1>0, <2>3, <2>6
    <3> HIDE DEF a
    <3> QED BY <3>1, EntriesMove
  <2>8. Index(b, Bindings(M) \cup {<<i, p>>}) /\ Index(c, Entries(DOMAIN M) \cup {<<up, Seam!basename(p)>>})
    BY <2>2, IndexGains DEF Indexed
  <2>9. \A q \in DOMAIN a : q \in Seq(Names) /\ a[q] # 0
    BY <1>1 DEF Seam!With, Tidy
  <2> HIDE DEF a, b, c, u, up
  <2>10. DOMAIN u = Fields /\ u.names = a /\ u.paths = b /\ u.kids = c
    BY <1>1, <2>1 DEF Fields
  <2>11. IsFiniteSet(DOMAIN a)
    BY <1>0, <2>6, FS_AddElement
  <2>12. Tidy(u)
    BY <2>5, <2>7, <2>8, <2>9, <2>10, <2>11 DEF Tidy, Indexed
  <2> QED BY <2>12 DEF u
<1> QED BY <1>2, <1>3

LEMMA UnbindTidy ==
  ASSUME NEW s, Tidy(s), NEW p, p # << >>
  PROVE  Tidy(Seam!Unbind(s, p))
<1> DEFINE u == Seam!Unbind(s, p)
<1>0. DOMAIN s = Fields /\ DOMAIN s.names \subseteq Seq(Names) /\ IsFiniteSet(DOMAIN s.names)
  BY DEF Tidy, Indexed
<1>1. CASE p \notin DOMAIN s.names
  BY <1>1 DEF Seam!Unbind
<1>2. CASE p \in DOMAIN s.names
  <2> DEFINE M == Seam!Without(s.names, p)
             t == [s EXCEPT !.names = M]
             N == s.names
  <2>1. u = Seam!Forget(t, p, N[p])
    BY <1>2 DEF Seam!Unbind
  <2>2. DOMAIN M = (DOMAIN N) \ {p} /\ \A q \in DOMAIN M : M[q] = N[q]
    BY DEF Seam!Without
  <2> HIDE DEF M
  <2>3. DOMAIN t = Fields /\ t.names = M /\ t.paths = s.paths /\ t.kids = s.kids
    BY <1>0 DEF Fields
  <2> HIDE DEF t
  <2>4. Indexed(t, N)
    BY <2>3 DEF Tidy, Indexed
  <2>5. Indexed(Seam!Forget(t, p, N[p]), Seam!Without(N, p))
    BY <1>0, <1>2, <2>4, ForgetIndexed
  <2>6. u.names = M /\ Indexed(u, M)
    BY <2>1, <2>3, <2>5, ForgetForgets DEF M
  <2> HIDE DEF u
  <2>7. IsFiniteSet(DOMAIN M)
    BY <1>0, <2>2, FS_Subset
  <2>8. \A q \in DOMAIN M : q \in Seq(Names) /\ M[q] # 0
    BY <2>2 DEF Tidy
  <2>9. Tidy(u)
    BY <2>6, <2>7, <2>8 DEF Tidy
  <2> QED BY <2>9 DEF u
<1> QED BY <1>1, <1>2

LEMMA MoveTidy ==
  ASSUME NEW s, Tidy(s), NEW p, p # << >>, NEW q \in Seq(Names), q # << >>
  PROVE  Tidy(Seam!Move(s, p, q))
<1>1. CASE p \in DOMAIN s.names
  <2>1. s.names[p] # 0 /\ Tidy(Seam!Unbind(s, p))
    BY <1>1, UnbindTidy DEF Tidy
  <2> QED BY <1>1, <2>1, BindTidy DEF Seam!Move
<1>2. CASE p \notin DOMAIN s.names
  BY <1>2 DEF Seam!Move
<1> QED BY <1>1, <1>2

LEMMA UnderIsAPath ==
  ASSUME NEW y \in Seq(Names), NEW src \in Seq(Names), NEW dst \in Seq(Names), dst # << >>,
         Seam!IsStrictPrefix(src, y)
  PROVE  Under(y, src, dst) \in Seq(Names) /\ Under(y, src, dst) # << >>
<1> DEFINE rest == SubSeq(y, Len(src) + 1, Len(y))
<1>1. Len(src) \in Nat /\ Len(y) \in Nat /\ Len(dst) \in Nat \ {0}
  BY EmptySeq, LenProperties
<1>2. rest \in Seq(Names)
  BY <1>1, SubSeqProperties
<1> HIDE DEF rest
<1>3. dst \o rest \in Seq(Names) /\ Len(dst \o rest) = Len(dst) + Len(rest) /\ Len(rest) \in Nat
  BY <1>2, ConcatProperties, LenProperties
<1> QED BY <1>1, <1>3 DEF Under, rest

LEMMA RenameTidy ==
  ASSUME NEW s, Tidy(s), NEW src \in Seq(Names), src # << >>, NEW dst \in Seq(Names), dst # << >>
  PROVE  Tidy(Seam!Rename(s, src, dst))
<1> DEFINE top == Seam!Move(s, src, dst)
           T == Seam!Below(top.names, src)
<1>1. Tidy(top)
  BY MoveTidy
<1> HIDE DEF top
<1>2. T \subseteq DOMAIN top.names /\ IsFiniteSet(T)
  <2>1. T \subseteq DOMAIN top.names
    BY DEF Seam!Below
  <2> QED BY <1>1, <2>1, FS_Subset DEF Tidy
<1>3. PICK g : MovesIs(T, top, src, dst, g) /\ Seam!Rename(s, src, dst) = g[T]
  BY <1>2, RenameIs DEF top
<1>0. \A y \in T : y # << >> /\ Under(y, src, dst) \in Seq(Names) /\ Under(y, src, dst) # << >>
  <2> SUFFICES ASSUME NEW y \in T
               PROVE  y # << >> /\ Under(y, src, dst) \in Seq(Names) /\ Under(y, src, dst) # << >>
    OBVIOUS
  <2>1. y \in Seq(Names) /\ Seam!IsStrictPrefix(src, y)
    BY <1>1, <1>2 DEF Tidy, Seam!Below
  <2>2. y # << >>
    <3>1. Len(src) <= Len(y) /\ src # y
      BY <2>1 DEF Seam!IsStrictPrefix, Seam!IsPrefix
    <3>2. Len(src) \in Nat \ {0}
      BY EmptySeq, LenProperties
    <3> QED BY <3>1, <3>2
  <2> QED BY <2>1, <2>2, UnderIsAPath
<1> HIDE DEF T
<1>4. \A S \in SUBSET T : g[S] = IF S = {} THEN top ELSE Moved(g[S \ {One(S)}], One(S), src, dst)
  BY <1>3 DEF MovesIs
<1>5. \A S \in SUBSET T : IsFiniteSet(S) /\ Cardinality(S) \in Nat
  BY <1>2, FS_Subset, FS_CardinalityType
<1> DEFINE D == {n \in Nat : \E S \in SUBSET T : Cardinality(S) = n /\ ~ Tidy(g[S])}
<1>6. D = {}
  <2> SUFFICES ASSUME D # {} PROVE FALSE
    OBVIOUS
  <2>0. D \subseteq Nat
    OBVIOUS
  <2>1. PICK n \in D : \A m \in D : n <= m
    BY <2>0, LeastOf
  <2>2. PICK S \in SUBSET T : Cardinality(S) = n /\ ~ Tidy(g[S])
    BY <2>1
  <2>3. S # {}
    BY <1>1, <1>4, <2>2
  <2>4. /\ Cardinality(S) \in Nat /\ Cardinality(S \ {One(S)}) = Cardinality(S) - 1
        /\ Cardinality(S \ {One(S)}) \in Nat /\ One(S) \in T
    BY <1>5, <2>3, OneIs
  <2>5. S \ {One(S)} \in SUBSET T /\ ~ (n <= Cardinality(S \ {One(S)}))
    BY <2>2, <2>4
  <2>6. Cardinality(S \ {One(S)}) \notin D
    BY <2>1, <2>5
  <2>7. Tidy(g[S \ {One(S)}])
    BY <2>4, <2>5, <2>6
  <2> DEFINE t == g[S \ {One(S)}]
             y == One(S)
  <2>8. g[S] = Seam!Move(t, y, Under(y, src, dst))
    BY <1>4, <2>3 DEF Moved
  <2>9. y # << >> /\ Under(y, src, dst) \in Seq(Names) /\ Under(y, src, dst) # << >>
    BY <1>0, <2>4
  <2> HIDE DEF t, y
  <2>10. Tidy(Seam!Move(t, y, Under(y, src, dst)))
    BY <2>7, <2>9, MoveTidy DEF t
  <2> QED BY <2>2, <2>8, <2>10
<1>7. T \in SUBSET T
  OBVIOUS
<1> QED BY <1>3, <1>5, <1>6, <1>7

(* A record names what may be named.                                        *)
NamesPaths(e) ==
  /\ e.op \in Naming => e.path \in Seq(Names) /\ e.path # << >>
  /\ e.op \in {"FILE-LINK", "FILE-RENAME"} => e.to \in Seq(Names) /\ e.to # << >>

LEMMA ApplyTidy ==
  ASSUME NEW s, Tidy(s), NEW e, NamesPaths(e), NEW n \in Nat
  PROVE  Tidy(Seam!Apply(s, e, n))
<1> DEFINE u == Seam!Apply(s, e, n)
<1>0. DOMAIN s = Fields
  BY DEF Tidy, Indexed
<1>1. CASE e.op \in Seam!Minting
  <2> DEFINE N == Seam!With(s.inodes, Seam!FormalName(n), Seam!NewNode(e, n))
             t == [s EXCEPT !.inodes = N]
             f == Seam!FormalName(n)
  <2>1. u = Seam!Bind(t, e.path, f)
    BY <1>1 DEF Seam!Apply, Seam!Minting, Seam!AttrOps
  <2>2. f # 0
    BY DEF Seam!FormalName, Seam!RootIno
  <2> HIDE DEF N, f
  <2>3. DOMAIN t = Fields /\ t.names = s.names /\ t.paths = s.paths /\ t.kids = s.kids
    BY <1>0 DEF Fields
  <2> HIDE DEF t
  <2>4. Tidy(t)
    BY <2>3 DEF Tidy, Indexed
  <2>5. e.path \in Seq(Names) /\ e.path # << >>
    BY <1>1 DEF NamesPaths, Naming
  <2> QED BY <2>1, <2>2, <2>4, <2>5, BindTidy
<1>2. CASE e.op = "FILE-LINK" /\ u # s
  <2>1. e.path \in DOMAIN s.names /\ u = Seam!Bind(s, e.to, s.names[e.path])
    BY <1>2 DEF Seam!Apply, Seam!Minting, Seam!AttrOps
  <2>2. s.names[e.path] # 0 /\ e.to \in Seq(Names) /\ e.to # << >>
    BY <1>2, <2>1 DEF Tidy, NamesPaths
  <2> QED BY <2>1, <2>2, BindTidy
<1>3. CASE e.op \in {"FILE-UNLINK", "FILE-RMDIR"}
  <2>1. u = Seam!Unbind(s, e.path)
    BY <1>3 DEF Seam!Apply, Seam!Minting, Seam!AttrOps
  <2> QED BY <1>3, <2>1, UnbindTidy DEF NamesPaths, Naming
<1>4. CASE e.op = "FILE-RENAME" /\ u # s
  <2>1. u = Seam!Rename(s, e.path, e.to)
    BY <1>4 DEF Seam!Apply, Seam!Minting, Seam!AttrOps
  <2> QED BY <1>4, <2>1, RenameTidy DEF NamesPaths, Naming
<1>5. CASE e.op \notin Naming /\ u # s
  <2> DEFINE i == Seam!Node(s, e)
  <2>1. \E v : \/ u = [s EXCEPT !.inodes[i].content = v]
               \/ u = [s EXCEPT !.inodes[i].owner = v]
               \/ u = [s EXCEPT !.inodes[i].attr = v]
    <3>1. CASE e.op \in {"FILE-WRITE", "FILE-TRUNCATE"} /\ i # 0
      <4>1. u = [s EXCEPT !.inodes[i].content = e.val]
        BY <3>1 DEF Seam!Apply, Seam!Minting, Seam!NoIno, Seam!AttrOps
      <4> QED BY <4>1
    <3>2. CASE e.op = "FILE-CHOWN" /\ i # 0
      <4>1. u = [s EXCEPT !.inodes[i].owner = e.val]
        BY <3>2 DEF Seam!Apply, Seam!Minting, Seam!NoIno
      <4> QED BY <4>1
    <3>3. CASE e.op \in Seam!AttrOps \ {"FILE-CHOWN"} /\ i # 0
      <4>1. u = [s EXCEPT !.inodes[i].attr = e.val]
        BY <3>3 DEF Seam!Apply, Seam!Minting, Seam!NoIno, Seam!AttrOps
      <4> QED BY <4>1
    <3>4. CASE i = 0 \/ (e.op \notin {"FILE-WRITE", "FILE-TRUNCATE", "FILE-CHOWN"} /\ e.op \notin Seam!AttrOps)
      <4>1. u = s
        BY <1>5, <3>4 DEF Seam!Apply, Seam!Minting, Seam!NoIno, Naming
      <4> QED BY <1>5, <4>1
    <3> QED BY <3>1, <3>2, <3>3, <3>4
  <2> HIDE DEF i, u
  <2>2. PICK x : u = [s EXCEPT !.inodes = x]
    <3>1. PICK v : \/ u = [s EXCEPT !.inodes[i].content = v]
                   \/ u = [s EXCEPT !.inodes[i].owner = v]
                   \/ u = [s EXCEPT !.inodes[i].attr = v]
      BY <2>1
    <3> DEFINE x1 == [s.inodes EXCEPT ![i].content = v]
               x2 == [s.inodes EXCEPT ![i].owner = v]
               x3 == [s.inodes EXCEPT ![i].attr = v]
    <3>2. u = [s EXCEPT !.inodes = x1] \/ u = [s EXCEPT !.inodes = x2] \/ u = [s EXCEPT !.inodes = x3]
      BY <3>1
    <3> HIDE DEF x1, x2, x3
    <3> QED BY <3>2
  <2>3. DOMAIN u = Fields /\ u.names = s.names /\ u.paths = s.paths /\ u.kids = s.kids
    BY <1>0, <2>2 DEF Fields
  <2>4. Tidy(u)
    BY <2>3 DEF Tidy, Indexed
  <2> QED BY <2>4 DEF u
<1>6. CASE u = s
  BY <1>6
<1> QED BY <1>1, <1>2, <1>3, <1>4, <1>5, <1>6 DEF Naming

LEMMA EmptyTidy == Tidy(Seam!EmptyState)
<1> DEFINE s == Seam!EmptyState
           N == s.names
           P == s.paths
           K == s.kids
<1>1. /\ DOMAIN s = Fields /\ N = [p \in {<< >>} |-> 1] /\ P = [i \in {1} |-> {<< >>}]
      /\ K = [p \in {} |-> {}]
  BY DEF Seam!EmptyState, Seam!Root, Seam!RootIno, Fields
<1> HIDE DEF s
<1>2. DOMAIN N = {<< >>} /\ N[<< >>] = 1
  BY <1>1
<1>3. Bindings(N) = {<<1, << >> >>} /\ Entries(DOMAIN N) = {}
  BY <1>2 DEF Bindings, Entries
<1> HIDE DEF N, P, K
<1>4. Index(P, Bindings(N))
  BY <1>1, <1>3 DEF Index
<1>5. Index(K, Entries(DOMAIN N))
  BY <1>1, <1>3 DEF Index
<1>6. IsFiniteSet({<< >>})
  BY FS_Singleton
<1>7. \A p \in DOMAIN N : p \in Seq(Names) /\ N[p] # 0
  <2>1. << >> \in Seq(Names)
    OBVIOUS
  <2> QED BY <1>2, <2>1
<1>8. IsFiniteSet(DOMAIN N)
  BY <1>2, <1>6
<1>9. Tidy(s)
  BY <1>1, <1>4, <1>5, <1>7, <1>8 DEF Tidy, Indexed, N, P, K
<1> QED BY <1>9 DEF s

LEMMA FoldTidy ==
  ASSUME NEW r, Len(r) \in Nat, \A k \in 1..Len(r) : NamesPaths(r[k])
  PROVE  Tidy(Seam!Fold(r))
<1> DEFINE n == Len(r)
<1>1. PICK s : FoldIs(r, n, s) /\ Seam!Fold(r) = s[n]
  BY FoldAre
<1>2. \A k \in 0..n : s[k] = IF k = 0 THEN Seam!EmptyState
        ELSE IF SkippedIn(r, k) THEN s[k - 1] ELSE Seam!Apply(s[k - 1], r[k], k)
  BY <1>1 DEF FoldIs
<1> DEFINE D == {k \in 0..n : ~ Tidy(s[k])}
<1>3. D = {}
  <2> SUFFICES ASSUME D # {} PROVE FALSE
    OBVIOUS
  <2>0. D \subseteq Nat
    OBVIOUS
  <2>1. PICK k \in D : \A m \in D : k <= m
    BY <2>0, LeastOf
  <2>2. k # 0
    BY <1>2, <2>1, EmptyTidy
  <2>3. k \in 0..n /\ k \in 1..n /\ k \in Nat /\ k - 1 \in 0..n /\ k - 1 \notin D
    BY <2>1, <2>2
  <2>4. Tidy(s[k - 1])
    BY <2>3
  <2>5. Tidy(Seam!Apply(s[k - 1], r[k], k))
    BY <2>3, <2>4, ApplyTidy
  <2> QED BY <1>2, <2>1, <2>2, <2>3, <2>4, <2>5
<1>4. n \in 0..n
  OBVIOUS
<1> QED BY <1>1, <1>3, <1>4

Orderly == Tidy(state) /\ \A n \in 1..Len(rec) : NamesPaths(rec[n])

LEMMA RequestsNamePaths ==
  ASSUME Tidy(state), NEW e \in Seam!NameRequests \cup Seam!NodeRequests \cup Seam!LockRequests
  PROVE  NamesPaths(e)
<1>1. \A p \in Seam!Askable : p \in Seq(Names) /\ p # << >>
  <2> SUFFICES ASSUME NEW d \in DOMAIN state.names, NEW n \in Names
               PROVE  Append(d, n) \in Seq(Names) /\ Append(d, n) # << >>
    BY DEF Seam!Askable
  <2>1. d \in Seq(Names)
    BY DEF Tidy
  <2>2. Append(d, n) \in Seq(Names) /\ Len(Append(d, n)) = Len(d) + 1 /\ Len(d) \in Nat
    BY <2>1, AppendProperties, LenProperties
  <2> QED BY <2>2
<1>2. CASE e \in Seam!NodeRequests \cup Seam!LockRequests
  BY <1>2, OthersNameNothing DEF NamesPaths, Naming
<1>3. CASE e \in Seam!NameRequests
  <2>1. e.path \in Seam!Askable /\ (e.op \in {"FILE-LINK", "FILE-RENAME"} => e.to \in Seam!Askable)
    BY <1>3 DEF Seam!NameRequests, Seam!Rec
  <2> QED BY <1>1, <2>1 DEF NamesPaths
<1> QED BY <1>2, <1>3

LEMMA InitOrderly == Seam!Init => Orderly
<1> SUFFICES ASSUME Seam!Init PROVE Orderly
  OBVIOUS
<1>1. rec = << >> /\ state = Seam!Fold(rec)
  BY DEF Seam!Init
<1>2. Len(rec) = 0 /\ \A k \in 1..Len(rec) : NamesPaths(rec[k])
  BY <1>1
<1>3. Tidy(Seam!Fold(rec))
  BY <1>2, FoldTidy
<1> QED BY <1>1, <1>2, <1>3 DEF Orderly

LEMMA NextOrderly == InStep /\ Orderly /\ [Seam!Next]_(Seam!vars) => Orderly'
<1> SUFFICES ASSUME InStep, Orderly, [Seam!Next]_(Seam!vars) PROVE Orderly'
  OBVIOUS
<1>0. ASSUME NEW e, rec' = Append(rec, e), NamesPaths(e), state' = state PROVE Orderly'
  <2>1. /\ Len(rec) \in Nat /\ Len(rec') = Len(rec) + 1 /\ rec'[Len(rec) + 1] = e
        /\ \A i \in 1..Len(rec) : rec'[i] = rec[i]
    BY <1>0, OneMore DEF InStep
  <2>2. \A i \in 1..Len(rec') : i \in 1..Len(rec) \/ i = Len(rec) + 1
    BY <2>1
  <2>3. \A i \in 1..Len(rec') : NamesPaths(rec'[i])
    BY <1>0, <2>1, <2>2 DEF Orderly
  <2> QED BY <1>0, <2>3 DEF Orderly, Tidy, Indexed
<1>1. ASSUME NEW R, R \subseteq Seam!NameRequests \cup Seam!NodeRequests \cup Seam!LockRequests, Seam!Ask(R)
      PROVE  Orderly'
  <2>1. PICK e \in R : Seam!Publish(e)
    BY <1>1 DEF Seam!Ask
  <2>2. rec' = Append(rec, e) /\ state' = state
    BY <2>1 DEF Seam!Publish
  <2>3. NamesPaths(e)
    BY <1>1, RequestsNamePaths DEF Orderly
  <2> QED BY <1>0, <2>2, <2>3
<1>2. CASE Seam!DecideName
  BY <1>1, <1>2 DEF Seam!DecideName
<1>3. CASE Seam!DecideNode
  BY <1>1, <1>3 DEF Seam!DecideNode
<1>4. CASE Seam!DecideLock
  BY <1>1, <1>4 DEF Seam!DecideLock
<1>5. CASE Seam!Recover
  <2>1. PICK target \in 1..Len(rec) :
          Seam!Publish(Seam!Rec("RECOVER", Seam!NoPath, Seam!NoPath, "none", Seam!NoIno, target))
    BY <1>5 DEF Seam!Recover
  <2> DEFINE e == Seam!Rec("RECOVER", Seam!NoPath, Seam!NoPath, "none", Seam!NoIno, target)
  <2>2. e.op = "RECOVER" /\ rec' = Append(rec, e) /\ state' = state
    BY <2>1 DEF Seam!Rec, Seam!Publish
  <2> HIDE DEF e
  <2>3. NamesPaths(e)
    BY <2>2 DEF NamesPaths, Naming, Seam!Minting
  <2> QED BY <1>0, <2>2, <2>3
<1>6. CASE Seam!Mirror
  <2> DEFINE e == Seam!Rec("MIRROR", Seam!NoPath, Seam!NoPath, "none", Seam!NoIno, Seam!NoVal)
  <2>1. e.op = "MIRROR" /\ rec' = Append(rec, e) /\ state' = state
    BY <1>6 DEF Seam!Rec, Seam!Mirror
  <2> HIDE DEF e
  <2>2. NamesPaths(e)
    BY <2>1 DEF NamesPaths, Naming, Seam!Minting
  <2> QED BY <1>0, <2>1, <2>2
<1>7. CASE Seam!Deliver
  <2> DEFINE n == Head(todo)
  <2>1. /\ todo # << >> /\ n # 0 /\ rec' = rec /\ state' = Seam!Apply(state, rec[n], n)
    BY <1>7 DEF Seam!Deliver, Seam!Mirrored, Seam!OnAppend
  <2>2. n \in 1..Len(rec)
    BY <2>1, HeadIsARecord
  <2> HIDE DEF n
  <2>3. Len(rec) \in Nat
    BY DEF InStep
  <2>4. Tidy(Seam!Apply(state, rec[n], n))
    BY <2>2, <2>3, ApplyTidy DEF Orderly
  <2> DEFINE a == Seam!Apply(state, rec[n], n)
  <2> HIDE DEF a
  <2>5. state' = a /\ Tidy(a)
    BY <2>1, <2>4 DEF a
  <2> QED BY <2>1, <2>5 DEF Orderly, Tidy, Indexed
<1>8. CASE Seam!Restart
  <2>1. rec' = rec /\ state' = Seam!Fold(rec)
    BY <1>8 DEF Seam!Restart
  <2> DEFINE a == Seam!Fold(rec)
  <2>2. Len(rec) \in Nat
    BY DEF InStep
  <2>3. Tidy(a)
    BY <2>2, FoldTidy DEF Orderly
  <2> HIDE DEF a
  <2>4. state' = a
    BY <2>1 DEF a
  <2> QED BY <2>1, <2>3, <2>4 DEF Orderly, Tidy, Indexed
<1>9. CASE UNCHANGED Seam!vars
  BY <1>9 DEF Seam!vars, Orderly, Tidy, Indexed
<1> QED BY <1>2, <1>3, <1>4, <1>5, <1>6, <1>7, <1>8, <1>9 DEF Seam!Next

LEMMA AlwaysOrderly == Seam!Spec => []Orderly
<1> QED BY AlwaysInStep, InitOrderly, NextOrderly, PTL DEF Seam!Spec

-----------------------------------------------------------------------------
(* Paths above paths                                                       *)

LEMMA StrictPrefixIs ==
  ASSUME NEW x \in Seq(Names), NEW y \in Seq(Names)
  PROVE  Seam!IsStrictPrefix(x, y) <=> Len(x) < Len(y) /\ \A i \in 1..Len(x) : x[i] = y[i]
<1> DEFINE m == Len(x)
           n == Len(y)
<1>1. m \in Nat /\ n \in Nat
  BY LenProperties
<1>2. SubSeq(x, 1, m) = x
  OBVIOUS
<1>3. ASSUME m <= n
      PROVE  /\ SubSeq(y, 1, m) \in Seq(Names) /\ Len(SubSeq(y, 1, m)) = m
             /\ \A i \in 1..m : SubSeq(y, 1, m)[i] = y[i]
  <2>1. m \in 0..Len(y)
    BY <1>1, <1>3
  <2> QED BY <2>1, Prefix
<1>4. ASSUME Seam!IsStrictPrefix(x, y) PROVE m < n /\ \A i \in 1..m : x[i] = y[i]
  <2>1. m <= n /\ x = SubSeq(y, 1, m) /\ x # y
    BY <1>2, <1>4 DEF Seam!IsStrictPrefix, Seam!IsPrefix
  <2>2. \A i \in 1..m : x[i] = y[i]
    BY <1>3, <2>1
  <2>3. m # n
    <3>1. SubSeq(y, 1, n) = y
      OBVIOUS
    <3> QED BY <2>1, <3>1
  <2> QED BY <1>1, <2>1, <2>2, <2>3
<1>5. ASSUME m < n, \A i \in 1..m : x[i] = y[i] PROVE Seam!IsStrictPrefix(x, y)
  <2>1. m <= n /\ m # n
    BY <1>1, <1>5
  <2>2. x = SubSeq(y, 1, m)
    BY <1>3, <1>5, <2>1, SeqEqual
  <2>3. x # y
    BY <2>1
  <2> QED BY <1>2, <2>1, <2>2, <2>3 DEF Seam!IsStrictPrefix, Seam!IsPrefix
<1> QED BY <1>4, <1>5

LEMMA ParentIs ==
  ASSUME NEW y \in Seq(Names), y # << >>
  PROVE  /\ Seam!parent_of(y) \in Seq(Names) /\ Len(y) \in Nat \ {0}
         /\ Len(Seam!parent_of(y)) = Len(y) - 1
         /\ \A i \in 1..(Len(y) - 1) : Seam!parent_of(y)[i] = y[i]
         /\ Seam!IsStrictPrefix(Seam!parent_of(y), y)
<1> DEFINE n == Len(y)
           q == Seam!parent_of(y)
<1>1. n \in Nat \ {0} /\ n - 1 \in 0..Len(y)
  BY EmptySeq, LenProperties
<1>2. q = SubSeq(y, 1, n - 1)
  BY DEF Seam!parent_of, Seam!Front
<1>3. q \in Seq(Names) /\ Len(q) = n - 1 /\ \A i \in 1..(n - 1) : q[i] = y[i]
  <2> DEFINE k == n - 1
  <2>1. k \in 0..Len(y) /\ q = SubSeq(y, 1, k)
    BY <1>1, <1>2
  <2> HIDE DEF k, q
  <2>2. q \in Seq(Names) /\ Len(q) = k /\ \A i \in 1..k : q[i] = y[i]
    BY <2>1, Prefix
  <2> QED BY <2>2 DEF k
<1> HIDE DEF q
<1>4. Len(q) < Len(y) /\ \A i \in 1..Len(q) : q[i] = y[i]
  BY <1>1, <1>3
<1>5. Seam!IsStrictPrefix(q, y)
  BY <1>3, <1>4, StrictPrefixIs
<1> QED BY <1>1, <1>3, <1>5 DEF q

(* What is above a path is its parent or above its parent.                  *)
LEMMA AboveTheParent ==
  ASSUME NEW x \in Seq(Names), NEW y \in Seq(Names), Seam!IsStrictPrefix(x, y)
  PROVE  y # << >> /\ (Seam!parent_of(y) = x \/ Seam!IsStrictPrefix(x, Seam!parent_of(y)))
<1> DEFINE q == Seam!parent_of(y)
           m == Len(x)
           n == Len(y)
<1>1. m \in Nat /\ n \in Nat /\ m < n /\ \A i \in 1..m : x[i] = y[i]
  BY StrictPrefixIs, LenProperties
<1>2. y # << >>
  BY <1>1
<1>3. q \in Seq(Names) /\ Len(q) = n - 1 /\ \A i \in 1..(n - 1) : q[i] = y[i]
  BY <1>2, ParentIs
<1> HIDE DEF q
<1>4. \A i \in 1..m : i \in 1..(n - 1) /\ x[i] = q[i]
  BY <1>1, <1>3
<1>5. CASE m = n - 1
  BY <1>3, <1>4, <1>5, SeqEqual DEF q
<1>6. CASE m # n - 1
  <2>1. m < Len(q)
    BY <1>1, <1>3, <1>6
  <2> QED BY <1>2, <1>3, <1>4, <2>1, StrictPrefixIs DEF q
<1> QED BY <1>2, <1>5, <1>6

LEMMA AboveAgain ==
  ASSUME NEW x \in Seq(Names), NEW y \in Seq(Names), NEW z \in Seq(Names),
         Seam!IsStrictPrefix(x, y), Seam!IsStrictPrefix(y, z)
  PROVE  Seam!IsStrictPrefix(x, z)
<1> DEFINE m == Len(x)
           n == Len(y)
           k == Len(z)
<1>1. /\ m \in Nat /\ n \in Nat /\ k \in Nat /\ m < n /\ n < k
      /\ \A i \in 1..m : x[i] = y[i]
      /\ \A i \in 1..n : y[i] = z[i]
  BY StrictPrefixIs, LenProperties
<1>2. m < k /\ \A i \in 1..m : i \in 1..n
  BY <1>1
<1> QED BY <1>1, <1>2, StrictPrefixIs

LEMMA UnderAt ==
  ASSUME NEW y \in Seq(Names), NEW src \in Seq(Names), NEW dst \in Seq(Names),
         Seam!IsStrictPrefix(src, y)
  PROVE  LET u == Under(y, src, dst)
         IN  /\ u \in Seq(Names) /\ Len(u) = Len(dst) + (Len(y) - Len(src))
             /\ \A i \in 1..Len(dst) : u[i] = dst[i]
             /\ \A i \in 1..(Len(y) - Len(src)) : u[Len(dst) + i] = y[Len(src) + i]
<1> DEFINE m == Len(src)
           n == Len(y)
           d == Len(dst)
           rest == SubSeq(y, m + 1, n)
           u == dst \o rest
<1>1. m \in Nat /\ n \in Nat /\ d \in Nat /\ m < n
  BY StrictPrefixIs, LenProperties
<1>2. rest \in Seq(Names) /\ Len(rest) = n - m /\ \A i \in 1..(n - m) : rest[i] = y[m + i]
  BY <1>1, SubSeqProperties
<1> HIDE DEF rest
<1>3. /\ u \in Seq(Names) /\ Len(u) = d + (n - m)
      /\ \A i \in 1..(d + (n - m)) : u[i] = IF i <= d THEN dst[i] ELSE rest[i - d]
  <2>1. /\ u \in Seq(Names) /\ Len(u) = Len(dst) + Len(rest)
        /\ \A i \in 1..(Len(dst) + Len(rest)) : u[i] = IF i <= Len(dst) THEN dst[i] ELSE rest[i - Len(dst)]
    BY <1>2, ConcatProperties
  <2> HIDE DEF u
  <2> QED BY <1>2, <2>1
<1>4. u = Under(y, src, dst)
  BY DEF Under, rest
<1> HIDE DEF u, m, n, d
<1>5. \A i \in 1..d : i \in 1..(d + (n - m)) /\ i <= d
  BY <1>1
<1>6. \A i \in 1..(n - m) : d + i \in 1..(d + (n - m)) /\ ~ (d + i <= d) /\ (d + i) - d = i
  BY <1>1
<1>7. \A i \in 1..d : u[i] = dst[i]
  BY <1>3, <1>5
<1>8. \A i \in 1..(n - m) : u[d + i] = y[m + i]
  BY <1>2, <1>3, <1>6
<1> QED BY <1>3, <1>4, <1>7, <1>8 DEF m, n, d

(* What moves with a directory is under its new name, and moves apart.      *)
LEMMA UnderIsBelow ==
  ASSUME NEW y \in Seq(Names), NEW src \in Seq(Names), NEW dst \in Seq(Names),
         Seam!IsStrictPrefix(src, y)
  PROVE  Seam!IsStrictPrefix(dst, Under(y, src, dst))
<1> DEFINE u == Under(y, src, dst)
           m == Len(src)
           n == Len(y)
           d == Len(dst)
<1>1. m \in Nat /\ n \in Nat /\ d \in Nat /\ m < n
  BY StrictPrefixIs, LenProperties
<1>2. u \in Seq(Names) /\ Len(u) = d + (n - m) /\ \A i \in 1..d : u[i] = dst[i]
  BY UnderAt
<1> HIDE DEF u
<1>3. d < Len(u)
  BY <1>1, <1>2
<1> QED BY <1>2, <1>3, StrictPrefixIs DEF u

LEMMA UnderTellsApart ==
  ASSUME NEW y \in Seq(Names), NEW z \in Seq(Names), NEW src \in Seq(Names), NEW dst \in Seq(Names),
         Seam!IsStrictPrefix(src, y), Seam!IsStrictPrefix(src, z),
         Under(y, src, dst) = Under(z, src, dst)
  PROVE  y = z
<1> DEFINE u == Under(y, src, dst)
           m == Len(src)
           n == Len(y)
           k == Len(z)
           d == Len(dst)
<1>1. /\ m \in Nat /\ n \in Nat /\ d \in Nat /\ k \in Nat /\ m < n /\ m < k
      /\ \A i \in 1..m : src[i] = y[i] /\ src[i] = z[i]
  BY StrictPrefixIs, LenProperties
<1>2. Len(u) = d + (n - m) /\ \A i \in 1..(n - m) : u[d + i] = y[m + i]
  BY UnderAt
<1>3. Len(u) = d + (k - m) /\ \A i \in 1..(k - m) : u[d + i] = z[m + i]
  <2> DEFINE w == Under(z, src, dst)
  <2>1. Len(w) = d + (k - m) /\ \A i \in 1..(k - m) : w[d + i] = z[m + i]
    BY UnderAt
  <2>2. u = w
    OBVIOUS
  <2> HIDE DEF u, w
  <2> QED BY <2>1, <2>2
<1> HIDE DEF u, m, n, k, d
<1>4. n = k
  BY <1>1, <1>2, <1>3
<1>5. ASSUME NEW i \in 1..n PROVE y[i] = z[i]
  <2>1. CASE i <= m
    BY <1>1, <1>5, <2>1
  <2>2. CASE ~ (i <= m)
    <3>1. i - m \in 1..(n - m) /\ i - m \in 1..(k - m) /\ m + (i - m) = i
      BY <1>1, <1>4, <1>5, <2>2
    <3> QED BY <1>2, <1>3, <3>1
  <2> QED BY <2>1, <2>2
<1>6. Len(y) = Len(z) /\ \A i \in 1..Len(y) : y[i] = z[i]
  BY <1>4, <1>5 DEF n, k
<1> QED BY <1>6, SeqEqual

LEMMA UnderTheParent ==
  ASSUME NEW y \in Seq(Names), NEW src \in Seq(Names), NEW dst \in Seq(Names),
         Seam!IsStrictPrefix(src, y)
  PROVE  Seam!parent_of(Under(y, src, dst)) =
           IF Seam!parent_of(y) = src THEN dst ELSE Under(Seam!parent_of(y), src, dst)
<1> DEFINE u == Under(y, src, dst)
           p == Seam!parent_of(u)
           q == Seam!parent_of(y)
           m == Len(src)
           n == Len(y)
           d == Len(dst)
<1>1. m \in Nat /\ n \in Nat /\ d \in Nat /\ m < n /\ \A i \in 1..m : src[i] = y[i]
  BY StrictPrefixIs, LenProperties
<1>2. /\ u \in Seq(Names) /\ Len(u) = d + (n - m)
      /\ \A i \in 1..d : u[i] = dst[i]
      /\ \A i \in 1..(n - m) : u[d + i] = y[m + i]
  BY UnderAt
<1>3. y # << >> /\ (q = src \/ Seam!IsStrictPrefix(src, q))
  BY AboveTheParent
<1>4. q \in Seq(Names) /\ Len(q) = n - 1 /\ \A i \in 1..(n - 1) : q[i] = y[i]
  BY <1>3, ParentIs
<1> HIDE DEF u, m, n, d
<1>5. u # << >>
  BY <1>1, <1>2
<1>6. p \in Seq(Names) /\ Len(p) = Len(u) - 1 /\ \A i \in 1..(Len(u) - 1) : p[i] = u[i]
  BY <1>2, <1>5, ParentIs
<1> HIDE DEF p, q
<1>7. CASE q = src
  <2>1. n - 1 = m
    BY <1>4, <1>7 DEF m
  <2>2. Len(p) = d /\ \A i \in 1..d : i \in 1..(Len(u) - 1) /\ p[i] = dst[i]
    BY <1>1, <1>2, <1>6, <2>1
  <2>3. p = dst
    BY <1>6, <2>2, SeqEqual DEF d
  <2> QED BY <1>7, <2>3 DEF p, q, u
<1>8. CASE q # src
  <2> DEFINE w == Under(q, src, dst)
  <2>1. Seam!IsStrictPrefix(src, q)
    BY <1>3, <1>8
  <2>2. m < n - 1
    BY <1>4, <2>1, StrictPrefixIs DEF m
  <2>3. /\ w \in Seq(Names) /\ Len(w) = d + ((n - 1) - m)
        /\ \A i \in 1..d : w[i] = dst[i]
        /\ \A i \in 1..((n - 1) - m) : w[d + i] = q[m + i]
    <3>1. /\ w \in Seq(Names) /\ Len(w) = d + (Len(q) - m)
          /\ \A i \in 1..d : w[i] = dst[i]
          /\ \A i \in 1..(Len(q) - m) : w[d + i] = q[m + i]
      BY <1>4, <2>1, UnderAt DEF d, m
    <3> QED BY <1>4, <3>1
  <2> HIDE DEF w
  <2>4. ASSUME NEW i \in 1..Len(p) PROVE p[i] = w[i]
    <3>0. i \in Nat /\ i \in 1..(Len(u) - 1) /\ i <= d + ((n - 1) - m) /\ 1 <= i
      BY <1>1, <1>2, <1>6, <2>4
    <3>1. CASE i <= d
      <4>1. i \in 1..d
        BY <1>1, <3>0, <3>1
      <4> QED BY <1>2, <1>6, <2>3, <3>0, <4>1
    <3>2. CASE ~ (i <= d)
      <4>1. /\ i - d \in 1..(n - m) /\ i - d \in 1..((n - 1) - m) /\ d + (i - d) = i
            /\ m + (i - d) \in 1..(n - 1)
        BY <1>1, <3>0, <3>2
      <4>2. u[i] = y[m + (i - d)] /\ w[i] = q[m + (i - d)]
        BY <1>2, <2>3, <4>1
      <4> QED BY <1>4, <1>6, <3>0, <4>1, <4>2
    <3> QED BY <3>1, <3>2
  <2>5. Len(p) = Len(w)
    BY <1>1, <1>2, <1>6, <2>3
  <2>6. p = w
    BY <1>6, <2>3, <2>4, <2>5, SeqEqual
  <2> QED BY <1>8, <2>6 DEF p, q, u, w
<1> QED BY <1>7, <1>8

-----------------------------------------------------------------------------
(* A tree is whole                                                         *)

(* What holds a name is a directory.                                        *)
Whole(s) ==
  \A p \in DOMAIN s.names : p # << >> => Seam!KindOf(s, Seam!parent_of(p)) = "dir"

(* Where something is below a path, something is in it.                     *)
LEMMA SomethingInside ==
  ASSUME NEW s, DOMAIN s.names \subseteq Seq(Names), Whole(s), NEW x \in Seq(Names),
         NEW y \in DOMAIN s.names, Seam!IsStrictPrefix(x, y)
  PROVE  \E z \in DOMAIN s.names : z # << >> /\ Seam!parent_of(z) = x
<1> DEFINE D == {n \in Nat : \E z \in DOMAIN s.names : Len(z) = n /\ Seam!IsStrictPrefix(x, z)}
<1>1. D # {} /\ D \subseteq Nat
  <2>1. Len(y) \in Nat
    BY LenProperties
  <2> QED BY <2>1
<1>2. PICK n \in D : \A m \in D : n <= m
  BY <1>1, LeastOf
<1>3. PICK z \in DOMAIN s.names : Len(z) = n /\ Seam!IsStrictPrefix(x, z)
  BY <1>2
<1> DEFINE q == Seam!parent_of(z)
<1>4. z \in Seq(Names) /\ z # << >> /\ (q = x \/ Seam!IsStrictPrefix(x, q))
  BY <1>3, AboveTheParent
<1>5. Len(q) = n - 1 /\ n \in Nat \ {0}
  BY <1>3, <1>4, ParentIs
<1>6. q \in DOMAIN s.names
  BY <1>4 DEF Whole, Seam!KindOf, Seam!exists
<1> HIDE DEF q
<1>7. ~ Seam!IsStrictPrefix(x, q)
  <2> SUFFICES ASSUME Seam!IsStrictPrefix(x, q) PROVE FALSE
    OBVIOUS
  <2>1. n - 1 \in D
    BY <1>5, <1>6
  <2> QED BY <1>2, <1>5, <2>1
<1> QED BY <1>3, <1>4, <1>7 DEF q

LEMMA MoveMoves ==
  ASSUME NEW s, DOMAIN s = Fields, NEW p \in DOMAIN s.names, s.names[p] # 0, NEW q
  PROVE  LET u == Seam!Move(s, p, q)
         IN  /\ DOMAIN u = Fields /\ u.inodes = s.inodes
             /\ DOMAIN u.names = ((DOMAIN s.names) \ {p}) \cup {q} /\ u.names[q] = s.names[p]
             /\ \A x \in DOMAIN s.names : x # p /\ x # q => u.names[x] = s.names[x]
<1> DEFINE t == Seam!Unbind(s, p)
           i == s.names[p]
           u == Seam!Bind(t, q, i)
<1>1. /\ DOMAIN t = Fields /\ t.inodes = s.inodes
      /\ DOMAIN t.names = (DOMAIN s.names) \ {p}
      /\ \A x \in DOMAIN s.names : x # p => t.names[x] = s.names[x]
  BY UnbindUnbinds
<1>2. Seam!Move(s, p, q) = u
  BY DEF Seam!Move
<1> HIDE DEF t, i
<1>3. i # 0
  BY DEF i
<1>4. /\ DOMAIN u = Fields /\ u.inodes = t.inodes
      /\ DOMAIN u.names = DOMAIN t.names \cup {q} /\ u.names[q] = i
      /\ \A x \in DOMAIN t.names : x # q => u.names[x] = t.names[x]
  BY <1>1, <1>3, BindBinds
<1> HIDE DEF u
<1>5. u.names[q] = s.names[p]
  BY <1>4 DEF i
<1> QED BY <1>1, <1>2, <1>4, <1>5

(* t is s with the names in S moved from below src to below dst.            *)
MovedOver(s, t, S, src, dst) ==
  /\ DOMAIN t = Fields /\ t.inodes = s.inodes
  /\ DOMAIN t.names = ((DOMAIN s.names) \ S) \cup {Under(y, src, dst) : y \in S}
  /\ \A x \in (DOMAIN s.names) \ S : t.names[x] = s.names[x]
  /\ \A y \in S : t.names[Under(y, src, dst)] = s.names[y]

(* The names in T move apart, to where no name was.                         *)
Clear(s, T, src, dst) ==
  /\ T \subseteq DOMAIN s.names
  /\ \A y \in T : s.names[y] # 0 /\ Under(y, src, dst) \notin DOMAIN s.names
  /\ \A y, z \in T : Under(y, src, dst) = Under(z, src, dst) => y = z

LEMMA OneMoreMoved ==
  ASSUME NEW s, NEW T, NEW src, NEW dst, Clear(s, T, src, dst), NEW S \in SUBSET T, NEW y \in T \ S,
         NEW t, MovedOver(s, t, S, src, dst)
  PROVE  MovedOver(s, Moved(t, y, src, dst), S \cup {y}, src, dst)
<1> DEFINE U(z) == Under(z, src, dst)
           w == U(y)
           u == Moved(t, y, src, dst)
<1>1. y \in DOMAIN s.names /\ y \in DOMAIN t.names /\ t.names[y] = s.names[y] /\ s.names[y] # 0
  BY DEF Clear, MovedOver
<1>2. \A z \in S : U(z) # w /\ z # y /\ U(z) \notin DOMAIN s.names
  BY DEF Clear
<1>3. w \notin DOMAIN s.names /\ w # y
  BY <1>1 DEF Clear
<1>4. u = Seam!Move(t, y, w)
  BY DEF Moved
<1> HIDE DEF U, w, u
<1>5. DOMAIN t = Fields /\ t.inodes = s.inodes
      /\ DOMAIN t.names = ((DOMAIN s.names) \ S) \cup {U(z) : z \in S}
      /\ (\A x \in (DOMAIN s.names) \ S : t.names[x] = s.names[x])
      /\ (\A z \in S : t.names[U(z)] = s.names[z])
  BY DEF MovedOver, U
<1>6. /\ DOMAIN u = Fields /\ u.inodes = t.inodes
      /\ DOMAIN u.names = ((DOMAIN t.names) \ {y}) \cup {w} /\ u.names[w] = t.names[y]
      /\ \A x \in DOMAIN t.names : x # y /\ x # w => u.names[x] = t.names[x]
  BY <1>1, <1>4, <1>5, MoveMoves
<1>7. w = U(y)
  BY DEF w, U
<1>8. DOMAIN u.names = ((DOMAIN s.names) \ (S \cup {y})) \cup {U(z) : z \in S \cup {y}}
  BY <1>1, <1>2, <1>3, <1>5, <1>6, <1>7
<1>9. \A x \in (DOMAIN s.names) \ (S \cup {y}) : u.names[x] = s.names[x]
  BY <1>3, <1>5, <1>6
<1>10. \A z \in S \cup {y} : u.names[U(z)] = s.names[z]
  BY <1>1, <1>2, <1>5, <1>6, <1>7
<1>11. MovedOver(s, u, S \cup {y}, src, dst)
  BY <1>5, <1>6, <1>8, <1>9, <1>10 DEF MovedOver, U
<1> QED BY <1>11 DEF u

LEMMA AllMoved ==
  ASSUME NEW s, NEW src, NEW dst,
         LET top == Seam!Move(s, src, dst)
         IN  /\ DOMAIN top = Fields /\ IsFiniteSet(DOMAIN top.names)
             /\ Clear(top, Seam!Below(top.names, src), src, dst)
  PROVE  LET top == Seam!Move(s, src, dst)
         IN  MovedOver(top, Seam!Rename(s, src, dst), Seam!Below(top.names, src), src, dst)
<1> DEFINE top == Seam!Move(s, src, dst)
           T == Seam!Below(top.names, src)
<1>1. DOMAIN top = Fields /\ Clear(top, T, src, dst) /\ IsFiniteSet(T)
  <2>1. T \subseteq DOMAIN top.names
    BY DEF Seam!Below
  <2> QED BY <2>1, FS_Subset
<1>2. PICK g : MovesIs(T, top, src, dst, g) /\ Seam!Rename(s, src, dst) = g[T]
  BY <1>1, RenameIs
<1> HIDE DEF top, T
<1>3. \A S \in SUBSET T : g[S] = IF S = {} THEN top ELSE Moved(g[S \ {One(S)}], One(S), src, dst)
  BY <1>2 DEF MovesIs
<1>4. \A S \in SUBSET T : IsFiniteSet(S) /\ Cardinality(S) \in Nat
  BY <1>1, FS_Subset, FS_CardinalityType
<1> DEFINE D == {n \in Nat : \E S \in SUBSET T : Cardinality(S) = n /\ ~ MovedOver(top, g[S], S, src, dst)}
<1>5. D = {}
  <2> SUFFICES ASSUME D # {} PROVE FALSE
    OBVIOUS
  <2>0. D \subseteq Nat
    OBVIOUS
  <2>1. PICK n \in D : \A m \in D : n <= m
    BY <2>0, LeastOf
  <2>2. PICK S \in SUBSET T : Cardinality(S) = n /\ ~ MovedOver(top, g[S], S, src, dst)
    BY <2>1
  <2>3. S # {}
    <3>1. MovedOver(top, top, {}, src, dst)
      BY <1>1 DEF MovedOver
    <3> QED BY <1>3, <2>2, <3>1
  <2>4. /\ Cardinality(S) \in Nat /\ Cardinality(S \ {One(S)}) = Cardinality(S) - 1
        /\ Cardinality(S \ {One(S)}) \in Nat /\ One(S) \in S
    BY <1>4, <2>3, OneIs
  <2> DEFINE R == S \ {One(S)}
  <2>5. R \in SUBSET T /\ ~ (n <= Cardinality(R)) /\ One(S) \in T \ R /\ R \cup {One(S)} = S
    BY <2>2, <2>4
  <2>6. Cardinality(R) \notin D /\ Cardinality(R) \in Nat
    BY <2>1, <2>4, <2>5
  <2>7. g[S] = Moved(g[R], One(S), src, dst)
    BY <1>3, <2>3
  <2> HIDE DEF R
  <2>8. MovedOver(top, g[R], R, src, dst)
    BY <2>5, <2>6
  <2>9. MovedOver(top, Moved(g[R], One(S), src, dst), R \cup {One(S)}, src, dst)
    BY <1>1, <2>5, <2>8, OneMoreMoved
  <2> QED BY <2>2, <2>5, <2>7, <2>9
<1>6. T \in SUBSET T
  OBVIOUS
<1>7. MovedOver(top, g[T], T, src, dst)
  BY <1>4, <1>5, <1>6
<1> QED BY <1>2, <1>7 DEF top, T

(* The names after a name was moved with all that is below it.              *)
TreeMoved(s, r, src, dst) ==
  /\ DOMAIN r = Fields /\ r.inodes = s.inodes
  /\ dst \in DOMAIN r.names /\ r.names[dst] = s.names[src]
  /\ \A y \in DOMAIN s.names : Seam!IsStrictPrefix(src, y) =>
       Under(y, src, dst) \in DOMAIN r.names /\ r.names[Under(y, src, dst)] = s.names[y]
  /\ \A x \in DOMAIN s.names : x # src /\ x # dst /\ ~ Seam!IsStrictPrefix(src, x) =>
       x \in DOMAIN r.names /\ r.names[x] = s.names[x]
  /\ \A p \in DOMAIN r.names :
       \/ p = dst
       \/ p \in DOMAIN s.names /\ p # src /\ r.names[p] = s.names[p]
       \/ \E y \in DOMAIN s.names : /\ Seam!IsStrictPrefix(src, y) /\ p = Under(y, src, dst)
                                    /\ r.names[p] = s.names[y]

(* A name moved with what it holds, to where nothing is, leaves the tree    *)
(* whole.                                                                   *)
LEMMA TreeMoves ==
  ASSUME NEW s, Tidy(s), Whole(s),
         NEW src \in DOMAIN s.names, src # << >>, NEW dst \in Seq(Names), dst # << >>,
         ~ Seam!IsStrictPrefix(src, dst),
         \A p \in DOMAIN s.names : p # << >> => Seam!parent_of(p) # dst,
         Seam!KindOf(s, Seam!parent_of(dst)) = "dir", src # dst
  PROVE  Whole(Seam!Rename(s, src, dst)) /\ TreeMoved(s, Seam!Rename(s, src, dst), src, dst)
<1> DEFINE D == DOMAIN s.names
           top == Seam!Move(s, src, dst)
           T == Seam!Below(top.names, src)
           U(y) == Under(y, src, dst)
           r == Seam!Rename(s, src, dst)
           Above(x, y) == Seam!IsStrictPrefix(x, y)
           up(x) == Seam!parent_of(x)
<1>1. DOMAIN s = Fields /\ D \subseteq Seq(Names) /\ IsFiniteSet(D) /\ \A p \in D : s.names[p] # 0
  BY DEF Tidy, Indexed
<1>2. \A y \in D : ~ Above(dst, y)
  <2> SUFFICES ASSUME NEW y \in D, Above(dst, y) PROVE FALSE
    OBVIOUS
  <2> QED BY <1>1, SomethingInside
<1>4. /\ DOMAIN top = Fields /\ top.inodes = s.inodes
      /\ DOMAIN top.names = (D \ {src}) \cup {dst} /\ top.names[dst] = s.names[src]
      /\ \A x \in D : x # src /\ x # dst => top.names[x] = s.names[x]
  BY <1>1, MoveMoves
<1>5. IsFiniteSet(DOMAIN top.names)
  <2>1. IsFiniteSet(D \ {src})
    BY <1>1, FS_Subset
  <2> HIDE DEF D
  <2>2. IsFiniteSet((D \ {src}) \cup {dst})
    BY <2>1, FS_AddElement
  <2> QED BY <1>4, <2>2
<1>6. ~ Above(src, src)
  BY DEF Seam!IsStrictPrefix
<1> HIDE DEF top
<1>7. \A x : x \in T <=> x \in D /\ Above(src, x)
  BY <1>4, <1>6 DEF Seam!Below
<1>8. \A x \in T : x # src /\ x # dst /\ x \in D /\ x \in Seq(Names) /\ top.names[x] = s.names[x]
  BY <1>1, <1>4, <1>6, <1>7
<1> HIDE DEF T
<1>9. Clear(top, T, src, dst)
  <2>1. T \subseteq DOMAIN top.names
    BY <1>4, <1>8
  <2>2. ASSUME NEW y \in T PROVE top.names[y] # 0 /\ U(y) \notin DOMAIN top.names
    <3>1. Above(dst, U(y))
      BY <1>1, <1>7, <1>8, UnderIsBelow
    <3>2. U(y) \notin D
      BY <1>2, <3>1
    <3>3. U(y) # dst
      BY <3>1 DEF Seam!IsStrictPrefix
    <3> QED BY <1>1, <1>4, <1>8, <3>2, <3>3
  <2>3. \A y, z \in T : U(y) = U(z) => y = z
    BY <1>1, <1>7, <1>8, UnderTellsApart
  <2> QED BY <2>1, <2>2, <2>3 DEF Clear
<1>10. MovedOver(top, r, T, src, dst)
  BY <1>4, <1>5, <1>9, AllMoved DEF top, T
<1> HIDE DEF r
<1>11. /\ DOMAIN r = Fields /\ r.inodes = s.inodes
       /\ DOMAIN r.names = (((D \ {src}) \cup {dst}) \ T) \cup {U(y) : y \in T}
       /\ \A x \in ((D \ {src}) \cup {dst}) \ T : r.names[x] = top.names[x]
       /\ \A y \in T : r.names[U(y)] = top.names[y]
  BY <1>4, <1>10 DEF MovedOver
<1>12. r.names[dst] = s.names[src] /\ dst \in DOMAIN r.names
  BY <1>4, <1>8, <1>11
<1>13. ASSUME NEW x \in D, x # src, x # dst, ~ Above(src, x), Seam!KindOf(s, x) = "dir"
       PROVE  Seam!KindOf(r, x) = "dir"
  <2>1. x \in DOMAIN r.names /\ r.names[x] = s.names[x]
    BY <1>4, <1>7, <1>11, <1>13
  <2> QED BY <1>11, <1>13, <2>1 DEF Seam!KindOf, Seam!exists, Seam!lookup
<1>14. ASSUME NEW p \in D, p # << >>, p # src, ~ Above(src, p)
       PROVE  Seam!KindOf(r, up(p)) = "dir"
  <2>1. Seam!KindOf(s, up(p)) = "dir" /\ up(p) # dst
    BY <1>14 DEF Whole
  <2>2. up(p) \in D /\ Above(up(p), p)
    BY <1>1, <1>14, <2>1, ParentIs DEF Seam!KindOf, Seam!exists
  <2>3. up(p) # src /\ ~ Above(src, up(p))
    BY <1>1, <1>14, <2>2, AboveAgain
  <2> HIDE DEF up
  <2> QED BY <1>13, <2>1, <2>2, <2>3
<1>15. Seam!KindOf(r, up(dst)) = "dir"
  <2>1. up(dst) \in D /\ Above(up(dst), dst) /\ up(dst) # dst
    BY ParentIs DEF Seam!KindOf, Seam!exists, Seam!IsStrictPrefix
  <2>2. up(dst) # src /\ ~ Above(src, up(dst))
    BY <1>1, <2>1, AboveAgain
  <2>3. Seam!KindOf(s, up(dst)) = "dir"
    OBVIOUS
  <2> HIDE DEF up
  <2> QED BY <1>13, <2>1, <2>2, <2>3
<1>16. ASSUME NEW y \in T PROVE Seam!KindOf(r, up(U(y))) = "dir"
  <2>1. y \in D /\ y \in Seq(Names) /\ Above(src, y) /\ src \in Seq(Names)
    BY <1>1, <1>7, <1>8
  <2>2. y # << >> /\ (up(y) = src \/ Above(src, up(y)))
    BY <2>1, AboveTheParent
  <2>3. Seam!KindOf(s, up(y)) = "dir"
    BY <2>1, <2>2 DEF Whole
  <2>4. up(U(y)) = IF up(y) = src THEN dst ELSE U(up(y))
    BY <2>1, UnderTheParent
  <2> HIDE DEF up, U
  <2>5. up(y) \in D /\ s.inodes[s.names[up(y)]].kind = "dir"
    BY <2>3 DEF Seam!KindOf, Seam!exists, Seam!lookup
  <2>6. CASE up(y) = src
    <3>1. s.inodes[r.names[dst]].kind = "dir"
      BY <1>12, <2>5, <2>6
    <3> QED BY <1>11, <1>12, <2>4, <2>6, <3>1 DEF Seam!KindOf, Seam!exists, Seam!lookup
  <2>7. CASE up(y) # src
    <3>1. up(y) \in T
      BY <1>7, <2>2, <2>5, <2>7
    <3>2. U(up(y)) \in DOMAIN r.names /\ r.names[U(up(y))] = s.names[up(y)]
      BY <1>8, <1>11, <3>1
    <3>3. s.inodes[r.names[U(up(y))]].kind = "dir"
      BY <2>5, <3>2
    <3> QED BY <1>11, <2>4, <2>7, <3>2, <3>3 DEF Seam!KindOf, Seam!exists, Seam!lookup
  <2> QED BY <2>6, <2>7
<1>17. ASSUME NEW p \in DOMAIN r.names, p # << >> PROVE Seam!KindOf(r, up(p)) = "dir"
  <2>1. CASE p \in T \/ \E y \in T : p = U(y)
    <3>1. \E y \in T : p = U(y)
      BY <1>9, <1>11, <2>1 DEF Clear
    <3> QED BY <1>16, <3>1
  <2>2. CASE p = dst
    BY <1>15, <2>2
  <2>3. CASE p # dst /\ p \notin T /\ ~ \E y \in T : p = U(y)
    <3>1. p \in D /\ p # src /\ ~ Above(src, p)
      BY <1>7, <1>11, <2>3
    <3> QED BY <1>14, <1>17, <3>1
  <2> QED BY <2>1, <2>2, <2>3
<1>18. Whole(r)
  BY <1>17 DEF Whole
<1>19. ASSUME NEW p \in DOMAIN r.names, p # dst
       PROVE  \/ p \in D /\ p # src /\ r.names[p] = s.names[p]
              \/ \E y \in D : Above(src, y) /\ p = U(y) /\ r.names[p] = s.names[y]
  BY <1>4, <1>7, <1>8, <1>11, <1>19
<1>20. TreeMoved(s, r, src, dst)
  BY <1>4, <1>7, <1>8, <1>11, <1>12, <1>19 DEF TreeMoved
<1> QED BY <1>18, <1>20 DEF r

LEMMA TreeMovesWhole ==
  ASSUME NEW s, Tidy(s), Whole(s),
         NEW src \in DOMAIN s.names, src # << >>, NEW dst \in Seq(Names), dst # << >>,
         ~ Seam!IsStrictPrefix(src, dst),
         \A p \in DOMAIN s.names : p # << >> => Seam!parent_of(p) # dst,
         Seam!KindOf(s, Seam!parent_of(dst)) = "dir",
         NEW low \in DOMAIN s.names, Seam!IsStrictPrefix(src, low)
  PROVE  Whole(Seam!Rename(s, src, dst))
<1>1. DOMAIN s.names \subseteq Seq(Names)
  BY DEF Tidy
<1>2. src # dst
  BY <1>1, SomethingInside
<1> QED BY <1>2, TreeMoves

(* The same of the law's names.                                             *)
WholeLaw(law) ==
  \A p \in DOMAIN law : p # << >> => Seam!At(law, Seam!parent_of(p), "none") = "dir"

LEMMA KindsAreTheLaws ==
  ASSUME NEW s, NEW law, NEW h, Agree(s, law, h)
  PROVE  /\ DOMAIN law = DOMAIN s.names
         /\ \A p : Seam!KindOf(s, p) = Seam!At(law, p, "none")
         /\ Whole(s) <=> WholeLaw(law)
<1>1. /\ DOMAIN law = DOMAIN s.names
      /\ \A p \in DOMAIN s.names : law[p] = s.inodes[s.names[p]].kind
  BY DEF Agree
<1>2. ASSUME NEW p PROVE Seam!KindOf(s, p) = Seam!At(law, p, "none")
  BY <1>1 DEF Seam!KindOf, Seam!exists, Seam!lookup, Seam!At
<1>3. Whole(s) <=> WholeLaw(law)
  BY <1>1, <1>2 DEF Whole, WholeLaw
<1> QED BY <1>1, <1>2, <1>3

LEMMA StepKeepsWhole ==
  ASSUME NEW law, DOMAIN law \subseteq Seq(Names), WholeLaw(law), NEW e, Sent(e),
         e.op \in Naming => Seam!Refusal(law, e) = "OK",
         e.op \in {"FILE-LINK", "FILE-RENAME"} => Seam!At(law, Seam!parent_of(e.to), "none") = "dir",
         e.op = "FILE-RENAME" => \A p \in DOMAIN law : ~ Seam!IsStrictPrefix(e.path, p)
  PROVE  WholeLaw(Seam!LawStep(law, e))
<1> DEFINE new == Seam!LawStep(law, e)
           up(x) == Seam!parent_of(x)
           Dir(x) == x \in DOMAIN law /\ law[x] = "dir"
           D == Seam!Declared(e)
<1>0. \A x : Seam!At(law, x, "none") = "dir" <=> Dir(x)
  BY DEF Seam!At
<1>1. \A p \in DOMAIN law : p # << >> => Dir(up(p)) /\ Seam!IsStrictPrefix(up(p), p)
  BY <1>0, ParentIs DEF WholeLaw
<1>2. ASSUME e.op \in Naming
      PROVE  /\ Seam!LawHeld(law, e) /\ e.path \in Seq(Names) /\ e.path # << >>
             /\ \A k \in 1..Len(D) : Seam!Meets(law, D[k])
  <2>1. \A k \in 1..Len(D) : Seam!Meets(law, D[k])
    BY <1>2, RefusalNamesACheck
  <2>2. D # << >>
    BY <1>2 DEF Naming, Seam!Minting, Seam!Declared, Seam!FileCreate, Seam!FileMkdir,
         Seam!FileSymlink, Seam!FileLink, Seam!FileUnlink, Seam!FileRmdir, Seam!FileRename
  <2>3. Seam!LawHeld(law, e)
    BY <2>1, <2>2 DEF Seam!LawHeld, Seam!Meets
  <2> QED BY <1>2, <2>1, <2>3 DEF Sent, Naming
<1>3. CASE e.op \notin Naming
  <2>1. Seam!Declared(e) = << >>
    BY <1>3 DEF Seam!Declared, Naming, Seam!Minting
  <2>2. ~ Seam!LawHeld(law, e)
    BY <2>1 DEF Seam!LawHeld
  <2>3. new = law
    BY <2>2 DEF Seam!LawStep
  <2> HIDE DEF new
  <2> QED BY <2>3 DEF new
<1>4. CASE e.op \in Seam!Minting
  <2>1. D = << <<"unbound", e.path>>, <<"bound", up(e.path)>>, <<"dir", up(e.path)>> >>
    BY <1>4 DEF Seam!Minting, Seam!Declared, Seam!FileCreate, Seam!FileMkdir, Seam!FileSymlink
  <2>2. /\ 1 \in 1..Len(D) /\ D[1] = <<"unbound", e.path>>
        /\ 3 \in 1..Len(D) /\ D[3] = <<"dir", up(e.path)>>
    BY <2>1
  <2>3. e.op \in Naming
    BY <1>4 DEF Naming
  <2> HIDE DEF D, up
  <2>4. Seam!Meets(law, <<"unbound", e.path>>) /\ Seam!Meets(law, <<"dir", up(e.path)>>)
    BY <1>2, <2>2, <2>3
  <2>5. e.path \notin DOMAIN law /\ Dir(up(e.path))
    BY <1>0, <2>4 DEF Seam!Meets, Seam!BindingCheck, Seam!KindCheck, Seam!Bound
  <2>6. new = Seam!With(law, e.path, e.kind)
    BY <1>2, <1>4, <2>3 DEF Seam!LawStep, Seam!Minting
  <2>7. /\ DOMAIN new = DOMAIN law \cup {e.path}
        /\ \A x \in DOMAIN law : new[x] = law[x]
    BY <2>5, <2>6 DEF Seam!With
  <2> HIDE DEF new
  <2>8. \A p \in DOMAIN new : p # << >> => Seam!At(new, up(p), "none") = "dir"
    BY <1>1, <2>5, <2>7 DEF Seam!At
  <2>9. WholeLaw(new)
    BY <2>8 DEF WholeLaw, up
  <2> QED BY <2>9 DEF new
<1>5. CASE e.op = "FILE-LINK"
  <2>1. e.op \in Naming /\ e.path \in DOMAIN law /\ e.to \notin DOMAIN law /\ Dir(up(e.to))
    BY <1>0, <1>5, Admitted DEF Naming
  <2>2. new = Seam!With(law, e.to, law[e.path])
    BY <1>2, <1>5, <2>1 DEF Seam!LawStep, Seam!Minting
  <2>3. /\ DOMAIN new = DOMAIN law \cup {e.to}
        /\ \A x \in DOMAIN law : new[x] = law[x]
    BY <2>1, <2>2 DEF Seam!With
  <2> HIDE DEF new, up
  <2>4. \A p \in DOMAIN new : p # << >> => Seam!At(new, up(p), "none") = "dir"
    BY <1>1, <2>1, <2>3 DEF Seam!At
  <2>5. WholeLaw(new)
    BY <2>4 DEF WholeLaw, up
  <2> QED BY <2>5 DEF new
<1>6. CASE e.op \in {"FILE-UNLINK", "FILE-RMDIR"}
  <2>0. e.op \in Naming
    BY <1>6 DEF Naming
  <2>1. \A p \in DOMAIN law : p # << >> => up(p) # e.path
    <3>1. CASE e.op = "FILE-UNLINK"
      <4>1. 2 \in 1..Len(D) /\ D[2] = <<"notdir", e.path>>
        BY <3>1 DEF Seam!Declared, Seam!FileUnlink
      <4> HIDE DEF D
      <4>2. Seam!Meets(law, <<"notdir", e.path>>)
        BY <1>2, <2>0, <4>1
      <4>3. ~ Dir(e.path)
        BY <1>0, <4>2 DEF Seam!Meets, Seam!KindCheck
      <4> QED BY <1>1, <4>3
    <3>2. CASE e.op = "FILE-RMDIR"
      <4>1. 3 \in 1..Len(D) /\ D[3] = <<"empty", e.path>>
        BY <3>2 DEF Seam!Declared, Seam!FileRmdir
      <4> HIDE DEF D
      <4>2. Seam!Meets(law, <<"empty", e.path>>)
        BY <1>2, <2>0, <4>1
      <4> QED BY <4>2 DEF Seam!Meets, Seam!ContainsCheck, Seam!Inside, Seam!Root
    <3> QED BY <1>6, <3>1, <3>2
  <2>2. new = Seam!Without(law, e.path)
    BY <1>2, <1>6, <2>0 DEF Seam!LawStep, Seam!LawUnbind, Seam!Root, Seam!Minting
  <2>3. /\ DOMAIN new = (DOMAIN law) \ {e.path}
        /\ \A x \in DOMAIN new : new[x] = law[x]
    BY <2>2 DEF Seam!Without
  <2> HIDE DEF new, up
  <2>4. \A p \in DOMAIN new : p # << >> => Seam!At(new, up(p), "none") = "dir"
    BY <1>1, <2>1, <2>3 DEF Seam!At
  <2>5. WholeLaw(new)
    BY <2>4 DEF WholeLaw, up
  <2> QED BY <2>5 DEF new
<1>7. CASE e.op = "FILE-RENAME"
  <2>0. e.op \in Naming /\ Dir(up(e.to)) /\ e.to # << >> /\ e.to \in Seq(Names)
        /\ ~ Seam!IsStrictPrefix(e.path, e.to)
    BY <1>0, <1>7 DEF Naming, Sent
  <2>1. \A p \in DOMAIN law : p # << >> => up(p) # e.path /\ up(p) # e.to
    <3>1. 2 \in 1..Len(D) /\ D[2] = <<"empty", e.to>>
      BY <1>7 DEF Seam!Declared, Seam!FileRename
    <3> HIDE DEF D
    <3>2. Seam!Meets(law, <<"empty", e.to>>)
      BY <1>2, <2>0, <3>1
    <3>3. \A p \in DOMAIN law : p # << >> => up(p) # e.to
      BY <3>2 DEF Seam!Meets, Seam!ContainsCheck, Seam!Inside, Seam!Root
    <3> QED BY <1>1, <1>7, <3>3
  <2>2. Seam!IsStrictPrefix(up(e.to), e.to)
    BY <2>0, ParentIs
  <2>3. up(e.to) # e.path /\ up(e.to) # e.to
    BY <2>0, <2>2 DEF Seam!IsStrictPrefix
  <2>4. new = Seam!With(Seam!Without(law, e.path), e.to, law[e.path])
    BY <1>2, <1>7, <2>0 DEF Seam!LawStep, Seam!LawUnbind, Seam!Root, Seam!Minting
  <2>5. /\ DOMAIN new = ((DOMAIN law) \ {e.path}) \cup {e.to}
        /\ \A x \in DOMAIN law : x # e.path /\ x # e.to => new[x] = law[x]
    BY <2>4 DEF Seam!Without, Seam!With
  <2> HIDE DEF new, up
  <2>6. \A p \in DOMAIN new : p # << >> => Seam!At(new, up(p), "none") = "dir"
    BY <1>1, <2>0, <2>1, <2>3, <2>5 DEF Seam!At
  <2>7. WholeLaw(new)
    BY <2>6 DEF WholeLaw, up
  <2> QED BY <2>7 DEF new
<1> QED BY <1>3, <1>4, <1>5, <1>6, <1>7 DEF Naming

(* Before the last record no directory was moved with what it holds.        *)
Settled == ~ Seam!Recovered /\ \A n \in 1..(Len(rec) - 1) : ~ Seam!Moved(n)

Standing == Settled => Whole(state) /\ Whole(Seam!Fold(rec))

LEMMA AskableIsInADirectory ==
  ASSUME DOMAIN state.names \subseteq Seq(Names), NEW p \in Seam!Askable
  PROVE  Seam!KindOf(state, Seam!parent_of(p)) = "dir"
<1>1. PICK d \in DOMAIN state.names, n \in Names : Seam!KindOf(state, d) = "dir" /\ p = Append(d, n)
  BY DEF Seam!Askable
<1>2. /\ d \in Seq(Names) /\ p \in Seq(Names) /\ Len(d) \in Nat /\ Len(p) = Len(d) + 1
      /\ \A i \in 1..Len(d) : p[i] = d[i]
  BY <1>1, AppendProperties, LenProperties
<1>3. p # << >>
  BY <1>2
<1> DEFINE q == Seam!parent_of(p)
<1>4. q \in Seq(Names) /\ Len(q) = Len(p) - 1 /\ \A i \in 1..(Len(p) - 1) : q[i] = p[i]
  BY <1>2, <1>3, ParentIs
<1> HIDE DEF q
<1>5. q = d
  <2>1. Len(q) = Len(d) /\ \A i \in 1..Len(d) : q[i] = d[i]
    BY <1>2, <1>4
  <2> QED BY <1>2, <1>4, <2>1, SeqEqual
<1> QED BY <1>1, <1>5 DEF q

LEMMA WholeGrows ==
  ASSUME NEW S, NEW r \in Seq(S), NEW e \in S, Sent(e),
         Tidy(Seam!Fold(r)), Whole(Seam!Fold(r)),
         Agree(Seam!Fold(r), Seam!LiveNamespace(r), Len(r)),
         e.op \in Naming => Seam!Refusal(Seam!LiveNamespace(r), e) = "OK",
         e.op \in {"FILE-LINK", "FILE-RENAME"} =>
           Seam!KindOf(Seam!Fold(r), Seam!parent_of(e.to)) = "dir"
  PROVE  Whole(Seam!Fold(Append(r, e)))
<1> DEFINE s == Seam!Fold(r)
           law == Seam!LiveNamespace(r)
           h == Len(r)
<1>1. DOMAIN law = DOMAIN s.names /\ (\A p : Seam!KindOf(s, p) = Seam!At(law, p, "none")) /\ WholeLaw(law)
  BY KindsAreTheLaws
<1>2. DOMAIN law \subseteq Seq(Names)
  BY <1>1 DEF Tidy
<1>3. CASE e.op = "FILE-RENAME" => Seam!Below(s.names, e.path) = {}
  <2>1. Agree(Seam!Fold(Append(r, e)), Seam!LiveNamespace(Append(r, e)), Len(r) + 1)
    BY <1>3, AdmittedGrows
  <2>2. Seam!LiveNamespace(Append(r, e)) = Seam!LawStep(law, e)
    BY LawGrows DEF Sent
  <2>3. e.op = "FILE-RENAME" => \A p \in DOMAIN law : ~ Seam!IsStrictPrefix(e.path, p)
    BY <1>1, <1>3 DEF Seam!Below
  <2>4. e.op \in {"FILE-LINK", "FILE-RENAME"} => Seam!At(law, Seam!parent_of(e.to), "none") = "dir"
    BY <1>1
  <2> HIDE DEF law
  <2>5. WholeLaw(Seam!LawStep(law, e))
    BY <1>1, <1>2, <2>3, <2>4, StepKeepsWhole DEF law
  <2> QED BY <2>1, <2>2, <2>5, KindsAreTheLaws
<1>4. CASE e.op = "FILE-RENAME" /\ Seam!Below(s.names, e.path) # {}
  <2>1. PICK low \in DOMAIN s.names : Seam!IsStrictPrefix(e.path, low)
    BY <1>4 DEF Seam!Below
  <2>2. /\ e.path \in Seq(Names) /\ e.path # << >> /\ e.to \in Seq(Names) /\ e.to # << >>
        /\ ~ Seam!IsStrictPrefix(e.path, e.to) /\ e.op \in Naming
    BY <1>4 DEF Sent, Naming
  <2>3. e.path \in DOMAIN law
    BY <1>4, <2>2, Admitted
  <2>4. \A p \in DOMAIN s.names : p # << >> => Seam!parent_of(p) # e.to
    <3> DEFINE D == Seam!Declared(e)
    <3>1. 2 \in 1..Len(D) /\ D[2] = <<"empty", e.to>>
      BY <1>4 DEF Seam!Declared, Seam!FileRename
    <3>2. \A k \in 1..Len(D) : Seam!Meets(law, D[k])
      BY <2>2, RefusalNamesACheck
    <3> HIDE DEF D, law
    <3>3. Seam!Meets(law, <<"empty", e.to>>)
      BY <3>1, <3>2
    <3> QED BY <1>1, <3>3 DEF Seam!Meets, Seam!ContainsCheck, Seam!Inside, Seam!Root
  <2>5. Seam!Fold(Append(r, e)) = Seam!Apply(s, e, h + 1)
    BY FoldGrows DEF Sent
  <2>6. Seam!Apply(s, e, h + 1) = Seam!Rename(s, e.path, e.to)
    BY <1>1, <1>4, <2>3 DEF Seam!Apply, Seam!Minting, Seam!AttrOps
  <2>7. Seam!KindOf(s, Seam!parent_of(e.to)) = "dir"
    BY <1>4
  <2> HIDE DEF s, law
  <2>8. Whole(Seam!Rename(s, e.path, e.to))
    BY <1>1, <2>1, <2>2, <2>3, <2>4, <2>7, TreeMovesWhole DEF s
  <2> QED BY <2>5, <2>6, <2>8
<1> QED BY <1>3, <1>4

LEMMA RecordKeepsStanding ==
  ASSUME InStep, Agreeing, Orderly, Standing, NEW e, rec' = Append(rec, e), state' = state,
         \/ e.op = "RECOVER"
         \/ e.op = "MIRROR"
         \/ /\ todo = << >> /\ Seam!Refusal(Seam!LiveNamespace(rec), e) = "OK"
            /\ e \in Seam!NameRequests \cup Seam!NodeRequests \cup Seam!LockRequests
            /\ Seam!VfsSends(e)
  PROVE  Standing'
<1> DEFINE n == Len(rec)
<1>1. /\ rec \in Seq(Held(rec)) /\ n \in Nat /\ rec' \in Seq(Held(rec')) /\ Len(rec') = n + 1
      /\ rec'[n + 1] = e /\ \A i \in 1..n : rec'[i] = rec[i]
  BY OneMore DEF InStep
<1>2. \A k \in 1..n : Seam!Moved(k)' <=> Seam!Moved(k)
  BY <1>1, PrefixesStay
<1> HIDE DEF n
<1>3. ASSUME Settled' PROVE Whole(state') /\ Whole(Seam!Fold(rec'))
  <2>1. (\A k \in 1..(n + 1) : rec'[k].op # "RECOVER") /\ \A k \in 1..n : ~ Seam!Moved(k)
    <3>1. (n + 1) - 1 = n
      BY <1>1
    <3> QED BY <1>1, <1>2, <1>3, <3>1 DEF Settled, Seam!Recovered
  <2>2. \A k \in 1..n : k \in 1..(n + 1)
    BY <1>1
  <2>3. Calm
    BY <1>1, <2>1, <2>2 DEF Calm, n
  <2>4. n + 1 \in 1..(n + 1) /\ e.op # "RECOVER" /\ SubSeq(rec, 1, n) = rec
    BY <1>1, <2>1 DEF n
  <2>5. Whole(state) /\ Whole(Seam!Fold(rec))
    <3>1. \A k \in 1..(n - 1) : k \in 1..n
      BY <1>1
    <3>2. Settled
      BY <2>3, <3>1 DEF Calm, Settled, Seam!Recovered, n
    <3> QED BY <3>2 DEF Standing
  <2>6. Agree(Seam!Fold(rec), Seam!LiveNamespace(rec), Len(rec)) /\ Tidy(Seam!Fold(rec))
    BY <1>1, <2>3, FoldTidy DEF Agreeing, Orderly, n
  <2>7. /\ Sent(e) /\ (e.op \in Naming => Seam!Refusal(Seam!LiveNamespace(rec), e) = "OK")
        /\ e.op \in {"FILE-LINK", "FILE-RENAME"} =>
             Seam!KindOf(Seam!Fold(rec), Seam!parent_of(e.to)) = "dir"
    <3>1. CASE e.op = "MIRROR"
      BY <3>1 DEF Sent, Naming, Seam!Minting
    <3>2. CASE e.op # "MIRROR"
      <4>1. /\ todo = << >> /\ Seam!Refusal(Seam!LiveNamespace(rec), e) = "OK"
            /\ e \in Seam!NameRequests \cup Seam!NodeRequests \cup Seam!LockRequests
            /\ Seam!VfsSends(e)
        BY <2>4, <3>2
      <4>2. high = Len(rec) /\ ~undone
        BY <2>3, <4>1 DEF InStep, Publishing, Agreeing, Calm
      <4>3. state = Seam!Fold(rec)
        BY <2>4, <4>2 DEF InStep, UpTo, n
      <4>4. Sent(e)
        BY <2>6, <4>1, <4>3, RequestsAreSent
      <4>5. e.op \in {"FILE-LINK", "FILE-RENAME"} => e.to \in Seam!Askable
        <5>1. e \in Seam!NodeRequests \cup Seam!LockRequests => e.op \notin {"FILE-LINK", "FILE-RENAME"}
          BY OthersNameNothing DEF Naming
        <5>2. e \in Seam!NameRequests /\ e.op \in {"FILE-LINK", "FILE-RENAME"} => e.to \in Seam!Askable
          BY DEF Seam!NameRequests, Seam!Rec
        <5> QED BY <4>1, <5>1, <5>2
      <4>6. DOMAIN state.names \subseteq Seq(Names)
        BY DEF Orderly, Tidy
      <4>7. e.op \in {"FILE-LINK", "FILE-RENAME"} => Seam!KindOf(state, Seam!parent_of(e.to)) = "dir"
        BY <4>5, <4>6, AskableIsInADirectory
      <4> QED BY <4>1, <4>3, <4>4, <4>7
    <3> QED BY <3>1, <3>2
  <2> DEFINE S == Held(rec) \cup {e}
  <2>8. rec \in Seq(S) /\ e \in S
    <3>1. Held(rec) \subseteq S
      OBVIOUS
    <3> HIDE DEF S
    <3>2. rec \in Seq(S)
      BY <1>1, <3>1
    <3> QED BY <3>2 DEF S
  <2> HIDE DEF S
  <2>9. Whole(Seam!Fold(Append(rec, e)))
    BY <2>5, <2>6, <2>7, <2>8, WholeGrows
  <2> QED BY <2>5, <2>9 DEF Whole
<1> QED BY <1>3 DEF Standing, Whole

(* What the port holds between two deliveries and when a publish is done.   *)
LEMMA DeliveredIs ==
  ASSUME InStep, InStep', Seam!Deliver, ~ undone'
  PROVE  state' = state \/ state' = Seam!Fold(rec)
<1> DEFINE m == Head(todo)
<1>1. /\ todo # << >> /\ m # 0 /\ rec' = rec /\ todo' = Tail(todo)
      /\ state' = Seam!Apply(state, rec[m], m)
  BY DEF Seam!Deliver, Seam!Mirrored, Seam!OnAppend
<1>2. Publishing /\ todo \in Seq(Nat) /\ high \in 0..Len(rec) /\ Len(rec) \in Nat
  BY <1>1 DEF InStep
<1>3. Len(todo) \in Nat \ {0} /\ m = todo[1]
  BY <1>1, <1>2, EmptySeq
<1>4. CASE Len(todo) = 1
  <2>1. todo' = << >>
    <3>1. Tail(todo) \in Seq(Nat) /\ Len(Tail(todo)) = Len(todo) - 1
      BY <1>1, <1>2, HeadTailProperties
    <3> QED BY <1>1, <1>4, <3>1, EmptySeq
  <2>2. high' = Len(rec') /\ state' = Seam!Fold(UpTo(high))'
    BY <2>1 DEF InStep, Publishing
  <2>3. SubSeq(rec, 1, Len(rec)) = rec
    BY <1>2 DEF InStep
  <2> QED BY <1>1, <2>2, <2>3 DEF UpTo
<1>5. CASE Len(todo) # 1
  <2>1. 1 \in 1..(Len(todo) - 1)
    <3> DEFINE k == Len(todo)
    <3>1. k \in Nat \ {0} /\ k # 1
      BY <1>3, <1>5
    <3> HIDE DEF k
    <3>2. 1 \in 1..(k - 1)
      BY <3>1
    <3> QED BY <3>2 DEF k
  <2>2. m = Len(rec) /\ Len(rec) > high + 1
    BY <1>1, <1>2, <1>3, <2>1 DEF Publishing
  <2>3. m \in (high + 2)..Len(rec)
    BY <1>2, <2>2
  <2>4. rec[m].op = "MIRROR"
    BY <1>2, <2>3 DEF Publishing
  <2> HIDE DEF m
  <2> QED BY <1>1, <2>4, MirrorsApplyNothing
<1> QED BY <1>4, <1>5

LEMMA NextStanding ==
  InStep /\ InStep' /\ Agreeing /\ Agreeing' /\ Orderly /\ Standing /\ [Seam!Next]_(Seam!vars) => Standing'
<1> SUFFICES ASSUME InStep, InStep', Agreeing, Agreeing', Orderly, Standing, [Seam!Next]_(Seam!vars)
             PROVE  Standing'
  OBVIOUS
<1>1. ASSUME NEW R, R \subseteq Seam!NameRequests \cup Seam!NodeRequests \cup Seam!LockRequests, Seam!Ask(R)
      PROVE  Standing'
  <2>1. PICK e \in R : /\ Seam!VfsSends(e) /\ Seam!Refusal(Seam!LiveNamespace(rec), e) = "OK"
                       /\ Seam!Publish(e)
    BY <1>1 DEF Seam!Ask
  <2>2. todo = << >> /\ rec' = Append(rec, e) /\ state' = state
    BY <2>1 DEF Seam!Publish
  <2> QED BY <1>1, <2>1, <2>2, RecordKeepsStanding
<1>2. CASE Seam!DecideName
  BY <1>1, <1>2 DEF Seam!DecideName
<1>3. CASE Seam!DecideNode
  BY <1>1, <1>3 DEF Seam!DecideNode
<1>4. CASE Seam!DecideLock
  BY <1>1, <1>4 DEF Seam!DecideLock
<1>5. CASE Seam!Recover
  <2>1. PICK target \in 1..Len(rec) :
          Seam!Publish(Seam!Rec("RECOVER", Seam!NoPath, Seam!NoPath, "none", Seam!NoIno, target))
    BY <1>5 DEF Seam!Recover
  <2> DEFINE e == Seam!Rec("RECOVER", Seam!NoPath, Seam!NoPath, "none", Seam!NoIno, target)
  <2>2. e.op = "RECOVER" /\ rec' = Append(rec, e) /\ state' = state
    BY <2>1 DEF Seam!Rec, Seam!Publish
  <2> HIDE DEF e
  <2> QED BY <2>2, RecordKeepsStanding
<1>6. CASE Seam!Mirror
  <2> DEFINE e == Seam!Rec("MIRROR", Seam!NoPath, Seam!NoPath, "none", Seam!NoIno, Seam!NoVal)
  <2>1. e.op = "MIRROR" /\ rec' = Append(rec, e) /\ state' = state
    BY <1>6 DEF Seam!Rec, Seam!Mirror
  <2> HIDE DEF e
  <2> QED BY <2>1, RecordKeepsStanding
<1>0. ASSUME rec' = rec, state' = state \/ state' = Seam!Fold(rec) \/ ~ Settled PROVE Standing'
  <2>1. Settled' <=> Settled
    BY <1>0 DEF Settled, Seam!Recovered, Seam!Moved
  <2>2. ASSUME Settled PROVE Whole(state') /\ Whole(Seam!Fold(rec'))
    BY <1>0, <2>2 DEF Standing
  <2> QED BY <2>1, <2>2 DEF Standing, Whole
<1>7. CASE Seam!Deliver
  <2>1. rec' = rec
    BY <1>7 DEF Seam!Deliver
  <2>2. undone' => ~ Settled
    BY <2>1 DEF Agreeing, Settled, Seam!Recovered
  <2> QED BY <1>0, <1>7, <2>1, <2>2, DeliveredIs
<1>8. CASE Seam!Restart
  BY <1>0, <1>8 DEF Seam!Restart
<1>9. CASE UNCHANGED Seam!vars
  BY <1>0, <1>9 DEF Seam!vars
<1> QED BY <1>2, <1>3, <1>4, <1>5, <1>6, <1>7, <1>8, <1>9 DEF Seam!Next

LEMMA InitStanding == Seam!Init => Standing
<1> SUFFICES ASSUME Seam!Init PROVE Standing
  OBVIOUS
<1>1. rec = << >> /\ state = Seam!Fold(rec)
  BY DEF Seam!Init
<1>2. Seam!Fold(rec) = Seam!EmptyState
  <2>1. Len(rec) = 0
    BY <1>1
  <2>2. PICK s : FoldIs(rec, 0, s) /\ Seam!Fold(rec) = s[0]
    BY <2>1, FoldAre
  <2> QED BY <2>2 DEF FoldIs
<1>3. Whole(Seam!EmptyState)
  BY DEF Whole, Seam!EmptyState, Seam!Root
<1> QED BY <1>1, <1>2, <1>3 DEF Standing

LEMMA AlwaysStanding == Seam!Spec => []Standing
<1> QED BY AlwaysInStep, AlwaysAgreeing, AlwaysOrderly, InitStanding, NextStanding, PTL DEF Seam!Spec

(* The indexes the port keeps beside the names say what the names say,      *)
(* whatever is renamed, forgotten or recovered; and until something is      *)
(* asked after a directory was moved with what it holds, what holds a name  *)
(* is a served directory: moving one keeps the tree whole, for any tree and *)
(* any order in which its names are moved (custody.CustodyState._bind,      *)
(* _unbind, _rename).                                                       *)
THEOREM TheTreeIsWhole == Seam!Spec => []Seam!TreeIsWhole
<1>1. Orderly /\ Standing => Seam!TreeIsWhole
  <2> SUFFICES ASSUME Orderly, Standing PROVE Seam!TreeIsWhole
    OBVIOUS
  <2> DEFINE N == state.names
             D == DOMAIN N
             up(p) == Seam!parent_of(p)
             base(p) == Seam!basename(p)
             held(i) == {p \in D : N[p] = i}
             inside(d) == {base(p) : p \in {q \in D \ {<< >>} : up(q) = d}}
  <2>1. Index(state.paths, Bindings(N)) /\ Index(state.kids, Entries(D))
    BY DEF Orderly, Tidy, Indexed
  <2>2. state.paths = [i \in {N[p] : p \in D} |-> held(i)]
    <3>1. DOMAIN state.paths = {N[p] : p \in D}
      BY <2>1 DEF Index, Bindings
    <3>2. \A i \in DOMAIN state.paths : state.paths[i] = held(i)
      BY <2>1 DEF Index, Bindings
    <3>3. state.paths = [i \in DOMAIN state.paths |-> state.paths[i]]
      BY <2>1 DEF Index
    <3> HIDE DEF held, D, N
    <3> QED BY <3>1, <3>2, <3>3
  <2>3. state.kids = [d \in {up(p) : p \in D \ {<< >>}} |-> inside(d)]
    <3>1. DOMAIN state.kids = {up(p) : p \in D \ {<< >>}}
      BY <2>1 DEF Index, Entries
    <3>2. \A d \in DOMAIN state.kids : state.kids[d] = inside(d)
      BY <2>1 DEF Index, Entries
    <3>3. state.kids = [d \in DOMAIN state.kids |-> state.kids[d]]
      BY <2>1 DEF Index
    <3> HIDE DEF inside, D, N, up
    <3> QED BY <3>1, <3>2, <3>3
  <2>4. Settled => \A p \in D \ {<< >>} : Seam!KindOf(state, up(p)) = "dir"
    BY DEF Standing, Whole
  <2> QED BY <2>2, <2>3, <2>4 DEF Seam!TreeIsWhole, Settled, Seam!Root
<1> QED BY <1>1, AlwaysOrderly, AlwaysStanding, PTL

-----------------------------------------------------------------------------
(* The files of the mount's handles                                        *)

(* The port's tree after h records: whole, indexed as it is, its names are  *)
(* of files it has, none of them a name that libfuse mints.                 *)
Sane(s, h) ==
  /\ Tidy(s) /\ Whole(s)
  /\ \A p \in DOMAIN s.names : /\ s.names[p] \in DOMAIN s.inodes
                               /\ p # << >> => Fs!Last(p) # Hidden
  /\ DOMAIN s.inodes \subseteq 1..(h + 1)
  /\ \A i \in DOMAIN s.inodes : DOMAIN s.inodes[i] = NodeFields

(* The same tree, whatever the files hold.                                  *)
Alike(s, t) ==
  /\ DOMAIN t = Fields /\ t.names = s.names /\ t.kids = s.kids /\ t.paths = s.paths
  /\ DOMAIN t.inodes = DOMAIN s.inodes
  /\ \A i \in DOMAIN s.inodes : /\ DOMAIN t.inodes[i] = NodeFields
                                /\ t.inodes[i].kind = s.inodes[i].kind

(* No file went and none changed its kind.                                  *)
Lasting(s, u) ==
  \A i \in DOMAIN s.inodes : i \in DOMAIN u.inodes /\ u.inodes[i].kind = s.inodes[i].kind

LEMMA AlikeSane ==
  ASSUME NEW s, NEW t, NEW h \in Nat, NEW k \in Nat, h <= k, Sane(s, h), Alike(s, t)
  PROVE  Sane(t, k) /\ Lasting(s, t)
<1>1. Tidy(t)
  BY DEF Sane, Alike, Tidy, Indexed
<1>2. ASSUME NEW p \in DOMAIN t.names, p # << >> PROVE Seam!KindOf(t, Seam!parent_of(p)) = "dir"
  <2> DEFINE q == Seam!parent_of(p)
  <2>1. Seam!KindOf(s, q) = "dir"
    BY <1>2 DEF Sane, Whole, Alike
  <2> HIDE DEF q
  <2>2. q \in DOMAIN s.names /\ s.inodes[s.names[q]].kind = "dir" /\ s.names[q] \in DOMAIN s.inodes
    BY <2>1 DEF Seam!KindOf, Seam!exists, Seam!lookup, Sane
  <2>3. Seam!KindOf(t, q) = "dir"
    BY <2>2 DEF Seam!KindOf, Seam!exists, Seam!lookup, Alike
  <2> QED BY <2>3 DEF q
<1>3. Whole(t)
  BY <1>2 DEF Whole
<1>4. DOMAIN s.inodes \subseteq 1..(h + 1) /\ 1..(h + 1) \subseteq 1..(k + 1)
  BY DEF Sane
<1>5. DOMAIN t.inodes \subseteq 1..(k + 1)
  BY <1>4 DEF Alike
<1> QED BY <1>1, <1>3, <1>5 DEF Sane, Alike, Lasting

LEMMA AlikeIsLasting ==
  ASSUME NEW s, NEW t, NEW u, Alike(s, t), Alike(t, u)
  PROVE  Alike(s, u)
BY DEF Alike

LEMMA ApplyAlike ==
  ASSUME NEW s, DOMAIN s = Fields, \A i \in DOMAIN s.inodes : DOMAIN s.inodes[i] = NodeFields,
         NEW e, e.op \notin Naming, NEW n
  PROVE  Alike(s, Seam!Apply(s, e, n))
<1> DEFINE i == Seam!Node(s, e)
           u == Seam!Apply(s, e, n)
<1>0. i = 0 \/ i \in DOMAIN s.inodes
  BY DEF Seam!Node, Seam!NoIno
<1>1. CASE u = s
  <2>1. Alike(s, s)
    BY DEF Alike
  <2> QED BY <1>1, <2>1
<1>2. CASE u # s
  <2>1. i # 0 /\ \E v : \/ u = [s EXCEPT !.inodes[i].content = v]
                        \/ u = [s EXCEPT !.inodes[i].owner = v]
                        \/ u = [s EXCEPT !.inodes[i].attr = v]
    <3>1. CASE e.op \in {"FILE-WRITE", "FILE-TRUNCATE"} /\ i # 0
      <4>1. u = [s EXCEPT !.inodes[i].content = e.val]
        BY <3>1 DEF Seam!Apply, Seam!Minting, Seam!NoIno, Seam!AttrOps
      <4> QED BY <3>1, <4>1
    <3>2. CASE e.op = "FILE-CHOWN" /\ i # 0
      <4>1. u = [s EXCEPT !.inodes[i].owner = e.val]
        BY <3>2 DEF Seam!Apply, Seam!Minting, Seam!NoIno
      <4> QED BY <3>2, <4>1
    <3>3. CASE e.op \in Seam!AttrOps \ {"FILE-CHOWN"} /\ i # 0
      <4>1. u = [s EXCEPT !.inodes[i].attr = e.val]
        BY <3>3 DEF Seam!Apply, Seam!Minting, Seam!NoIno, Seam!AttrOps
      <4> QED BY <3>3, <4>1
    <3>4. CASE i = 0 \/ (e.op \notin {"FILE-WRITE", "FILE-TRUNCATE", "FILE-CHOWN"} /\ e.op \notin Seam!AttrOps)
      <4>1. u = s
        BY <3>4 DEF Seam!Apply, Seam!Minting, Seam!NoIno, Naming
      <4> QED BY <1>2, <4>1
    <3> QED BY <3>1, <3>2, <3>3, <3>4
  <2> HIDE DEF u, i
  <2>2. PICK v : \/ u = [s EXCEPT !.inodes[i].content = v]
                 \/ u = [s EXCEPT !.inodes[i].owner = v]
                 \/ u = [s EXCEPT !.inodes[i].attr = v]
    BY <2>1
  <2> DEFINE N == [s.inodes[i] EXCEPT !.content = v]
             O == [s.inodes[i] EXCEPT !.owner = v]
             A == [s.inodes[i] EXCEPT !.attr = v]
  <2>3. DOMAIN s.inodes[i] = NodeFields
    BY <1>0, <2>1 DEF i
  <2>4. /\ DOMAIN N = NodeFields /\ N.kind = s.inodes[i].kind
        /\ DOMAIN O = NodeFields /\ O.kind = s.inodes[i].kind
        /\ DOMAIN A = NodeFields /\ A.kind = s.inodes[i].kind
    BY <2>3 DEF NodeFields
  <2>5. \/ u = [s EXCEPT !.inodes = [@ EXCEPT ![i] = N]]
        \/ u = [s EXCEPT !.inodes = [@ EXCEPT ![i] = O]]
        \/ u = [s EXCEPT !.inodes = [@ EXCEPT ![i] = A]]
    BY <2>2
  <2> HIDE DEF N, O, A
  <2>6. PICK x : /\ DOMAIN x = NodeFields /\ x.kind = s.inodes[i].kind
                 /\ u = [s EXCEPT !.inodes = [@ EXCEPT ![i] = x]]
    BY <2>4, <2>5
  <2>7. /\ DOMAIN u = Fields /\ u.names = s.names /\ u.kids = s.kids /\ u.paths = s.paths
        /\ u.inodes = [s.inodes EXCEPT ![i] = x]
    BY <2>6 DEF Fields
  <2>8. Alike(s, u)
    BY <2>6, <2>7 DEF Alike
  <2> QED BY <2>8 DEF u
<1> QED BY <1>1, <1>2

(* Calls that name nothing leave the tree as it is.                         *)
Still(e) == e.op \notin Naming \cup {"RECOVER"}

LEMMA ActedIs ==
  ASSUME NEW a, IsSeq(a.rec), NEW e, e.op # "RECOVER"
  PROVE  /\ IsSeq(Acted(a, e).rec) /\ Len(Acted(a, e).rec) = Len(a.rec) + 1 /\ Len(a.rec) \in Nat
         /\ Acted(a, e).st = Seam!Apply(a.st, e, Len(a.rec) + 1)
<1> DEFINE r == Append(a.rec, e)
<1>1. IsSeq(r) /\ Len(a.rec) \in Nat /\ Len(r) = Len(a.rec) + 1 /\ r[Len(a.rec) + 1] = e
  BY SeqGrows
<1> HIDE DEF r
<1>2. Fs!Last(r) = e
  BY <1>1 DEF Fs!Last
<1>3. Fs!OnAppend(a.st, r) = Seam!Apply(a.st, e, Len(a.rec) + 1)
  BY <1>1, <1>2, SameApply DEF Fs!OnAppend
<1>4. Acted(a, e).rec = r /\ Acted(a, e).st = Fs!OnAppend(a.st, r)
  BY DEF Acted, r
<1> QED BY <1>1, <1>3, <1>4

LEMMA StillSteps ==
  ASSUME IsSeq(rec), DOMAIN served = Fields, \A i \in DOMAIN served.inodes : DOMAIN served.inodes[i] = NodeFields,
         NEW g, NEW es, NEW n \in Nat, g[0] = Before,
         \A k \in 1..n : g[k] = Acted(g[k - 1], es[k]) /\ Still(es[k])
  PROVE  IsSeq(g[n].rec) /\ Len(g[n].rec) = Len(rec) + n /\ Alike(served, g[n].st)
<1> DEFINE Good(k) == IsSeq(g[k].rec) /\ Len(g[k].rec) = Len(rec) + k /\ Alike(served, g[k].st)
<1>0. Len(rec) \in Nat
  BY DEF IsSeq
<1>1. Good(0)
  <2>1. Alike(served, served)
    BY DEF Alike
  <2>2. g[0].rec = rec /\ g[0].st = served
    BY DEF Before
  <2> QED BY <1>0, <2>1, <2>2
<1>2. ASSUME NEW k \in 1..n, Good(k - 1) PROVE Good(k)
  <2> DEFINE a == g[k - 1]
             e == es[k]
  <2>1. g[k] = Acted(a, e) /\ e.op # "RECOVER" /\ e.op \notin Naming
    BY DEF Still
  <2> HIDE DEF a, e
  <2>2. IsSeq(a.rec) /\ Len(a.rec) = Len(rec) + (k - 1) /\ Alike(served, a.st)
    BY <1>2 DEF a
  <2>3. /\ IsSeq(Acted(a, e).rec) /\ Len(Acted(a, e).rec) = Len(a.rec) + 1
        /\ Acted(a, e).st = Seam!Apply(a.st, e, Len(a.rec) + 1)
    BY <2>1, <2>2, ActedIs
  <2>4. DOMAIN a.st = Fields /\ \A i \in DOMAIN a.st.inodes : DOMAIN a.st.inodes[i] = NodeFields
    BY <2>2 DEF Alike
  <2>5. Alike(a.st, Seam!Apply(a.st, e, Len(a.rec) + 1))
    BY <2>1, <2>4, ApplyAlike
  <2>6. Alike(served, Acted(a, e).st)
    BY <2>2, <2>3, <2>5, AlikeIsLasting
  <2> QED BY <1>0, <2>1, <2>2, <2>3, <2>6
<1> HIDE DEF Good
<1> DEFINE D == {k \in 0..n : ~ Good(k)}
<1>5. D = {}
  <2>1. D \subseteq 0..n /\ 0 \notin D /\ \A k \in 1..n : k \in D => k - 1 \in D
    BY <1>1, <1>2
  <2> HIDE DEF D
  <2> QED BY <2>1, Climb
<1> QED BY <1>5 DEF Good

LEMMA StillActs ==
  ASSUME IsSeq(rec), NEW h, Sane(served, h),
         NEW es, IsSeq(es), \A k \in 1..Len(es) : Still(es[k]), Fs!Acts(es)
  PROVE  Alike(served, served')
<1>1. PICK g : /\ g[0] = Before
               /\ \A k \in 1..Len(es) : g[k] = Acted(g[k - 1], es[k])
               /\ Fs!AppendAll(es) = g[Len(es)]
  BY ActsSteps
<1>2. Len(es) \in Nat
  BY DEF IsSeq
<1>3. DOMAIN served = Fields /\ \A i \in DOMAIN served.inodes : DOMAIN served.inodes[i] = NodeFields
  BY DEF Sane, Tidy, Indexed
<1>4. Alike(served, g[Len(es)].st)
  BY <1>1, <1>2, <1>3, StillSteps
<1>5. served' = g[Len(es)].st
  BY <1>1 DEF Fs!Acts
<1> QED BY <1>4, <1>5

(* A call that closes bursts first and then names something.                *)
LEMMA LastActs ==
  ASSUME IsSeq(rec), NEW h, Sane(served, h),
         NEW q, IsSeq(q), \A k \in 1..Len(q) : Still(q[k]),
         NEW e, e.op # "RECOVER", Fs!Acts(Append(q, e))
  PROVE  \E s : Alike(served, s) /\ served' = Seam!Apply(s, e, Len(rec'))
<1> DEFINE es == Append(q, e)
           n == Len(q)
<1>1. IsSeq(es) /\ n \in Nat /\ Len(es) = n + 1 /\ es[n + 1] = e /\ \A k \in 1..n : es[k] = q[k]
  BY SeqGrows
<1>0. Fs!Acts(es)
  OBVIOUS
<1> HIDE DEF es
<1>2. PICK g : /\ g[0] = Before
               /\ \A k \in 1..Len(es) : g[k] = Acted(g[k - 1], es[k])
               /\ Fs!AppendAll(es) = g[Len(es)]
  BY <1>1, ActsSteps
<1>3. DOMAIN served = Fields /\ \A i \in DOMAIN served.inodes : DOMAIN served.inodes[i] = NodeFields
  BY DEF Sane, Tidy, Indexed
<1>4. \A k \in 1..n : g[k] = Acted(g[k - 1], es[k]) /\ Still(es[k])
  BY <1>1, <1>2
<1>5. IsSeq(g[n].rec) /\ Len(g[n].rec) = Len(rec) + n /\ Alike(served, g[n].st)
  BY <1>1, <1>2, <1>3, <1>4, StillSteps
<1>6. n + 1 \in 1..Len(es) /\ (n + 1) - 1 = n
  BY <1>1
<1>7. g[n + 1] = Acted(g[n], e)
  BY <1>1, <1>2, <1>6
<1>8. /\ Len(Acted(g[n], e).rec) = Len(g[n].rec) + 1
      /\ Acted(g[n], e).st = Seam!Apply(g[n].st, e, Len(g[n].rec) + 1)
  BY <1>5, ActedIs
<1>9. served' = Acted(g[n], e).st /\ rec' = Acted(g[n], e).rec
  BY <1>0, <1>1, <1>2, <1>7 DEF Fs!Acts
<1> QED BY <1>5, <1>8, <1>9

-----------------------------------------------------------------------------
LEMMA SameReads ==
  ASSUME NEW s, NEW p, NEW q
  PROVE  /\ Fs!parent_of(p) = Seam!parent_of(p) /\ Fs!Last(p) = Seam!basename(p)
         /\ Fs!exists(s, p) <=> p \in DOMAIN s.names
         /\ Fs!KindOf(s, p) = Seam!KindOf(s, p)
         /\ Fs!children(s, p) = Seam!At(s.kids, p, {})
         /\ Fs!IsPrefix(p, q) <=> Seam!IsPrefix(p, q)
         /\ Fs!IsStrictPrefix(p, q) <=> Seam!IsStrictPrefix(p, q)
BY DEF Fs!parent_of, Seam!parent_of, Fs!Front, Seam!Front, Fs!Last, Seam!basename, Seam!Last,
       Fs!exists, Fs!KindOf, Seam!KindOf, Fs!lookup, Seam!lookup, Seam!exists,
       Fs!children, Fs!At, Seam!At, Fs!IsPrefix, Seam!IsPrefix,
       Fs!IsStrictPrefix, Seam!IsStrictPrefix

(* Nothing is in a directory without entries, nor in what is none.          *)
Hollow(s, p) == \A q \in DOMAIN s.names : q # << >> => Seam!parent_of(q) # p

LEMMA HollowIs ==
  ASSUME NEW s, Tidy(s), Whole(s), NEW p
  PROVE  /\ Seam!At(s.kids, p, {}) = {} => Hollow(s, p)
         /\ Seam!KindOf(s, p) # "dir" => Hollow(s, p)
<1>1. ASSUME NEW q \in DOMAIN s.names, q # << >>, Seam!parent_of(q) = p
      PROVE  Seam!At(s.kids, p, {}) # {} /\ Seam!KindOf(s, p) = "dir"
  <2>1. <<p, Seam!basename(q)>> \in Entries(DOMAIN s.names)
    BY <1>1 DEF Entries
  <2>2. p \in DOMAIN s.kids /\ Seam!basename(q) \in s.kids[p]
    BY <2>1 DEF Tidy, Indexed, Index
  <2> QED BY <1>1, <2>2 DEF Seam!At, Whole
<1> QED BY <1>1 DEF Hollow

LEMMA NamesSane ==
  ASSUME NEW s, NEW h \in Nat, NEW k \in Nat, h <= k, Sane(s, h), NEW u, Tidy(u), Whole(u), u.inodes = s.inodes,
         \A p \in DOMAIN u.names : /\ u.names[p] \in DOMAIN s.inodes
                                   /\ p # << >> => Fs!Last(p) # Hidden
  PROVE  Sane(u, k) /\ Lasting(s, u)
<1>1. DOMAIN s.inodes \subseteq 1..(h + 1) /\ 1..(h + 1) \subseteq 1..(k + 1)
  BY DEF Sane
<1> QED BY <1>1 DEF Sane, Lasting

LEMMA BindWhole ==
  ASSUME NEW s, Whole(s), \A x \in DOMAIN s.names : s.names[x] \in DOMAIN s.inodes,
         NEW u, Lasting(s, u), NEW p, p \notin DOMAIN s.names,
         Seam!KindOf(s, Seam!parent_of(p)) = "dir",
         DOMAIN u.names = DOMAIN s.names \cup {p},
         \A x \in DOMAIN s.names : u.names[x] = s.names[x]
  PROVE  Whole(u)
<1>1. ASSUME NEW x, Seam!KindOf(s, x) = "dir" PROVE Seam!KindOf(u, x) = "dir"
  <2>1. x \in DOMAIN s.names /\ s.inodes[s.names[x]].kind = "dir"
    BY <1>1 DEF Seam!KindOf, Seam!exists, Seam!lookup
  <2> QED BY <2>1 DEF Seam!KindOf, Seam!exists, Seam!lookup, Lasting
<1> QED BY <1>1 DEF Whole

LEMMA MintStep ==
  ASSUME NEW s, NEW h \in Nat, NEW n \in Nat, h < n, Sane(s, h), NEW e, e.op \in Seam!Minting,
         e.path \in Seq(Names), e.path # << >>, e.path \notin DOMAIN s.names,
         Fs!Last(e.path) # Hidden, Seam!KindOf(s, Seam!parent_of(e.path)) = "dir"
  PROVE  LET u == Seam!Apply(s, e, n)
         IN  /\ Sane(u, n) /\ Lasting(s, u)
             /\ \A q \in DOMAIN s.names : q \in DOMAIN u.names /\ u.names[q] = s.names[q]
             /\ e.path \in DOMAIN u.names /\ u.names[e.path] \in DOMAIN u.inodes
             /\ u.inodes[u.names[e.path]].kind = e.kind
<1> DEFINE new == Seam!NewNode(e, n)
           f == Seam!FormalName(n)
           t == [s EXCEPT !.inodes = Seam!With(@, f, new)]
           u == Seam!Apply(s, e, n)
           p == e.path
<1>0. DOMAIN s = Fields
  BY DEF Sane, Tidy, Indexed
<1>1. u = Seam!Bind(t, p, f)
  BY DEF Seam!Apply, Seam!Minting, Seam!AttrOps
<1>2. DOMAIN new = NodeFields /\ new.kind = e.kind /\ f = 1 + n
  BY DEF Seam!NewNode, NodeFields, Seam!FormalName, Seam!RootIno
<1> HIDE DEF new, f
<1>3. /\ DOMAIN t = Fields /\ t.names = s.names
      /\ t.inodes = [x \in DOMAIN s.inodes \cup {f} |-> IF x = f THEN new ELSE s.inodes[x]]
  BY <1>0 DEF Fields, Seam!With
<1>4. f \notin DOMAIN s.inodes /\ f # 0 /\ DOMAIN s.inodes \cup {f} \subseteq 1..(n + 1)
  BY <1>2 DEF Sane
<1> HIDE DEF t
<1>5. /\ u.inodes = t.inodes /\ DOMAIN u.names = DOMAIN s.names \cup {p} /\ u.names[p] = f
      /\ \A q \in DOMAIN s.names : q # p => u.names[q] = s.names[q]
  <2>1. LET v == Seam!Bind(t, p, f)
        IN  /\ DOMAIN v = Fields /\ v.inodes = t.inodes
            /\ DOMAIN v.names = DOMAIN t.names \cup {p} /\ v.names[p] = f
            /\ \A q \in DOMAIN t.names : q # p => v.names[q] = t.names[q]
    BY <1>3, <1>4, BindBinds
  <2> HIDE DEF u
  <2> QED BY <1>1, <1>3, <2>1
<1>6. Tidy(u)
  <2>1. NamesPaths(e)
    BY DEF NamesPaths, Seam!Minting
  <2> QED BY <2>1, ApplyTidy DEF Sane
<1> HIDE DEF u
<1>7. Lasting(s, u)
  BY <1>3, <1>4, <1>5 DEF Lasting
<1>8. \A q \in DOMAIN s.names : s.names[q] \in DOMAIN s.inodes /\ q # p
  BY DEF Sane
<1>9. Whole(u)
  BY <1>5, <1>7, <1>8, BindWhole DEF Sane
<1>10. Sane(u, n)
  BY <1>2, <1>3, <1>4, <1>5, <1>6, <1>8, <1>9 DEF Sane
<1>11. u.names[p] \in DOMAIN u.inodes /\ u.inodes[u.names[p]].kind = e.kind
  BY <1>2, <1>3, <1>5
<1> QED BY <1>5, <1>7, <1>8, <1>10, <1>11 DEF u

LEMMA LinkStep ==
  ASSUME NEW s, NEW h \in Nat, NEW n \in Nat, h <= n, Sane(s, h), NEW e, e.op = "FILE-LINK",
         e.path \in DOMAIN s.names, e.path # << >>, e.to \in Seq(Names), e.to # << >>,
         e.to \notin DOMAIN s.names,
         Fs!Last(e.to) # Hidden, Seam!KindOf(s, Seam!parent_of(e.to)) = "dir"
  PROVE  LET u == Seam!Apply(s, e, n)
         IN  /\ Sane(u, n) /\ Lasting(s, u)
             /\ \A q \in DOMAIN s.names : q \in DOMAIN u.names /\ u.names[q] = s.names[q]
<1> DEFINE u == Seam!Apply(s, e, n)
           i == s.names[e.path]
<1>0. DOMAIN s = Fields /\ i \in DOMAIN s.inodes /\ i # 0 /\ e.path \in Seq(Names)
  BY DEF Sane, Tidy, Indexed
<1>1. u = Seam!Bind(s, e.to, i)
  BY DEF Seam!Apply, Seam!Minting, Seam!AttrOps
<1> HIDE DEF i
<1>2. /\ u.inodes = s.inodes /\ DOMAIN u.names = DOMAIN s.names \cup {e.to} /\ u.names[e.to] = i
      /\ \A q \in DOMAIN s.names : q # e.to => u.names[q] = s.names[q]
  BY <1>0, <1>1, BindBinds
<1>3. Tidy(u)
  <2>1. NamesPaths(e)
    BY <1>0 DEF NamesPaths
  <2> QED BY <2>1, ApplyTidy DEF Sane
<1> HIDE DEF u
<1>4. Lasting(s, u)
  BY <1>2 DEF Lasting
<1>5. \A q \in DOMAIN s.names : s.names[q] \in DOMAIN s.inodes /\ q # e.to
  BY DEF Sane
<1>6. Whole(u)
  BY <1>2, <1>4, <1>5, BindWhole DEF Sane
<1>7. \A p \in DOMAIN u.names : u.names[p] \in DOMAIN s.inodes /\ (p # << >> => Fs!Last(p) # Hidden)
  BY <1>0, <1>2, <1>5 DEF Sane
<1>8. Sane(u, n)
  BY <1>2, <1>3, <1>6, <1>7, NamesSane
<1> QED BY <1>2, <1>4, <1>5, <1>8 DEF u

LEMMA RemoveStep ==
  ASSUME NEW s, NEW h \in Nat, NEW n \in Nat, h <= n, Sane(s, h), NEW e,
         e.op \in {"FILE-UNLINK", "FILE-RMDIR"},
         e.path \in Seq(Names), e.path # << >>, Hollow(s, e.path)
  PROVE  LET u == Seam!Apply(s, e, n)
         IN  /\ Sane(u, n) /\ Lasting(s, u)
             /\ \A q \in DOMAIN s.names : q # e.path => q \in DOMAIN u.names /\ u.names[q] = s.names[q]
<1> DEFINE u == Seam!Apply(s, e, n)
<1>0. DOMAIN s = Fields
  BY DEF Sane, Tidy, Indexed
<1>1. u = Seam!Unbind(s, e.path)
  BY DEF Seam!Apply, Seam!Minting, Seam!AttrOps
<1>2. /\ u.inodes = s.inodes /\ DOMAIN u.names = (DOMAIN s.names) \ {e.path}
      /\ \A q \in DOMAIN s.names : q # e.path => u.names[q] = s.names[q]
  BY <1>0, <1>1, UnbindUnbinds
<1>3. Tidy(u)
  <2>1. NamesPaths(e)
    BY DEF NamesPaths
  <2> QED BY <2>1, ApplyTidy DEF Sane
<1> HIDE DEF u
<1>4. Lasting(s, u)
  BY <1>2 DEF Lasting
<1>6. ASSUME NEW q \in DOMAIN u.names, q # << >> PROVE Seam!KindOf(u, Seam!parent_of(q)) = "dir"
  <2> DEFINE x == Seam!parent_of(q)
  <2>1. Seam!KindOf(s, x) = "dir" /\ x # e.path
    BY <1>2, <1>6 DEF Sane, Whole, Hollow
  <2> HIDE DEF x
  <2>2. Seam!KindOf(u, x) = "dir"
    BY <1>2, <2>1 DEF Seam!KindOf, Seam!exists, Seam!lookup
  <2> QED BY <2>2 DEF x
<1>7. Whole(u)
  BY <1>6 DEF Whole
<1>8. \A p \in DOMAIN u.names : u.names[p] \in DOMAIN s.inodes /\ (p # << >> => Fs!Last(p) # Hidden)
  BY <1>2 DEF Sane
<1>9. Sane(u, n)
  BY <1>2, <1>3, <1>7, <1>8, NamesSane
<1> QED BY <1>2, <1>4, <1>9 DEF u

LEMMA LastUnder ==
  ASSUME NEW y \in Seq(Names), NEW src \in Seq(Names), NEW dst \in Seq(Names),
         Seam!IsStrictPrefix(src, y)
  PROVE  Fs!Last(Under(y, src, dst)) = Fs!Last(y)
<1> DEFINE u == Under(y, src, dst)
           m == Len(src)
           n == Len(y)
           d == Len(dst)
<1>1. m \in Nat /\ n \in Nat /\ d \in Nat /\ m < n
  BY StrictPrefixIs, LenProperties
<1>2. u \in Seq(Names) /\ Len(u) = d + (n - m) /\ \A i \in 1..(n - m) : u[d + i] = y[m + i]
  BY UnderAt
<1>3. n - m \in 1..(n - m) /\ m + (n - m) = n
  BY <1>1
<1> HIDE DEF u, m, n, d
<1>4. u[Len(u)] = y[n]
  BY <1>2, <1>3
<1> QED BY <1>4 DEF u, n, Fs!Last

LEMMA MoveStep ==
  ASSUME NEW s, NEW h \in Nat, NEW n \in Nat, h <= n, Sane(s, h), NEW e, e.op = "FILE-RENAME",
         e.path \in DOMAIN s.names, e.path # << >>, e.to \in Seq(Names), e.to # << >>,
         e.path # e.to, ~ Seam!IsStrictPrefix(e.path, e.to), Hollow(s, e.to),
         Fs!Last(e.to) # Hidden, Seam!KindOf(s, Seam!parent_of(e.to)) = "dir"
  PROVE  LET u == Seam!Apply(s, e, n)
         IN  Sane(u, n) /\ Lasting(s, u) /\ TreeMoved(s, u, e.path, e.to)
<1> DEFINE u == Seam!Apply(s, e, n)
<1>0. DOMAIN s = Fields /\ DOMAIN s.names \subseteq Seq(Names)
  BY DEF Sane, Tidy, Indexed
<1>1. u = Seam!Rename(s, e.path, e.to)
  BY DEF Seam!Apply, Seam!Minting, Seam!AttrOps
<1>2. Tidy(u)
  <2>1. NamesPaths(e)
    BY <1>0 DEF NamesPaths
  <2> QED BY <2>1, ApplyTidy DEF Sane
<1> HIDE DEF u
<1>3. Whole(u) /\ TreeMoved(s, u, e.path, e.to)
  BY <1>1, TreeMoves DEF Sane, Hollow
<1>4. ASSUME NEW p \in DOMAIN u.names
      PROVE  u.names[p] \in DOMAIN s.inodes /\ (p # << >> => Fs!Last(p) # Hidden)
  <2>1. CASE p = e.to
    BY <1>3, <2>1 DEF TreeMoved, Sane
  <2>2. CASE p \in DOMAIN s.names /\ u.names[p] = s.names[p]
    BY <2>2 DEF Sane
  <2>3. ASSUME NEW y \in DOMAIN s.names, Seam!IsStrictPrefix(e.path, y), p = Under(y, e.path, e.to),
               u.names[p] = s.names[y]
        PROVE  u.names[p] \in DOMAIN s.inodes /\ Fs!Last(p) # Hidden
    <3>1. y # << >>
      BY <1>0, <2>3, AboveTheParent
    <3>2. Fs!Last(p) = Fs!Last(y)
      BY <1>0, <2>3, LastUnder
    <3> QED BY <2>3, <3>1, <3>2 DEF Sane
  <2> QED BY <1>3, <1>4, <2>1, <2>2, <2>3 DEF TreeMoved
<1>5. u.inodes = s.inodes
  BY <1>3 DEF TreeMoved
<1>6. Sane(u, n) /\ Lasting(s, u)
  BY <1>2, <1>3, <1>4, <1>5, NamesSane
<1> QED BY <1>3, <1>6 DEF u

-----------------------------------------------------------------------------
Untouched == \A n \in 1..Len(rec) : rec[n].op # "RECOVER"

(* Something above the name was renamed. *)
Strays(r, name) == \E n \in 1..Len(r) : r[n].op = "FILE-RENAME" /\ Seam!IsStrictPrefix(r[n].to, name)

(* The alias of an unlinked open file is the only one there is, and a       *)
(* handle whose file is unlinked has it, or a directory above it moved; any *)
(* other handle has a name of its file.                                     *)
AsideOK(a, s) ==
  \A p \in DOMAIN a : /\ p \in Seq(Names) /\ p # << >> /\ Fs!Last(p) = Hidden
                      /\ a[p] \in DOMAIN s.inodes

HandleOK(x, s, a, r) ==
  /\ DOMAIN x = {"ino", "path"} /\ x.path \in Seq(Names) /\ x.path # << >>
  /\ x.ino \in DOMAIN s.inodes /\ s.inodes[x.ino].kind # "dir"
  /\ Fs!Last(x.path) = Hidden =>
       (\A p \in DOMAIN a : a[p] = x.ino) /\ (x.path \in DOMAIN a \/ Strays(r, x.path))
  /\ Fs!Last(x.path) # Hidden => x.path \in DOMAIN s.names /\ s.names[x.path] = x.ino

Follows(r, s, o, a) ==
  Sane(s, Len(r)) /\ AsideOK(a, s) /\ \A h \in DOMAIN o : HandleOK(o[h], s, a, r)

Following == Untouched => Follows(rec, served, handles, aside)

Longer(r, q) ==
  /\ Len(r) \in Nat /\ Len(q) \in Nat /\ Len(r) <= Len(q)
  /\ \A n \in 1..Len(r) : q[n] = r[n]

LEMMA LongerStrays ==
  ASSUME NEW r, NEW q, Longer(r, q), NEW p, Strays(r, p)
  PROVE  Strays(q, p)
<1>1. PICK n \in 1..Len(r) : r[n].op = "FILE-RENAME" /\ Seam!IsStrictPrefix(r[n].to, p)
  BY DEF Strays
<1>2. n \in 1..Len(q) /\ q[n] = r[n]
  BY DEF Longer
<1> QED BY <1>1, <1>2 DEF Strays

LEMMA HandleStays ==
  ASSUME NEW x, NEW s, NEW a, NEW r, HandleOK(x, s, a, r), NEW u, Lasting(s, u), NEW q, Longer(r, q),
         x.path \in DOMAIN s.names => x.path \in DOMAIN u.names /\ u.names[x.path] = s.names[x.path]
  PROVE  HandleOK(x, u, a, q)
<1>1. Strays(r, x.path) => Strays(q, x.path)
  BY LongerStrays
<1> QED BY <1>1 DEF HandleOK, Lasting

LEMMA AsideStays ==
  ASSUME NEW a, NEW s, AsideOK(a, s), NEW u, Lasting(s, u)
  PROVE  AsideOK(a, u)
BY DEF AsideOK, Lasting

LEMMA LastingAgain ==
  ASSUME NEW s, NEW t, NEW u, Lasting(s, t), Lasting(t, u)
  PROVE  Lasting(s, u)
BY DEF Lasting

LEMMA ActsLonger ==
  ASSUME IsSeq(rec), NEW es, IsSeq(es), Fs!Acts(es)
  PROVE  Longer(rec, rec') /\ (Untouched' => Untouched)
<1>1. /\ Len(rec) \in Nat /\ Len(es) \in Nat /\ Len(rec') = Len(rec) + Len(es)
      /\ \A n \in 1..Len(rec) : rec'[n] = rec[n]
  BY ActsAreNext
<1>2. Longer(rec, rec')
  BY <1>1 DEF Longer
<1>3. Untouched' => Untouched
  BY <1>1 DEF Untouched
<1> QED BY <1>2, <1>3

(* What a call that names nothing leaves of the tree and the handles.       *)
LEMMA StillFollows ==
  ASSUME Serving, Follows(rec, served, handles, aside),
         NEW es, IsSeq(es), \A k \in 1..Len(es) : Still(es[k]), Fs!Acts(es)
  PROVE  /\ Sane(served', Len(rec')) /\ AsideOK(aside, served')
         /\ served'.names = served.names /\ Lasting(served, served')
         /\ \A h \in DOMAIN handles : HandleOK(handles[h], served', aside, rec')
<1>1. Longer(rec, rec') /\ Len(rec) \in Nat /\ Len(rec') \in Nat /\ Len(rec) <= Len(rec')
  BY ActsLonger DEF Serving, Longer
<1>2. Alike(served, served')
  BY StillActs DEF Serving, Follows
<1>3. Sane(served', Len(rec')) /\ Lasting(served, served')
  BY <1>1, <1>2, AlikeSane DEF Follows
<1>4. served'.names = served.names
  BY <1>2 DEF Alike
<1>5. AsideOK(aside, served')
  BY <1>3, AsideStays DEF Follows
<1>6. \A h \in DOMAIN handles : HandleOK(handles[h], served', aside, rec')
  BY <1>1, <1>3, <1>4, HandleStays DEF Follows
<1> QED BY <1>3, <1>4, <1>5, <1>6

(* The tree on which a call's name is changed, once its bursts are closed.  *)
LEMMA NamedActs ==
  ASSUME Serving, Sane(served, Len(rec)),
         NEW q, IsSeq(q), \A k \in 1..Len(q) : Still(q[k]),
         NEW e, e.op # "RECOVER", Fs!Acts(Append(q, e))
  PROVE  /\ Longer(rec, rec') /\ Len(rec) < Len(rec')
         /\ \E k \in 1..Len(rec') : rec'[k] = e
         /\ \E s : /\ Alike(served, s) /\ Sane(s, Len(rec)) /\ Lasting(served, s)
                   /\ served' = Seam!Apply(s, e, Len(rec'))
<1> DEFINE es == Append(q, e)
<1>1. IsSeq(es) /\ Len(q) \in Nat /\ Len(es) = Len(q) + 1 /\ es[Len(q) + 1] = e
  BY SeqGrows
<1>2. Fs!Acts(es)
  OBVIOUS
<1>3. PICK s : Alike(served, s) /\ served' = Seam!Apply(s, e, Len(rec'))
  BY LastActs DEF Serving
<1> HIDE DEF es
<1>4. /\ Len(rec) \in Nat /\ Len(es) \in Nat /\ Len(rec') = Len(rec) + Len(es)
      /\ \A k \in 1..Len(es) : rec'[Len(rec) + k] = es[k]
  BY <1>1, <1>2, ActsAreNext DEF Serving
<1>5. Longer(rec, rec')
  BY <1>1, <1>2, ActsLonger DEF Serving
<1>6. Len(q) + 1 \in 1..Len(es)
  BY <1>1
<1>7. Len(rec) + (Len(q) + 1) \in 1..Len(rec') /\ rec'[Len(rec) + (Len(q) + 1)] = e
  BY <1>1, <1>4, <1>6
<1>8. Len(rec) < Len(rec')
  BY <1>1, <1>4
<1>9. Sane(s, Len(rec)) /\ Lasting(served, s)
  BY <1>3, <1>4, AlikeSane
<1> QED BY <1>3, <1>5, <1>7, <1>8, <1>9

LEMMA AlikeReads ==
  ASSUME NEW s, NEW h, Sane(s, h), NEW t, Alike(s, t), NEW p
  PROVE  /\ t.names = s.names /\ Seam!KindOf(t, p) = Seam!KindOf(s, p)
         /\ Hollow(s, p) => Hollow(t, p)
<1>1. Seam!KindOf(t, p) = Seam!KindOf(s, p)
  BY DEF Alike, Seam!KindOf, Seam!exists, Seam!lookup, Sane
<1> QED BY <1>1 DEF Hollow, Alike

LEMMA VisibleIs ==
  ASSUME NEW p \in Fs!Visible
  PROVE  p \in Seq(Names) /\ p # << >> /\ Fs!Last(p) # Hidden
<1>1. p \in Fs!Paths /\ p # << >> /\ ~ (p # << >> /\ Fs!Last(p) = Hidden)
  BY DEF Fs!Visible, Fs!Root
<1>2. PICK n \in 0..Depth : p \in [1..n -> Names]
  BY <1>1 DEF Fs!Paths
<1>3. n \in Nat
  BY <1>2
<1>4. p \in Seq(Names)
  BY <1>2, <1>3
<1> QED BY <1>1, <1>4

LEMMA ClosesAreStill ==
  ASSUME NEW bs, IsSeq(bs)
  PROVE  IsSeq(Fs!CloseRecs(bs)) /\ \A k \in 1..Len(Fs!CloseRecs(bs)) : Still(Fs!CloseRecs(bs)[k])
<1> DEFINE q == Fs!CloseRecs(bs)
<1>1. PICK S : q \in Seq(S) /\ \A e \in S : e.op = "FILE-WRITE"
  BY CloseRecsAre
<1> HIDE DEF q
<1>2. \A k \in 1..Len(q) : q[k] \in S
  BY <1>1
<1>3. \A e \in S : Still(e)
  BY <1>1 DEF Still, Naming, Seam!Minting
<1> QED BY <1>1, <1>2, <1>3 DEF IsSeq, q

-----------------------------------------------------------------------------
(* The calls, one by one *)

(* A handle whose name stays, where the tree is changed elsewhere.          *)
LEMMA NamedFollows ==
  ASSUME Serving, Follows(rec, served, handles, aside), Longer(rec, rec'),
         Sane(served', Len(rec')), Lasting(served, served'),
         \A h \in DOMAIN handles : handles[h].path \in DOMAIN served.names =>
           /\ handles[h].path \in DOMAIN served'.names
           /\ served'.names[handles[h].path] = served.names[handles[h].path]
  PROVE  /\ AsideOK(aside, served')
         /\ \A h \in DOMAIN handles : HandleOK(handles[h], served', aside, rec')
<1>1. AsideOK(aside, served')
  BY AsideStays DEF Follows
<1>2. \A h \in DOMAIN handles : HandleOK(handles[h], served', aside, rec')
  BY HandleStays DEF Follows
<1> QED BY <1>1, <1>2

LEMMA OneNamed ==
  ASSUME Serving, Sane(served, Len(rec)), NEW e, e.op # "RECOVER", Fs!Acts(<<e>>)
  PROVE  /\ Longer(rec, rec') /\ Len(rec) \in Nat /\ Len(rec') \in Nat /\ Len(rec) < Len(rec')
         /\ \E s : /\ Alike(served, s) /\ Sane(s, Len(rec)) /\ Lasting(served, s)
                   /\ served' = Seam!Apply(s, e, Len(rec'))
<1>1. IsSeq(<< >>) /\ Append(<< >>, e) = <<e>>
  BY Singles
<1>2. \A k \in 1..Len(<< >>) : Still(<< >>[k])
  OBVIOUS
<1>3. Fs!Acts(Append(<< >>, e))
  BY <1>1
<1>4. /\ Longer(rec, rec') /\ Len(rec) < Len(rec')
      /\ \E s : /\ Alike(served, s) /\ Sane(s, Len(rec)) /\ Lasting(served, s)
                /\ served' = Seam!Apply(s, e, Len(rec'))
  BY <1>1, <1>2, <1>3, NamedActs
<1> QED BY <1>4 DEF Longer

(* A new name. *)
LEMMA MintFollows ==
  ASSUME Serving, Follows(rec, served, handles, aside), NEW p \in Fs!Visible, p \notin DOMAIN served.names,
         Fs!ParentIsDir(p), NEW op \in Seam!Minting, NEW kind, NEW u,
         Fs!Acts(<<Fs!MakeRec(op, p, kind, u)>>)
  PROVE  /\ Sane(served', Len(rec')) /\ AsideOK(aside, served')
         /\ \A h \in DOMAIN handles : HandleOK(handles[h], served', aside, rec')
         /\ p \in DOMAIN served'.names /\ served'.names[p] \in DOMAIN served'.inodes
         /\ served'.inodes[served'.names[p]].kind = kind
<1> DEFINE e == Fs!MakeRec(op, p, kind, u)
<1>1. e.op = op /\ e.path = p /\ e.kind = kind /\ e.op # "RECOVER" /\ Fs!Acts(<<e>>)
  BY DEF Fs!MakeRec, Fs!Rec, Seam!Minting
<1> HIDE DEF e
<1>2. /\ Longer(rec, rec') /\ Len(rec) \in Nat /\ Len(rec') \in Nat /\ Len(rec) < Len(rec')
      /\ \E s : /\ Alike(served, s) /\ Sane(s, Len(rec)) /\ Lasting(served, s)
                /\ served' = Seam!Apply(s, e, Len(rec'))
  BY <1>1, OneNamed DEF Follows
<1>3. PICK s : /\ Alike(served, s) /\ Sane(s, Len(rec)) /\ Lasting(served, s)
               /\ served' = Seam!Apply(s, e, Len(rec'))
  BY <1>2
<1>4. s.names = served.names /\ Seam!KindOf(s, Seam!parent_of(p)) = "dir"
  <2>1. Seam!KindOf(served, Seam!parent_of(p)) = "dir"
    BY SameReads DEF Fs!ParentIsDir
  <2> QED BY <1>3, <2>1, AlikeReads DEF Follows
<1>5. /\ Sane(served', Len(rec')) /\ Lasting(s, served')
      /\ \A q \in DOMAIN s.names : q \in DOMAIN served'.names /\ served'.names[q] = s.names[q]
      /\ p \in DOMAIN served'.names /\ served'.names[p] \in DOMAIN served'.inodes
      /\ served'.inodes[served'.names[p]].kind = kind
  BY <1>1, <1>2, <1>3, <1>4, VisibleIs, MintStep
<1>6. Lasting(served, served')
  BY <1>3, <1>5, LastingAgain
<1>7. /\ AsideOK(aside, served')
      /\ \A h \in DOMAIN handles : HandleOK(handles[h], served', aside, rec')
  BY <1>2, <1>4, <1>5, <1>6, NamedFollows
<1> QED BY <1>5, <1>7

(* A name that nobody has open goes, or a second one is given.              *)
LEMMA PlainFollows ==
  ASSUME Serving, Follows(rec, served, handles, aside), NEW e, Fs!Acts(<<e>>),
         \/ /\ e.op \in {"FILE-UNLINK", "FILE-RMDIR"} /\ e.path \in Fs!Visible
            /\ e.path \in DOMAIN served.names /\ Hollow(served, e.path)
            /\ \A h \in DOMAIN handles : handles[h].path # e.path
         \/ /\ e.op = "FILE-LINK" /\ e.path \in Fs!Visible /\ e.to \in Fs!Visible
            /\ e.path \in DOMAIN served.names /\ e.to \notin DOMAIN served.names
            /\ Fs!ParentIsDir(e.to)
  PROVE  /\ Sane(served', Len(rec')) /\ AsideOK(aside, served')
         /\ \A h \in DOMAIN handles : HandleOK(handles[h], served', aside, rec')
<1>2. /\ Longer(rec, rec') /\ Len(rec) \in Nat /\ Len(rec') \in Nat /\ Len(rec) < Len(rec')
      /\ \E s : /\ Alike(served, s) /\ Sane(s, Len(rec)) /\ Lasting(served, s)
                /\ served' = Seam!Apply(s, e, Len(rec'))
  BY OneNamed DEF Follows
<1>3. PICK s : /\ Alike(served, s) /\ Sane(s, Len(rec)) /\ Lasting(served, s)
               /\ served' = Seam!Apply(s, e, Len(rec'))
  BY <1>2
<1>4. s.names = served.names /\ \A x : Seam!KindOf(s, x) = Seam!KindOf(served, x) /\ (Hollow(served, x) => Hollow(s, x))
  BY <1>3, AlikeReads DEF Follows
<1>5. /\ Sane(served', Len(rec')) /\ Lasting(s, served')
      /\ \A h \in DOMAIN handles : handles[h].path \in DOMAIN s.names =>
           /\ handles[h].path \in DOMAIN served'.names
           /\ served'.names[handles[h].path] = s.names[handles[h].path]
  <2>1. CASE /\ e.op \in {"FILE-UNLINK", "FILE-RMDIR"} /\ e.path \in Fs!Visible
             /\ e.path \in DOMAIN served.names /\ Hollow(served, e.path)
             /\ \A h \in DOMAIN handles : handles[h].path # e.path
    <3>1. /\ Sane(served', Len(rec')) /\ Lasting(s, served')
          /\ \A q \in DOMAIN s.names : q # e.path => q \in DOMAIN served'.names /\ served'.names[q] = s.names[q]
      <4>1. Len(rec) <= Len(rec') /\ e.path \in Seq(Names) /\ e.path # << >> /\ Hollow(s, e.path)
        BY <1>2, <1>4, <2>1, VisibleIs
      <4> QED BY <1>2, <1>3, <2>1, <4>1, RemoveStep
    <3> QED BY <2>1, <3>1
  <2>2. CASE /\ e.op = "FILE-LINK" /\ e.path \in Fs!Visible /\ e.to \in Fs!Visible
             /\ e.path \in DOMAIN served.names /\ e.to \notin DOMAIN served.names
             /\ Fs!ParentIsDir(e.to)
    <3>1. Seam!KindOf(s, Seam!parent_of(e.to)) = "dir"
      BY <1>4, <2>2, SameReads DEF Fs!ParentIsDir
    <3>2. Len(rec) <= Len(rec')
      BY <1>2
    <3> QED BY <1>2, <1>3, <1>4, <2>2, <3>1, <3>2, VisibleIs, LinkStep
  <2> QED BY <2>1, <2>2
<1>6. Lasting(served, served')
  BY <1>3, <1>5, LastingAgain
<1>7. /\ AsideOK(aside, served')
      /\ \A h \in DOMAIN handles : HandleOK(handles[h], served', aside, rec')
  BY <1>2, <1>4, <1>5, <1>6, NamedFollows
<1> QED BY <1>5, <1>7

LEMMA CreateFollows ==
  ASSUME Serving, Follows(rec, served, handles, aside), NEW p \in Fs!Visible, NEW u, Fs!Create(p, u)
  PROVE  Follows(rec', served', handles', aside')
<1>1. /\ p \notin DOMAIN served.names /\ Fs!ParentIsDir(p) /\ "FILE-CREATE" \in Seam!Minting
      /\ Fs!Acts(<<Fs!MakeRec("FILE-CREATE", p, "file", u)>>)
      /\ handles' = Fs!With(handles, nextFh, [ino |-> served'.names[p], path |-> p])
      /\ aside' = aside
  BY SameReads DEF Fs!Create, Seam!Minting
<1>2. /\ Sane(served', Len(rec')) /\ AsideOK(aside, served')
      /\ \A h \in DOMAIN handles : HandleOK(handles[h], served', aside, rec')
      /\ p \in DOMAIN served'.names /\ served'.names[p] \in DOMAIN served'.inodes
      /\ served'.inodes[served'.names[p]].kind = "file"
  BY <1>1, MintFollows
<1> DEFINE x == [ino |-> served'.names[p], path |-> p]
<1>3. DOMAIN x = {"ino", "path"} /\ x.path = p /\ x.ino = served'.names[p]
  OBVIOUS
<1> HIDE DEF x
<1>4. HandleOK(x, served', aside, rec')
  BY <1>2, <1>3, VisibleIs DEF HandleOK
<1>5. \A h \in DOMAIN handles' : HandleOK(handles'[h], served', aside, rec')
  <2>1. handles' = [h \in DOMAIN handles \cup {nextFh} |-> IF h = nextFh THEN x ELSE handles[h]]
    BY <1>1 DEF Fs!With, x
  <2> QED BY <1>2, <1>4, <2>1
<1> QED BY <1>1, <1>2, <1>5 DEF Follows

LEMMA PlainCallsFollow ==
  ASSUME Serving, Follows(rec, served, handles, aside), NEW p \in Fs!Visible,
         \/ \E u : \/ Fs!Make("FILE-MKDIR", "dir", p, u) \/ Fs!Make("FILE-SYMLINK", "link", p, u)
                   \/ Fs!Chown(p, u)
         \/ Fs!Rmdir(p) \/ Fs!Unlink(p) \/ Fs!SetAttr(p)
         \/ \E q \in Fs!Visible : Fs!Link(p, q)
  PROVE  Follows(rec', served', handles', aside')
<1> SUFFICES /\ handles' = handles /\ aside' = aside
             /\ Sane(served', Len(rec')) /\ AsideOK(aside, served')
             /\ \A h \in DOMAIN handles : HandleOK(handles[h], served', aside, rec')
  BY DEF Follows
<1>0. Tidy(served) /\ Whole(served) /\ \A h \in DOMAIN handles : HandleOK(handles[h], served, aside, rec)
  BY DEF Follows, Sane
<1>1. ASSUME NEW op \in Seam!Minting, NEW kind, NEW u, Fs!Make(op, kind, p, u)
      PROVE  /\ handles' = handles /\ aside' = aside
             /\ Sane(served', Len(rec')) /\ AsideOK(aside, served')
             /\ \A h \in DOMAIN handles : HandleOK(handles[h], served', aside, rec')
  <2>1. /\ p \notin DOMAIN served.names /\ Fs!ParentIsDir(p)
        /\ Fs!Acts(<<Fs!MakeRec(op, p, kind, u)>>) /\ handles' = handles /\ aside' = aside
    BY <1>1, SameReads DEF Fs!Make, Fs!Plain
  <2> QED BY <2>1, MintFollows
<1>2. ASSUME NEW e, Still(e), Fs!Acts(<<e>>), handles' = handles, aside' = aside
      PROVE  /\ Sane(served', Len(rec')) /\ AsideOK(aside, served')
             /\ \A h \in DOMAIN handles : HandleOK(handles[h], served', aside, rec')
  <2>1. IsSeq(<<e>>) /\ \A k \in 1..Len(<<e>>) : Still(<<e>>[k])
    BY <1>2, Singles
  <2> QED BY <1>2, <2>1, StillFollows
<1>3. ASSUME NEW u, Fs!Chown(p, u)
      PROVE  /\ handles' = handles /\ aside' = aside
             /\ Sane(served', Len(rec')) /\ AsideOK(aside, served')
             /\ \A h \in DOMAIN handles : HandleOK(handles[h], served', aside, rec')
  <2>1. Still(Fs!FileChown(Fs!NodeOf(p), u))
    BY DEF Still, Naming, Seam!Minting, Fs!FileChown, Fs!Rec
  <2> QED BY <1>2, <1>3, <2>1 DEF Fs!Chown
<1>4. ASSUME Fs!SetAttr(p)
      PROVE  /\ handles' = handles /\ aside' = aside
             /\ Sane(served', Len(rec')) /\ AsideOK(aside, served')
             /\ \A h \in DOMAIN handles : HandleOK(handles[h], served', aside, rec')
  <2>1. Still(Fs!FilePerm(Fs!NodeOf(p), "set"))
    BY DEF Still, Naming, Seam!Minting, Fs!FilePerm, Fs!Rec
  <2> QED BY <1>2, <1>4, <2>1 DEF Fs!SetAttr
<1>5. ASSUME Fs!Rmdir(p)
      PROVE  /\ handles' = handles /\ aside' = aside
             /\ Sane(served', Len(rec')) /\ AsideOK(aside, served')
             /\ \A h \in DOMAIN handles : HandleOK(handles[h], served', aside, rec')
  <2> DEFINE e == Fs!NameRec("FILE-RMDIR", p, Fs!Root, "none")
  <2>1. e.op = "FILE-RMDIR" /\ e.path = p
    BY DEF Fs!NameRec, Fs!Rec
  <2>2. /\ Fs!Acts(<<e>>) /\ handles' = handles /\ aside' = aside
        /\ Fs!KindOf(served, p) = "dir" /\ Fs!children(served, p) = {}
    BY <1>5 DEF Fs!Rmdir, Fs!Plain
  <2> HIDE DEF e
  <2>3. Seam!KindOf(served, p) = "dir" /\ Seam!At(served.kids, p, {}) = {}
    BY <2>2, SameReads
  <2>4. p \in DOMAIN served.names /\ served.inodes[served.names[p]].kind = "dir" /\ Hollow(served, p)
    BY <1>0, <2>3, HollowIs DEF Seam!KindOf, Seam!exists, Seam!lookup
  <2>5. \A h \in DOMAIN handles : handles[h].path # p
    BY <1>0, <2>4, VisibleIs DEF HandleOK
  <2> QED BY <2>1, <2>2, <2>4, <2>5, PlainFollows
<1>6. ASSUME Fs!Unlink(p)
      PROVE  /\ handles' = handles /\ aside' = aside
             /\ Sane(served', Len(rec')) /\ AsideOK(aside, served')
             /\ \A h \in DOMAIN handles : HandleOK(handles[h], served', aside, rec')
  <2> DEFINE e == Fs!NameRec("FILE-UNLINK", p, Fs!Root, "none")
  <2>1. e.op = "FILE-UNLINK" /\ e.path = p
    BY DEF Fs!NameRec, Fs!Rec
  <2>2. /\ Fs!Acts(<<e>>) /\ handles' = handles /\ aside' = aside
        /\ Fs!KindOf(served, p) # "dir" /\ Fs!exists(served, p) /\ ~ Fs!IsOpenAt(p)
    BY <1>6 DEF Fs!Unlink, Fs!Plain
  <2> HIDE DEF e
  <2>3. Seam!KindOf(served, p) # "dir" /\ p \in DOMAIN served.names
    BY <2>2, SameReads
  <2>4. Hollow(served, p) /\ \A h \in DOMAIN handles : handles[h].path # p
    BY <1>0, <2>2, <2>3, HollowIs DEF Fs!IsOpenAt
  <2> QED BY <2>1, <2>2, <2>3, <2>4, PlainFollows
<1>7. ASSUME NEW q \in Fs!Visible, Fs!Link(p, q)
      PROVE  /\ handles' = handles /\ aside' = aside
             /\ Sane(served', Len(rec')) /\ AsideOK(aside, served')
             /\ \A h \in DOMAIN handles : HandleOK(handles[h], served', aside, rec')
  <2> DEFINE e == Fs!NameRec("FILE-LINK", p, q, "none")
  <2>1. e.op = "FILE-LINK" /\ e.path = p /\ e.to = q
    BY DEF Fs!NameRec, Fs!Rec
  <2>2. /\ Fs!Acts(<<e>>) /\ handles' = handles /\ aside' = aside
        /\ Fs!exists(served, p) /\ ~ Fs!exists(served, q) /\ Fs!ParentIsDir(q)
    BY <1>7 DEF Fs!Link, Fs!Plain
  <2> HIDE DEF e
  <2>3. p \in DOMAIN served.names /\ q \notin DOMAIN served.names
    BY <2>2, SameReads
  <2> QED BY <2>1, <2>2, <2>3, PlainFollows
<1>8. "FILE-MKDIR" \in Seam!Minting /\ "FILE-SYMLINK" \in Seam!Minting
  BY DEF Seam!Minting
<1> QED BY <1>1, <1>3, <1>4, <1>5, <1>6, <1>7, <1>8

(* A file unlinked while it is open: the bursts at its name close, the name *)
(* goes, and the handles at it are at the alias.                            *)
LEMMA AsideFollows ==
  ASSUME Hidden \in Names, Serving, Follows(rec, served, handles, aside),
         NEW p \in Fs!Visible, Fs!RenameAside(p)
  PROVE  Follows(rec', served', handles', aside')
<1> DEFINE q == Fs!CloseRecs(Fs!BurstsAt(p))
           e == Fs!NameRec("FILE-UNLINK", p, Fs!Root, "none")
           new == Fs!HiddenPath(p)
           i == served.names[p]
<1>0. /\ Sane(served, Len(rec)) /\ Tidy(served) /\ Whole(served) /\ AsideOK(aside, served)
      /\ \A h \in DOMAIN handles : HandleOK(handles[h], served, aside, rec)
  BY DEF Follows, Sane
<1>1. /\ Fs!exists(served, p) /\ Fs!KindOf(served, p) # "dir" /\ ~ Fs!IsMinted
      /\ Fs!Acts(Append(q, e)) /\ aside' = Fs!With(aside, new, i)
      /\ handles' = [h \in DOMAIN handles |->
                       IF handles[h].path = p THEN [handles[h] EXCEPT !.path = new] ELSE handles[h]]
  BY DEF Fs!RenameAside
<1>2. e.op = "FILE-UNLINK" /\ e.path = p /\ e.op # "RECOVER"
  BY DEF Fs!NameRec, Fs!Rec
<1>3. IsSeq(q) /\ \A k \in 1..Len(q) : Still(q[k])
  BY Taken, ClosesAreStill
<1>4. p \in Seq(Names) /\ p # << >> /\ Fs!Last(p) # Hidden
  BY VisibleIs
<1>5. new \in Seq(Names) /\ new # << >> /\ Fs!Last(new) = Hidden
  <2> DEFINE f == Fs!parent_of(p)
  <2>1. f \in Seq(Names)
    BY <1>4, ParentIs, SameReads
  <2> HIDE DEF f
  <2>2. Append(f, Hidden) \in Seq(Names) /\ Append(f, Hidden) # << >>
        /\ Append(f, Hidden)[Len(Append(f, Hidden))] = Hidden
    BY <2>1
  <2> QED BY <2>2 DEF f, Fs!HiddenPath, Fs!Last
<1> HIDE DEF q, e, new
<1>6. /\ p \in DOMAIN served.names /\ i \in DOMAIN served.inodes /\ served.inodes[i].kind # "dir"
      /\ Hollow(served, p)
  <2>1. p \in DOMAIN served.names /\ Seam!KindOf(served, p) # "dir"
    BY <1>1, SameReads
  <2> QED BY <1>0, <2>1, HollowIs DEF Sane, Seam!KindOf, Seam!exists, Seam!lookup
<1>7. DOMAIN aside = {} /\ \A h \in DOMAIN handles : Fs!Last(handles[h].path) # Hidden
  BY <1>0, <1>1 DEF AsideOK, Fs!IsMinted
<1>8. /\ Longer(rec, rec') /\ Len(rec) < Len(rec')
      /\ \E s : /\ Alike(served, s) /\ Sane(s, Len(rec)) /\ Lasting(served, s)
                /\ served' = Seam!Apply(s, e, Len(rec'))
  BY <1>0, <1>1, <1>2, <1>3, NamedActs
<1>9. PICK s : /\ Alike(served, s) /\ Sane(s, Len(rec)) /\ Lasting(served, s)
               /\ served' = Seam!Apply(s, e, Len(rec'))
  BY <1>8
<1>10. s.names = served.names /\ Hollow(s, p)
  BY <1>0, <1>6, <1>9, AlikeReads
<1>11. /\ Sane(served', Len(rec')) /\ Lasting(s, served')
       /\ \A x \in DOMAIN s.names : x # p => x \in DOMAIN served'.names /\ served'.names[x] = s.names[x]
  <2>1. Len(rec) \in Nat /\ Len(rec') \in Nat /\ Len(rec) <= Len(rec')
    BY <1>8 DEF Longer
  <2> QED BY <1>2, <1>4, <1>9, <1>10, <2>1, RemoveStep
<1>12. Lasting(served, served')
  BY <1>9, <1>11, LastingAgain
<1>13. DOMAIN aside' = {new} /\ aside'[new] = i
  BY <1>1, <1>7 DEF Fs!With
<1>14. i \in DOMAIN served'.inodes /\ served'.inodes[i].kind # "dir"
  BY <1>6, <1>12 DEF Lasting
<1>15. AsideOK(aside', served')
  BY <1>5, <1>13, <1>14 DEF AsideOK
<1>16. ASSUME NEW h \in DOMAIN handles PROVE HandleOK(handles'[h], served', aside', rec')
  <2> DEFINE x == handles[h]
             y == [x EXCEPT !.path = new]
  <2>1. HandleOK(x, served, aside, rec) /\ Fs!Last(x.path) # Hidden
    BY <1>0, <1>7
  <2>2. handles'[h] = IF x.path = p THEN y ELSE x
    BY <1>1
  <2> HIDE DEF x
  <2>3. CASE x.path = p
    <3>1. DOMAIN y = {"ino", "path"} /\ y.path = new /\ y.ino = x.ino /\ x.ino = i
      BY <2>1, <2>3, <1>4 DEF HandleOK
    <3> HIDE DEF y
    <3>2. HandleOK(y, served', aside', rec')
      BY <1>5, <1>13, <1>14, <3>1 DEF HandleOK
    <3> QED BY <2>2, <2>3, <3>2
  <2>4. CASE x.path # p
    <3>1. /\ x.path \in DOMAIN served'.names
          /\ served'.names[x.path] = served.names[x.path]
      BY <1>10, <1>11, <2>1, <2>4 DEF HandleOK
    <3>2. HandleOK(x, served', aside', rec')
      BY <1>12, <2>1, <3>1 DEF HandleOK, Lasting
    <3> QED BY <2>2, <2>4, <3>2
  <2> QED BY <2>3, <2>4
<1>17. DOMAIN handles' = DOMAIN handles
  BY <1>1
<1> QED BY <1>11, <1>15, <1>16, <1>17 DEF Follows

LEMMA PrefixIs ==
  ASSUME NEW x \in Seq(Names), NEW y \in Seq(Names)
  PROVE  Fs!IsPrefix(x, y) <=> x = y \/ Seam!IsStrictPrefix(x, y)
<1>1. Len(x) \in Nat
  BY LenProperties
<1> QED BY <1>1 DEF Fs!IsPrefix, Seam!IsPrefix, Seam!IsStrictPrefix

(* A handle at a name that moved, below one that did, or elsewhere.         *)
LEMMA MovedHandle ==
  ASSUME NEW s, NEW t, t.names = s.names, NEW u, NEW old \in Seq(Names), NEW new \in Seq(Names),
         TreeMoved(t, u, old, new), Lasting(s, u), old \in DOMAIN s.names,
         Fs!Last(old) # Hidden, new # << >>, Fs!Last(new) # Hidden,
         NEW a, NEW r, NEW q, Longer(r, q),
         \E k \in 1..Len(q) : q[k].op = "FILE-RENAME" /\ q[k].to = new,
         NEW x, HandleOK(x, s, a, r), x.path # new
  PROVE  HandleOK(IF Fs!IsPrefix(old, x.path)
                  THEN [x EXCEPT !.path = new \o SubSeq(@, Len(old) + 1, Len(@))] ELSE x, u, a, q)
<1> DEFINE p == Under(x.path, old, new)
           y == [x EXCEPT !.path = p]
           z == [x EXCEPT !.path = new \o SubSeq(@, Len(old) + 1, Len(@))]
<1>0. /\ x.path \in Seq(Names) /\ DOMAIN x = {"ino", "path"} /\ x.ino \in DOMAIN u.inodes
      /\ u.inodes[x.ino].kind # "dir"
  BY DEF HandleOK, Lasting
<1>1. z = y
  BY <1>0 DEF Under
<1>2. DOMAIN y = {"ino", "path"} /\ y.path = p /\ y.ino = x.ino
  BY <1>0
<1> HIDE DEF y, z, p
<1>3. CASE x.path = old
  <2>1. p = new
    <3>1. Len(old) \in Nat /\ SubSeq(old, Len(old) + 1, Len(old)) = << >> /\ new \o << >> = new
      BY LenProperties
    <3> QED BY <1>3, <3>1 DEF p, Under
  <2>2. new \in DOMAIN u.names /\ u.names[new] = x.ino
    BY <1>3 DEF TreeMoved, HandleOK
  <2>3. HandleOK(y, u, a, q)
    BY <1>0, <1>2, <2>1, <2>2 DEF HandleOK
  <2>4. Fs!IsPrefix(old, x.path)
    BY <1>3, PrefixIs
  <2> QED BY <1>1, <2>3, <2>4 DEF z
<1>4. CASE Seam!IsStrictPrefix(old, x.path)
  <2>1. p \in Seq(Names) /\ Fs!Last(p) = Fs!Last(x.path)
    BY <1>0, <1>4, LastUnder, UnderAt DEF p
  <2>2. Seam!IsStrictPrefix(new, p) /\ p # << >>
    <3>1. /\ Len(p) = Len(new) + (Len(x.path) - Len(old)) /\ \A i \in 1..Len(new) : p[i] = new[i]
      BY <1>0, <1>4, UnderAt DEF p
    <3>2. Len(old) \in Nat /\ Len(x.path) \in Nat /\ Len(new) \in Nat /\ Len(old) < Len(x.path)
      BY <1>0, <1>4, StrictPrefixIs, LenProperties
    <3>3. Len(new) < Len(p)
      BY <3>1, <3>2
    <3>4. Seam!IsStrictPrefix(new, p)
      BY <2>1, <3>1, <3>3, StrictPrefixIs
    <3>5. p # << >>
      BY <3>2, <3>3
    <3> QED BY <3>4, <3>5
  <2>3. Strays(q, p)
    BY <2>2 DEF Strays
  <2>4. Fs!Last(x.path) # Hidden => p \in DOMAIN u.names /\ u.names[p] = x.ino
    BY <1>4 DEF TreeMoved, HandleOK, p
  <2>5. HandleOK(y, u, a, q)
    BY <1>0, <1>2, <2>1, <2>2, <2>3, <2>4 DEF HandleOK
  <2>6. Fs!IsPrefix(old, x.path)
    BY <1>0, <1>4, PrefixIs
  <2> QED BY <1>1, <2>5, <2>6 DEF z
<1>5. CASE x.path # old /\ ~ Seam!IsStrictPrefix(old, x.path)
  <2>1. x.path \in DOMAIN s.names => x.path \in DOMAIN u.names /\ u.names[x.path] = s.names[x.path]
    BY <1>5 DEF TreeMoved
  <2>2. HandleOK(x, u, a, q)
    BY <2>1, HandleStays
  <2>3. ~ Fs!IsPrefix(old, x.path)
    BY <1>0, <1>5, PrefixIs
  <2> QED BY <2>2, <2>3
<1> QED BY <1>3, <1>4, <1>5

(* A name moves, over nothing or over what is empty and is not open.        *)
LEMMA RenameFollows ==
  ASSUME Serving, Follows(rec, served, handles, aside),
         NEW old \in Fs!Visible, NEW new \in Fs!Visible, Fs!RenameTo(old, new)
  PROVE  Follows(rec', served', handles', aside')
<1> DEFINE q == Fs!CloseRecs(Fs!BurstsAt(old))
           e == Fs!NameRec("FILE-RENAME", old, new, "none")
<1>0. /\ Sane(served, Len(rec)) /\ Tidy(served) /\ Whole(served) /\ AsideOK(aside, served)
      /\ \A h \in DOMAIN handles : HandleOK(handles[h], served, aside, rec)
  BY DEF Follows, Sane
<1>1. /\ Fs!exists(served, old) /\ Fs!ParentIsDir(new) /\ ~ Fs!IsPrefix(old, new)
      /\ ~ Fs!IsOpenAt(new) /\ (Fs!exists(served, new) => Fs!children(served, new) = {})
      /\ Fs!Acts(Append(q, e)) /\ aside' = aside
      /\ handles' = [h \in DOMAIN handles |->
                       IF Fs!IsPrefix(old, handles[h].path)
                       THEN [handles[h] EXCEPT !.path = new \o SubSeq(@, Len(old) + 1, Len(@))]
                       ELSE handles[h]]
  BY DEF Fs!RenameTo
<1>2. e.op = "FILE-RENAME" /\ e.path = old /\ e.to = new /\ e.op # "RECOVER"
  BY DEF Fs!NameRec, Fs!Rec
<1>3. IsSeq(q) /\ \A k \in 1..Len(q) : Still(q[k])
  BY Taken, ClosesAreStill
<1> HIDE DEF q, e
<1>4. /\ old \in Seq(Names) /\ old # << >> /\ Fs!Last(old) # Hidden
      /\ new \in Seq(Names) /\ new # << >> /\ Fs!Last(new) # Hidden
  BY VisibleIs
<1>5. old # new /\ ~ Seam!IsStrictPrefix(old, new)
  BY <1>1, <1>4, PrefixIs
<1>6. old \in DOMAIN served.names /\ Seam!KindOf(served, Seam!parent_of(new)) = "dir"
  BY <1>1, SameReads DEF Fs!ParentIsDir
<1>7. Hollow(served, new)
  <2>1. CASE new \in DOMAIN served.names
    BY <1>0, <1>1, <2>1, SameReads, HollowIs
  <2>2. CASE new \notin DOMAIN served.names
    <3>1. Seam!KindOf(served, new) # "dir"
      BY <2>2 DEF Seam!KindOf, Seam!exists, Seam!lookup
    <3> QED BY <1>0, <3>1, HollowIs
  <2> QED BY <2>1, <2>2
<1>8. /\ Longer(rec, rec') /\ Len(rec) < Len(rec') /\ \E k \in 1..Len(rec') : rec'[k] = e
      /\ \E s : /\ Alike(served, s) /\ Sane(s, Len(rec)) /\ Lasting(served, s)
                /\ served' = Seam!Apply(s, e, Len(rec'))
  BY <1>0, <1>1, <1>2, <1>3, NamedActs
<1>9. PICK s : /\ Alike(served, s) /\ Sane(s, Len(rec)) /\ Lasting(served, s)
               /\ served' = Seam!Apply(s, e, Len(rec'))
  BY <1>8
<1>10. s.names = served.names /\ Hollow(s, new) /\ Seam!KindOf(s, Seam!parent_of(new)) = "dir"
  BY <1>0, <1>6, <1>7, <1>9, AlikeReads
<1>11. Sane(served', Len(rec')) /\ Lasting(s, served') /\ TreeMoved(s, served', old, new)
  <2>1. Len(rec) \in Nat /\ Len(rec') \in Nat /\ Len(rec) <= Len(rec')
    BY <1>8 DEF Longer
  <2> QED BY <1>2, <1>4, <1>5, <1>6, <1>9, <1>10, <2>1, MoveStep
<1>12. Lasting(served, served')
  BY <1>9, <1>11, LastingAgain
<1>13. AsideOK(aside', served')
  BY <1>0, <1>1, <1>12, AsideStays
<1>14. \E k \in 1..Len(rec') : rec'[k].op = "FILE-RENAME" /\ rec'[k].to = new
  BY <1>2, <1>8
<1>15. ASSUME NEW h \in DOMAIN handles PROVE HandleOK(handles'[h], served', aside', rec')
  <2> DEFINE x == handles[h]
  <2>1. HandleOK(x, served, aside, rec) /\ x.path # new
    BY <1>0, <1>1 DEF Fs!IsOpenAt
  <2>2. handles'[h] = IF Fs!IsPrefix(old, x.path)
                      THEN [x EXCEPT !.path = new \o SubSeq(@, Len(old) + 1, Len(@))] ELSE x
    BY <1>1
  <2> HIDE DEF x
  <2>3. HandleOK(IF Fs!IsPrefix(old, x.path)
                 THEN [x EXCEPT !.path = new \o SubSeq(@, Len(old) + 1, Len(@))] ELSE x,
                 served', aside, rec')
    BY <1>4, <1>6, <1>8, <1>10, <1>11, <1>12, <1>14, <2>1, MovedHandle
  <2> QED BY <1>1, <2>2, <2>3
<1>16. DOMAIN handles' = DOMAIN handles
  BY <1>1
<1> QED BY <1>11, <1>13, <1>15, <1>16 DEF Follows

(* Calls that name nothing and open nothing.                                *)
LEMMA StillCalls ==
  ASSUME Serving, Follows(rec, served, handles, aside),
         NEW es, IsSeq(es), \A k \in 1..Len(es) : Still(es[k]), Fs!Acts(es), aside' = aside,
         \A h \in DOMAIN handles' : h \in DOMAIN handles /\ handles'[h] = handles[h]
  PROVE  Follows(rec', served', handles', aside')
<1>1. /\ Sane(served', Len(rec')) /\ AsideOK(aside, served')
      /\ \A h \in DOMAIN handles : HandleOK(handles[h], served', aside, rec')
  BY StillFollows
<1> QED BY <1>1 DEF Follows

LEMMA StillsAre ==
  /\ \A i, v : Still(Fs!FileTruncate(i, v))
  /\ \A i, v : \A op \in {"FILE-LOCK", "FILE-UNLOCK"} : Still(Fs!FileRange(op, i, v))
BY DEF Still, Naming, Seam!Minting, Fs!FileTruncate, Fs!FileRange, Fs!Rec

LEMMA ReleasesStill ==
  ASSUME Serving, NEW ino, NEW who, NEW us, NEW ul
  PROVE  LET R == Fs!ReleaseLocks(ino, who, us, ul)
         IN  IsSeq(R) /\ \A k \in 1..Len(R) : Still(R[k])
<1> DEFINE H == Hit(ino, who, us, ul)
           R == Fs!ReleaseLocks(ino, who, us, ul)
<1>1. R \in Seq(Releases(H, us, ul))
  BY ReleasedAre DEF Serving
<1>2. \A e \in Releases(H, us, ul) : Still(e)
  BY StillsAre DEF Releases, GivenUp, Again
<1> HIDE DEF R, H
<1>3. IsSeq(R) /\ \A k \in 1..Len(R) : R[k] \in Releases(H, us, ul)
  BY <1>1 DEF IsSeq
<1> QED BY <1>2, <1>3 DEF R

LEMMA StillJoin ==
  ASSUME NEW a, NEW b, IsSeq(a), IsSeq(b),
         \A k \in 1..Len(a) : Still(a[k]), \A k \in 1..Len(b) : Still(b[k])
  PROVE  IsSeq(a \o b) /\ \A k \in 1..Len(a \o b) : Still((a \o b)[k])
<1>1. PICK S, T : a \in Seq(S) /\ b \in Seq(T)
  BY DEF IsSeq
<1> DEFINE A == {e \in S : Still(e)}
           B == {e \in T : Still(e)}
<1>2. a \in Seq(A) /\ b \in Seq(B)
  <2>1. Len(a) \in Nat /\ \A k \in 1..Len(a) : a[k] \in A
    BY <1>1
  <2>2. Len(b) \in Nat /\ \A k \in 1..Len(b) : b[k] \in B
    BY <1>1
  <2> HIDE DEF A, B
  <2>3. a \in [1..Len(a) -> A] /\ b \in [1..Len(b) -> B]
    BY <1>1, <2>1, <2>2
  <2> QED BY <2>1, <2>2, <2>3
<1>3. \A e \in A \cup B : Still(e)
  OBVIOUS
<1> HIDE DEF A, B
<1>4. a \o b \in Seq(A \cup B)
  <2>1. a \in Seq(A \cup B) /\ b \in Seq(A \cup B)
    BY <1>2
  <2> QED BY <2>1
<1>5. \A k \in 1..Len(a \o b) : (a \o b)[k] \in A \cup B
  BY <1>4
<1> QED BY <1>3, <1>4, <1>5 DEF IsSeq

LEMMA OpenFollows ==
  ASSUME Serving, Follows(rec, served, handles, aside), NEW p \in Fs!Visible, NEW trunc, Fs!Open(p, trunc)
  PROVE  Follows(rec', served', handles', aside')
<1> DEFINE i == served.names[p]
           e == Fs!FileTruncate(i, Empty)
           q == IF trunc THEN <<e>> ELSE << >>
           x == [ino |-> i, path |-> p]
<1>1. /\ Fs!exists(served, p) /\ Fs!KindOf(served, p) # "dir" /\ Fs!Acts(q)
      /\ handles' = Fs!With(handles, nextFh, x) /\ aside' = aside
  BY DEF Fs!Open
<1>2. Still(e)
  BY StillsAre
<1>3. DOMAIN x = {"ino", "path"} /\ x.path = p /\ x.ino = i
  OBVIOUS
<1> HIDE DEF e, x
<1>4. IsSeq(q) /\ \A k \in 1..Len(q) : Still(q[k])
  <2>1. IsSeq(<<e>>) /\ (\A k \in 1..Len(<<e>>) : Still(<<e>>[k]))
    BY <1>2, Singles
  <2>2. IsSeq(<< >>) /\ (\A k \in 1..Len(<< >>) : Still(<< >>[k]))
    BY Singles
  <2> QED BY <2>1, <2>2
<1> HIDE DEF q
<1>5. /\ Sane(served', Len(rec')) /\ AsideOK(aside, served')
      /\ served'.names = served.names /\ Lasting(served, served')
      /\ \A h \in DOMAIN handles : HandleOK(handles[h], served', aside, rec')
  BY <1>1, <1>4, StillFollows
<1>6. p \in DOMAIN served.names /\ i \in DOMAIN served.inodes /\ served.inodes[i].kind # "dir"
  BY <1>1, SameReads DEF Follows, Sane, Seam!KindOf, Seam!exists, Seam!lookup
<1>7. HandleOK(x, served', aside, rec')
  BY <1>3, <1>5, <1>6, VisibleIs DEF HandleOK, Lasting
<1>8. handles' = [h \in DOMAIN handles \cup {nextFh} |-> IF h = nextFh THEN x ELSE handles[h]]
  BY <1>1 DEF Fs!With
<1>9. \A h \in DOMAIN handles' : HandleOK(handles'[h], served', aside, rec')
  BY <1>5, <1>7, <1>8
<1> QED BY <1>1, <1>5, <1>9 DEF Follows

LEMMA ContentsFollow ==
  ASSUME Serving, Follows(rec, served, handles, aside), Fs!ContentCalls
  PROVE  Follows(rec', served', handles', aside')
<1> DEFINE Goal == Follows(rec', served', handles', aside')
<1> USE StillCalls
<1>1. ASSUME NEW p, NEW n, Fs!Truncate(p, n) PROVE Goal
  <2> DEFINE bs == Fs!BurstsAt(p)
             cur == IF bs = << >> THEN Fs!Recorded(Fs!NodeOf(p))
                    ELSE Fs!Last(Fs!CloseRecs(bs)).val
             q == Fs!CloseRecs(bs)
             e == Fs!FileTruncate(Fs!NodeOf(p), Fs!Truncated(cur, n))
             es == Append(q, e)
  <2>1. Fs!Acts(es) /\ aside' = aside /\ handles' = handles
    BY <1>1 DEF Fs!Truncate
  <2>2. IsSeq(q) /\ (\A k \in 1..Len(q) : Still(q[k])) /\ Still(e)
    BY Taken, ClosesAreStill, StillsAre
  <2> HIDE DEF q, e
  <2>3. IsSeq(es) /\ \A k \in 1..Len(es) : Still(es[k])
    BY <2>2, SeqGrows
  <2> HIDE DEF es
  <2> QED BY <2>1, <2>3
<1>2. ASSUME NEW p \in Fs!Visible, NEW trunc, Fs!Open(p, trunc) PROVE Goal
  BY <1>2, OpenFollows
<1>3. ASSUME NEW h, NEW offset, Fs!Write(h, offset) PROVE Goal
  <2> DEFINE new == Fs!Grown(h, offset)
             q == Fs!CloseRecs(<<new>>)
  <2>1. (Fs!Acts(q) \/ Fs!Acts(<< >>)) /\ aside' = aside /\ handles' = handles
    BY <1>3, Zenon DEF Fs!Write
  <2> HIDE DEF new
  <2>2. IsSeq(q) /\ (\A k \in 1..Len(q) : Still(q[k])) /\ IsSeq(<< >>)
    BY Singles, ClosesAreStill
  <2> HIDE DEF q
  <2>3. \A k \in 1..Len(<< >>) : Still(<< >>[k])
    OBVIOUS
  <2> QED BY <2>1, <2>2, <2>3
<1>4. ASSUME NEW h, NEW o, Fs!Flush(h, o) PROVE Goal
  <2> DEFINE q == Fs!CloseRecs(Fs!BurstOf(h))
             t == Fs!ReleaseLocks(handles[h].ino, o, 0, 0)
             es == q \o t
  <2>1. Fs!Acts(es) /\ aside' = aside /\ handles' = handles
    BY <1>4 DEF Fs!Flush
  <2>2. /\ IsSeq(q) /\ IsSeq(t) /\ \A k \in 1..Len(q) : Still(q[k])
        /\ \A k \in 1..Len(t) : Still(t[k])
    BY Taken, ClosesAreStill, ReleasesStill
  <2> HIDE DEF q, t
  <2>3. IsSeq(es) /\ \A k \in 1..Len(es) : Still(es[k])
    BY <2>2, StillJoin
  <2> HIDE DEF es
  <2> QED BY <2>1, <2>3
<1>5. ASSUME NEW h, Fs!Fsync(h) \/ Fs!Release(h) PROVE Goal
  <2> DEFINE q == Fs!CloseRecs(Fs!BurstOf(h))
  <2>1. /\ Fs!Acts(q) /\ aside' = aside
        /\ \A x \in DOMAIN handles' : x \in DOMAIN handles /\ handles'[x] = handles[x]
    BY <1>5 DEF Fs!Fsync, Fs!Release, Fs!Without
  <2>2. IsSeq(q) /\ \A k \in 1..Len(q) : Still(q[k])
    BY Taken, ClosesAreStill
  <2> HIDE DEF q
  <2> QED BY <2>1, <2>2
<1>6. ASSUME NEW p \in DOMAIN aside, NEW n, Fs!Truncate(p, n) PROVE Goal
  BY <1>1, <1>6
<1> QED BY <1>1, <1>2, <1>3, <1>4, <1>5 DEF Fs!ContentCalls

LEMMA LocksFollow ==
  ASSUME Serving, Follows(rec, served, handles, aside), Fs!LockCalls
  PROVE  Follows(rec', served', handles', aside')
<1>1. \E es : /\ IsSeq(es) /\ (\A k \in 1..Len(es) : Still(es[k])) /\ Fs!Acts(es)
              /\ aside' = aside /\ handles' = handles
  <2>1. ASSUME NEW h, NEW o, NEW s, NEW n, NEW lt, Fs!LockRange(h, o, lt, s, n)
        PROVE  \E es : /\ IsSeq(es) /\ (\A k \in 1..Len(es) : Still(es[k])) /\ Fs!Acts(es)
                       /\ aside' = aside /\ handles' = handles
    <3> DEFINE e == Fs!FileRange("FILE-LOCK", handles[h].ino, Fs!LockVal(o, lt, s, n))
    <3>1. Fs!Acts(<<e>>) /\ aside' = aside /\ handles' = handles
      BY <2>1 DEF Fs!LockRange
    <3>2. Still(e)
      BY StillsAre
    <3> HIDE DEF e
    <3>3. IsSeq(<<e>>) /\ (\A k \in 1..Len(<<e>>) : Still(<<e>>[k]))
      BY <3>2, Singles
    <3> QED BY <3>1, <3>3
  <2>2. ASSUME NEW h, NEW o, NEW s, NEW n, Fs!UnlockRange(h, o, s, n)
        PROVE  \E es : /\ IsSeq(es) /\ (\A k \in 1..Len(es) : Still(es[k])) /\ Fs!Acts(es)
                       /\ aside' = aside /\ handles' = handles
    BY <2>2, ReleasesStill DEF Fs!UnlockRange
  <2> QED BY <2>1, <2>2 DEF Fs!LockCalls
<1> QED BY <1>1, StillCalls

(* What was not recovered was not before, whatever was called.              *)
LEMMA NextLonger ==
  ASSUME Serving, [Fs!Next]_(Fs!vars), Untouched'
  PROVE  Untouched /\ ~ \E t \in 1..MaxRec : Fs!Recover(t)
<1>1. ASSUME NEW es, IsSeq(es), Fs!Acts(es) PROVE Untouched
  BY <1>1, ActsLonger DEF Serving
<1>2. ASSUME rec' = rec PROVE Untouched
  BY <1>2 DEF Untouched
<1>3. ASSUME Fs!NameCalls PROVE Untouched
  <2>1. PICK es : IsSeq(es) /\ Fs!Acts(es)
    BY <1>3, Singles, Taken DEF Fs!NameCalls, Fs!Create, Fs!Make, Fs!Plain, Fs!Chown,
       Fs!Rmdir, Fs!Unlink, Fs!RenameAside, Fs!SetAttr, Fs!Link, Fs!RenameTo
  <2> QED BY <1>1, <2>1
<1>4. ASSUME NEW t, Fs!Recover(t) PROVE FALSE
  <2> DEFINE e == Fs!Rec("RECOVER", Fs!Root, Fs!Root, "none", Fs!NoIno, t)
  <2>1. Fs!Acts(<<e>>) /\ e.op = "RECOVER"
    BY <1>4 DEF Fs!Recover, Fs!Rec
  <2> HIDE DEF e
  <2>2. IsSeq(<<e>>) /\ 1 \in 1..Len(<<e>>) /\ <<e>>[1] = e /\ Len(<<e>>) = 1
    BY Singles
  <2>3. Len(rec) \in Nat /\ Len(rec') = Len(rec) + 1 /\ rec'[Len(rec) + 1] = e
    BY <2>1, <2>2, ActsAreNext DEF Serving
  <2>4. Len(rec) + 1 \in 1..Len(rec')
    BY <2>3
  <2> QED BY <2>1, <2>3, <2>4 DEF Untouched
<1>5. ASSUME Fs!ContentCalls PROVE Untouched
  <2>1. ASSUME NEW p, NEW n, Fs!Truncate(p, n) PROVE \E es : IsSeq(es) /\ Fs!Acts(es)
    <3> DEFINE bs == Fs!BurstsAt(p)
               cur == IF bs = << >> THEN Fs!Recorded(Fs!NodeOf(p))
                      ELSE Fs!Last(Fs!CloseRecs(bs)).val
               e == Fs!FileTruncate(Fs!NodeOf(p), Fs!Truncated(cur, n))
    <3>1. Fs!Acts(Append(Fs!CloseRecs(bs), e))
      BY <2>1 DEF Fs!Truncate
    <3> HIDE DEF e
    <3>2. IsSeq(Append(Fs!CloseRecs(bs), e))
      BY Taken, ClosesAreStill, SeqGrows
    <3> QED BY <3>1, <3>2
  <2>2. ASSUME NEW p, NEW trunc, Fs!Open(p, trunc) PROVE \E es : IsSeq(es) /\ Fs!Acts(es)
    BY <2>2, Singles DEF Fs!Open
  <2>3. ASSUME NEW h, NEW offset, Fs!Write(h, offset) PROVE \E es : IsSeq(es) /\ Fs!Acts(es)
    BY <2>3, Singles DEF Fs!Write
  <2>4. ASSUME NEW h, NEW o, Fs!Flush(h, o) PROVE \E es : IsSeq(es) /\ Fs!Acts(es)
    BY <2>4, Taken, ClosesAreStill, JoinIsSeq DEF Fs!Flush
  <2>5. ASSUME NEW h, Fs!Fsync(h) \/ Fs!Release(h) PROVE \E es : IsSeq(es) /\ Fs!Acts(es)
    BY <2>5, Taken, ClosesAreStill DEF Fs!Fsync, Fs!Release
  <2>6. PICK es : IsSeq(es) /\ Fs!Acts(es)
    BY <1>5, <2>1, <2>2, <2>3, <2>4, <2>5 DEF Fs!ContentCalls
  <2> QED BY <1>1, <2>6
<1>6. ASSUME Fs!LockCalls PROVE Untouched
  <2>1. PICK es : IsSeq(es) /\ Fs!Acts(es)
    BY <1>6, Singles, Taken DEF Fs!LockCalls, Fs!LockRange, Fs!UnlockRange
  <2> QED BY <1>1, <2>1
<1>7. ASSUME Fs!HiddenCalls \/ Fs!Brake \/ Fs!Remount \/ UNCHANGED Fs!vars PROVE Untouched
  <2>1. rec' = rec
    BY <1>7 DEF Fs!HiddenCalls, Fs!UnlinkHidden, Fs!Brake, Fs!Remount, Fs!vars
  <2> QED BY <1>2, <2>1
<1>8. Fs!FailedCall => Untouched
  BY <1>1, FailedIs, Singles DEF Failing
<1> QED BY <1>3, <1>4, <1>5, <1>6, <1>7, <1>8 DEF Fs!Next

LEMMA NextFollowing ==
  Hidden \in Names => (Serving /\ Following /\ [Fs!Next]_(Fs!vars) => Following')
<1> SUFFICES ASSUME Hidden \in Names, Serving, Following, [Fs!Next]_(Fs!vars), Untouched'
             PROVE  Follows(rec', served', handles', aside')
  BY DEF Following, Follows, Untouched
<1>1. Untouched /\ ~ \E t \in 1..MaxRec : Fs!Recover(t)
  BY NextLonger
<1>2. Follows(rec, served, handles, aside)
  BY <1>1 DEF Following
<1>3. CASE Fs!NameCalls
  <2>1. PICK p \in Fs!Visible :
          \/ \E u \in Uids : \/ Fs!Create(p, u) \/ Fs!Make("FILE-MKDIR", "dir", p, u)
                             \/ Fs!Make("FILE-SYMLINK", "link", p, u) \/ Fs!Chown(p, u)
          \/ Fs!Rmdir(p) \/ Fs!Unlink(p) \/ Fs!RenameAside(p) \/ Fs!SetAttr(p)
          \/ \E q \in Fs!Visible : Fs!Link(p, q) \/ Fs!RenameTo(p, q)
    BY <1>3 DEF Fs!NameCalls
  <2>2. CASE \E u \in Uids : Fs!Create(p, u)
    BY <1>2, <2>2, CreateFollows
  <2>3. CASE Fs!RenameAside(p)
    BY <1>2, <2>3, AsideFollows
  <2>4. CASE \E q \in Fs!Visible : Fs!RenameTo(p, q)
    BY <1>2, <2>4, RenameFollows
  <2>5. CASE \/ \E u : \/ Fs!Make("FILE-MKDIR", "dir", p, u) \/ Fs!Make("FILE-SYMLINK", "link", p, u)
                       \/ Fs!Chown(p, u)
             \/ Fs!Rmdir(p) \/ Fs!Unlink(p) \/ Fs!SetAttr(p)
             \/ \E q \in Fs!Visible : Fs!Link(p, q)
    BY <1>2, <2>5, PlainCallsFollow
  <2> QED BY <2>1, <2>2, <2>3, <2>4, <2>5
<1>4. CASE Fs!HiddenCalls
  <2>1. PICK p \in DOMAIN aside : Fs!UnlinkHidden(p)
    BY <1>4 DEF Fs!HiddenCalls
  <2>2. /\ rec' = rec /\ served' = served /\ handles' = handles
        /\ aside' = [x \in (DOMAIN aside) \ {p} |-> aside[x]]
        /\ \A h \in DOMAIN handles : handles[h].path # p
    BY <2>1 DEF Fs!UnlinkHidden, Fs!IsOpenAt, Fs!Without
  <2>3. DOMAIN aside' = (DOMAIN aside) \ {p} /\ \A x \in DOMAIN aside' : aside'[x] = aside[x]
    BY <2>2
  <2>4. AsideOK(aside', served)
    BY <1>2, <2>3 DEF Follows, AsideOK
  <2>5. ASSUME NEW h \in DOMAIN handles PROVE HandleOK(handles[h], served, aside', rec)
    <3> DEFINE x == handles[h]
    <3>1. HandleOK(x, served, aside, rec) /\ x.path # p
      BY <1>2, <2>2 DEF Follows
    <3> HIDE DEF x
    <3>2. HandleOK(x, served, aside', rec)
      BY <2>3, <3>1 DEF HandleOK
    <3> QED BY <3>2 DEF x
  <2> QED BY <1>2, <2>2, <2>4, <2>5 DEF Follows
<1>5. CASE Fs!ContentCalls
  BY <1>2, <1>5, ContentsFollow
<1>6. CASE Fs!LockCalls
  BY <1>2, <1>6, LocksFollow
<1>7. CASE Fs!Brake \/ UNCHANGED Fs!vars
  <2>1. rec' = rec /\ served' = served /\ handles' = handles /\ aside' = aside
    BY <1>7 DEF Fs!Brake, Fs!vars
  <2> QED BY <1>2, <2>1
<1>8. CASE Fs!Remount
  <2>1. /\ rec' = rec /\ served' = served /\ DOMAIN handles' = {} /\ DOMAIN aside' = {}
    BY <1>8 DEF Fs!Remount, Serving, Fs!NoHandles
  <2>2. Sane(served', Len(rec'))
    BY <1>2, <2>1 DEF Follows
  <2> QED BY <2>1, <2>2 DEF Follows, AsideOK
<1>9. CASE Fs!FailedCall
  <2>1. PICK done : /\ IsSeq(done) /\ Fs!Acts(Fs!CloseRecs(done)) /\ aside' = aside
                    /\ \A h \in DOMAIN handles' : h \in DOMAIN handles /\ handles'[h] = handles[h]
    BY <1>9, FailedIs DEF Failing, Fs!Without
  <2> QED BY <1>2, <2>1, ClosesAreStill, StillCalls
<1> QED BY <1>1, <1>3, <1>4, <1>5, <1>6, <1>7, <1>8, <1>9 DEF Fs!Next

LEMMA InitFollowing == Fs!Init => Following
<1> SUFFICES ASSUME Fs!Init PROVE Follows(rec, served, handles, aside)
  BY DEF Following
<1>1. rec = << >> /\ served = Fs!Fold(rec) /\ DOMAIN handles = {} /\ DOMAIN aside = {}
  BY DEF Fs!Init, Fs!NoHandles
<1>2. Len(rec) = 0
  BY <1>1
<1>3. Fs!Fold(rec) = Seam!Fold(rec)
  BY <1>2, SameFold
<1>4. PICK s : FoldIs(rec, 0, s) /\ Seam!Fold(rec) = s[0]
  BY <1>2, FoldAre
<1> DEFINE t == Seam!EmptyState
<1>5. served = t
  BY <1>1, <1>3, <1>4 DEF FoldIs
<1>6. Whole(t)
  BY DEF Whole, Seam!EmptyState, Seam!Root
<1>7. /\ DOMAIN t.names = {<< >>} /\ t.names[<< >>] = 1 /\ DOMAIN t.inodes = {1}
      /\ DOMAIN t.inodes[1] = NodeFields
  BY DEF Seam!EmptyState, Seam!Root, Seam!RootIno, NodeFields
<1>8. Tidy(t)
  BY EmptyTidy
<1> HIDE DEF t
<1>9. Sane(t, 0)
  BY <1>6, <1>7, <1>8 DEF Sane
<1> QED BY <1>1, <1>2, <1>5, <1>9 DEF Follows, AsideOK

LEMMA AlwaysFollowing == Hidden \in Names => (Fs!Spec => []Following)
<1> SUFFICES ASSUME Hidden \in Names PROVE Fs!Spec => []Following
  OBVIOUS
<1>1. Serving /\ Following /\ [Fs!Next]_(Fs!vars) => Following'
  BY NextFollowing
<1> QED BY <1>1, AlwaysServing, InitFollowing, PTL DEF Fs!Spec

(* A handle reaches its own file through the name libfuse uses for it, also *)
(* after that file was unlinked, renamed, or its name was taken by another  *)
(* file; it reaches none only when the file was unlinked and a directory    *)
(* above it renamed; until a recover (RecordsFS._node, rename, unlink).     *)
THEOREM HandlesReachTheirFiles == Hidden \in Names => (Fs!Spec => []Fs!HandleReachesItsFile)
<1> SUFFICES ASSUME Hidden \in Names PROVE Fs!Spec => []Fs!HandleReachesItsFile
  OBVIOUS
<1>1. Following => Fs!HandleReachesItsFile
  <2> SUFFICES ASSUME Following, Untouched, NEW h \in DOMAIN handles
               PROVE  LET x == handles[h]
                      IN  \/ Fs!NodeOf(x.path) = x.ino
                          \/ Fs!NodeOf(x.path) = Fs!NoIno /\ Fs!Strayed(x.path)
    BY DEF Fs!HandleReachesItsFile, Untouched
  <2> DEFINE x == handles[h]
  <2>1. HandleOK(x, served, aside, rec) /\ Sane(served, Len(rec))
    BY DEF Following, Follows
  <2> HIDE DEF x
  <2>2. CASE Fs!Last(x.path) # Hidden
    <3>1. x.path \in DOMAIN served.names /\ served.names[x.path] = x.ino
      BY <2>1, <2>2 DEF HandleOK
    <3>2. Fs!NodeOf(x.path) = x.ino
      BY <3>1, SameReads DEF Fs!NodeOf
    <3> QED BY <3>2 DEF x
  <2>3. CASE Fs!Last(x.path) = Hidden
    <3>1. x.path \notin DOMAIN served.names /\ 0 \notin DOMAIN served.inodes /\ x.ino \in DOMAIN served.inodes
      BY <2>1, <2>3 DEF HandleOK, Sane
    <3> DEFINE i == Fs!At(aside, x.path, Fs!NoIno)
    <3>2. Fs!NodeOf(x.path) = IF i \in DOMAIN served.inodes THEN i ELSE Fs!NoIno
      BY <3>1, SameReads DEF Fs!NodeOf
    <3>3. CASE x.path \in DOMAIN aside
      <4>1. i = x.ino
        BY <2>1, <2>3, <3>3 DEF HandleOK, Fs!At
      <4>2. Fs!NodeOf(x.path) = x.ino
        BY <3>1, <3>2, <4>1
      <4> QED BY <4>2 DEF x
    <3>4. CASE x.path \notin DOMAIN aside
      <4>1. i = 0 /\ Fs!NoIno = 0
        BY <3>4 DEF Fs!At, Fs!NoIno
      <4>2. Fs!NodeOf(x.path) = Fs!NoIno
        BY <3>1, <3>2, <4>1
      <4>3. Strays(rec, x.path)
        BY <2>1, <2>3, <3>4 DEF HandleOK
      <4>4. Fs!Strayed(x.path)
        BY <2>3, <4>3, SameReads DEF Strays, Fs!Strayed
      <4> QED BY <4>2, <4>4 DEF x
    <3> QED BY <3>3, <3>4
  <2> QED BY <2>2, <2>3
<1> QED BY <1>1, AlwaysFollowing, PTL

-----------------------------------------------------------------------------
(* A handle number is given once in the life of a mount.                    *)
Counted == nextFh \in Nat /\ \A h \in DOMAIN handles : h \in Nat /\ h < nextFh

(* Until a recover an open burst is of an open handle, over its file.       *)
Owned(bs, o) == \A k \in 1..Len(bs) : bs[k].fh \in DOMAIN o /\ o[bs[k].fh].ino = bs[k].ino
Owning == Untouched => Owned(bursts, handles)

LEMMA NextCounted == Counted /\ [Fs!Next]_(Fs!vars) => Counted'
<1> SUFFICES ASSUME Counted, [Fs!Next]_(Fs!vars) PROVE Counted'
  OBVIOUS
<1>1. CASE nextFh' = nextFh /\ DOMAIN handles' \subseteq DOMAIN handles
  BY <1>1 DEF Counted
<1>2. CASE nextFh' = nextFh + 1 /\ DOMAIN handles' = DOMAIN handles \cup {nextFh}
  BY <1>2 DEF Counted
<1>3. CASE nextFh' = 1 /\ DOMAIN handles' = {}
  BY <1>3 DEF Counted
<1>4. CASE UNCHANGED Fs!vars
  BY <1>1, <1>4 DEF Fs!vars
<1>5. ASSUME NEW p, NEW u, NEW op, NEW k, NEW q, NEW n, NEW e,
             \/ Fs!Make(op, k, p, u) \/ Fs!Chown(p, u) \/ Fs!Rmdir(p) \/ Fs!Unlink(p)
             \/ Fs!RenameAside(p) \/ Fs!SetAttr(p) \/ Fs!Link(p, q) \/ Fs!RenameTo(p, q)
             \/ Fs!UnlinkHidden(p) \/ Fs!Truncate(p, n) \/ Fs!Write(p, n) \/ Fs!Flush(p, u)
             \/ Fs!Fsync(p) \/ Fs!Release(p) \/ Fs!LockRange(p, u, k, q, n)
             \/ Fs!UnlockRange(p, u, q, n) \/ Fs!Brake \/ Fs!Recover(n)
      PROVE  nextFh' = nextFh /\ DOMAIN handles' \subseteq DOMAIN handles
  BY <1>5, Zenon DEF Fs!Make, Fs!Plain, Fs!Chown, Fs!Rmdir, Fs!Unlink, Fs!RenameAside,
     Fs!SetAttr, Fs!Link, Fs!RenameTo, Fs!UnlinkHidden, Fs!Truncate, Fs!Write,
     Fs!Flush, Fs!Fsync, Fs!Release, Fs!Without, Fs!LockRange, Fs!UnlockRange,
     Fs!Brake, Fs!Recover
<1>6. ASSUME NEW p, NEW u, Fs!Create(p, u) \/ Fs!Open(p, u) PROVE Counted'
  BY <1>2, <1>6 DEF Fs!Create, Fs!Open, Fs!With
<1>7. Fs!Remount => Counted'
  BY <1>3 DEF Fs!Remount, Fs!NoHandles
<1>8. Fs!FailedCall => Counted'
  BY <1>1 DEF Fs!FailedCall, Fs!Without
<1> QED BY <1>1, <1>4, <1>5, <1>6, <1>7, <1>8 DEF Fs!Next, Fs!NameCalls, Fs!HiddenCalls,
           Fs!ContentCalls, Fs!LockCalls

LEMMA DropKeeps ==
  ASSUME Serving, NEW bs, Fs!DropBursts(bs), NEW k \in 1..Len(bursts')
  PROVE  \E m \in 1..Len(bursts) : /\ bursts'[k] = bursts[m]
                                   /\ \A j \in 1..Len(bs) : bs[j].fh # bursts[m].fh
<1> DEFINE C == {b \in Fs!ToSet(bursts) : \A j \in 1..Len(bs) : bs[j].fh # b.fh}
<1>1. bursts' = Fs!Where(bursts, C)
  BY DEF Fs!DropBursts
<1>2. Picks(Fs!Where(bursts, C), bursts, Len(bursts), C)
  BY WherePicks DEF Serving
<1> QED BY <1>1, <1>2 DEF Picks

(* The handles keep their files; bursts are dropped or stay.                *)
LEMMA OwnedStays ==
  ASSUME Serving, Owned(bursts, handles),
         \A h \in DOMAIN handles : h \in DOMAIN handles' /\ handles'[h].ino = handles[h].ino,
         bursts' = bursts \/ \E bs : Fs!DropBursts(bs)
  PROVE  Owned(bursts', handles')
<1>1. \A k \in 1..Len(bursts') : \E m \in 1..Len(bursts) : bursts'[k] = bursts[m]
  BY DropKeeps
<1> QED BY <1>1 DEF Owned

LEMMA WriteOwns ==
  ASSUME Len(Empty) \in Nat, Serving, Bursting, Owned(bursts, handles),
         NEW h \in DOMAIN handles, NEW offset, Fs!Write(h, offset),
         Fs!NodeOf(handles[h].path) # Fs!NoIno => Fs!NodeOf(handles[h].path) = handles[h].ino
  PROVE  Owned(bursts', handles')
<1> DEFINE own == Fs!BurstOf(h)
           b == Fs!OwnBurst(h)
           new == Fs!Grown(h, offset)
           closes == Fs!IsFull(new) /\ Fs!Admits
<1>1. /\ IF closes THEN Fs!DropBursts(<<new>>)
         ELSE bursts' = IF own = << >> THEN Append(bursts, new)
                        ELSE [k \in 1..Len(bursts) |-> IF bursts[k].fh = h THEN new ELSE bursts[k]]
      /\ handles' = handles /\ Fs!NodeOf(handles[h].path) # Fs!NoIno
  BY Zenon DEF Fs!Write, Fs!MayWrite
<1>2. /\ \A m \in 1..Len(bursts) : bursts[m].fh = h => own # << >> /\ bursts[m] = own[1]
      /\ own # << >> => /\ own[1].fh = h /\ BurstOK(own[1])
                        /\ \E m \in 1..Len(bursts) : own[1] = bursts[m]
  BY OwnIs
<1>3. own # << >> => own[1].ino = handles[h].ino
  BY <1>2 DEF Owned
<1>4. b.fh = h /\ b.ino = handles[h].ino /\ BurstFields \subseteq DOMAIN b
  <2>1. CASE own # << >>
    BY <1>2, <1>3, <2>1 DEF BurstOK, Fs!OwnBurst
  <2>2. CASE own = << >>
    <3> DEFINE c == Fs!NewBurst(h, Fs!NodeOf(handles[h].path), handles[h].path)
    <3>1. c.fh = h /\ c.ino = handles[h].ino /\ DOMAIN c = BurstFields
      BY <1>1 DEF Fs!NewBurst, BurstFields
    <3>2. b = c
      BY <2>2 DEF Fs!OwnBurst
    <3> HIDE DEF b, c
    <3> QED BY <3>1, <3>2
  <2> QED BY <2>1, <2>2
<1> HIDE DEF own
<1>5. new.fh = h /\ new.ino = handles[h].ino
  BY <1>4 DEF BurstFields, Fs!Grown
<1> HIDE DEF new, closes, b
<1>9. IsSeq(bursts) /\ Len(bursts) \in Nat
  BY DEF Serving, IsSeq
<1>6. CASE closes
  BY <1>1, <1>6, OwnedStays
<1>7. CASE ~ closes /\ own = << >>
  BY <1>1, <1>9, <1>5, <1>7, SeqGrows DEF Owned
<1>8. CASE ~ closes /\ own # << >>
  BY <1>1, <1>5, <1>8, <1>9 DEF Owned
<1> QED BY <1>6, <1>7, <1>8

(* A released handle takes its burst with it.                               *)
LEMMA ReleaseOwns ==
  ASSUME Serving, Bursting, Owned(bursts, handles), NEW h, handles' = Fs!Without(handles, h),
         NEW gone, Fs!DropBursts(gone),
         Fs!BurstOf(h) # << >> => 1 \in 1..Len(gone) /\ gone[1] = Fs!BurstOf(h)[1]
  PROVE  Owned(bursts', handles')
<1>1. handles' = [x \in (DOMAIN handles) \ {h} |-> handles[x]]
  BY DEF Fs!Without
<1>2. ASSUME NEW k \in 1..Len(bursts')
      PROVE  bursts'[k].fh \in DOMAIN handles' /\ handles'[bursts'[k].fh].ino = bursts'[k].ino
  <2>1. PICK m \in 1..Len(bursts) : /\ bursts'[k] = bursts[m]
                                    /\ \A j \in 1..Len(gone) : gone[j].fh # bursts[m].fh
    BY <1>2, DropKeeps
  <2>2. bursts[m].fh # h
    BY <2>1, OwnIs
  <2> QED BY <1>1, <2>1, <2>2 DEF Owned
<1> QED BY <1>2 DEF Owned

(* The files of the open handles stay theirs.                               *)
LEMMA NextOwning ==
  ASSUME Len(Empty) \in Nat, Serving, Bursting, Following, Counted, Owning,
         Fs!HandleReachesItsFile, [Fs!Next]_(Fs!vars)
  PROVE  Owning'
<1> SUFFICES ASSUME Untouched' PROVE Owned(bursts', handles')
  BY DEF Owning
<1>1. Untouched /\ ~ \E t \in 1..MaxRec : Fs!Recover(t)
  BY NextLonger
<1>2. Owned(bursts, handles) /\ Follows(rec, served, handles, aside)
  BY <1>1 DEF Owning, Following
<1>3. ASSUME bursts' = bursts \/ (\E bs : Fs!DropBursts(bs)),
             \/ handles' = handles
             \/ \E x : handles' = Fs!With(handles, nextFh, x)
      PROVE  Owned(bursts', handles')
  BY <1>2, <1>3, OwnedStays DEF Counted, Fs!With
<1>4. ASSUME NEW p, NEW u, NEW q, NEW k, NEW n, NEW op,
             \/ Fs!Create(p, u) \/ Fs!Make(op, k, p, u) \/ Fs!Chown(p, u)
             \/ Fs!Rmdir(p) \/ Fs!Unlink(p) \/ Fs!SetAttr(p) \/ Fs!Link(p, q)
             \/ Fs!UnlinkHidden(p) \/ Fs!LockRange(p, u, k, q, n)
             \/ Fs!UnlockRange(p, u, q, n) \/ Fs!Brake \/ Fs!Open(p, u)
             \/ Fs!Truncate(p, n) \/ Fs!Flush(p, u) \/ Fs!Fsync(p)
             \/ UNCHANGED Fs!vars
      PROVE  Owned(bursts', handles')
  BY <1>3, <1>4, Zenon DEF Fs!Create, Fs!Make, Fs!Plain, Fs!Chown, Fs!Rmdir,
     Fs!Unlink, Fs!SetAttr, Fs!Link, Fs!UnlinkHidden, Fs!LockRange,
     Fs!UnlockRange, Fs!Brake, Fs!Open, Fs!Truncate, Fs!Flush, Fs!Fsync,
     Fs!vars
<1>5. ASSUME NEW p, NEW q, Fs!RenameAside(p) \/ Fs!RenameTo(p, q) PROVE Owned(bursts', handles')
  <2>1. \E bs : Fs!DropBursts(bs)
    BY <1>5 DEF Fs!RenameAside, Fs!RenameTo
  <2>2. \A h \in DOMAIN handles : DOMAIN handles[h] = {"ino", "path"}
    BY <1>2 DEF Follows, HandleOK
  <2>3. \A h \in DOMAIN handles : h \in DOMAIN handles' /\ handles'[h].ino = handles[h].ino
    BY <1>5, <2>2 DEF Fs!RenameAside, Fs!RenameTo
  <2> QED BY <1>2, <2>1, <2>3, OwnedStays
<1>6. ASSUME NEW h \in DOMAIN handles, NEW offset, Fs!Write(h, offset) PROVE Owned(bursts', handles')
  <2>1. Fs!NodeOf(handles[h].path) # Fs!NoIno => Fs!NodeOf(handles[h].path) = handles[h].ino
    BY <1>1 DEF Fs!HandleReachesItsFile, Untouched
  <2> QED BY <1>2, <1>6, <2>1, WriteOwns
<1>7. ASSUME Fs!Remount PROVE Owned(bursts', handles')
  BY <1>7 DEF Fs!Remount, Owned
<1>8. ASSUME NEW h PROVE IsSeq(Fs!BurstOf(h)) /\ (Fs!BurstOf(h) # << >> => 1 \in 1..Len(Fs!BurstOf(h)))
  <2> DEFINE own == Fs!BurstOf(h)
  <2>1. IsSeq(own)
    BY Taken
  <2> HIDE DEF own
  <2>2. PICK S : own \in Seq(S)
    BY <2>1 DEF IsSeq
  <2> QED BY <2>1, <2>2 DEF own
<1>9. ASSUME NEW h, Fs!Release(h) PROVE Owned(bursts', handles')
  BY <1>2, <1>8, <1>9, ReleaseOwns DEF Fs!Release
<1>10. ASSUME Fs!FailedCall PROVE Owned(bursts', handles')
  <2>1. PICK bs \in Fs!ClosedByACall :
          /\ \E done, gone : Failing(bs, done, gone)
          /\ \/ handles' = handles
             \/ \E h \in DOMAIN handles : bs = Fs!BurstOf(h) /\ handles' = Fs!Without(handles, h)
    BY <1>10, FailedIs
  <2>2. PICK done, gone : Failing(bs, done, gone)
    BY <2>1
  <2>3. Fs!DropBursts(gone) /\ 1 \in 1..Len(gone) /\ gone[1] = bs[1]
    BY <2>2 DEF Failing
  <2> QED BY <1>2, <1>3, <2>1, <2>3, ReleaseOwns
<1> QED BY <1>1, <1>2, <1>4, <1>5, <1>6, <1>7, <1>9, <1>10 DEF Fs!Next, Fs!NameCalls,
           Fs!HiddenCalls, Fs!ContentCalls, Fs!LockCalls

(* A read through a handle returns the bytes last written through it, also  *)
(* while no burst of it is closed, and where no other handle has a burst    *)
(* over the file, getattr gives the size that read has (_burst_for, read,   *)
(* getattr).  A recover of the record under the mount is left out.          *)
THEOREM HandlesReadTheirWrites ==
  Hidden \in Names /\ Len(Empty) \in Nat => (Fs!Spec => []Fs!HandleReadsItsWrites)
<1> SUFFICES ASSUME Hidden \in Names, Len(Empty) \in Nat
             PROVE  Fs!Spec => []Fs!HandleReadsItsWrites
  OBVIOUS
<1>1. Serving /\ Bursting /\ Owning => Fs!HandleReadsItsWrites
  <2> SUFFICES ASSUME Serving, Bursting, Owned(bursts, handles), NEW k \in 1..Len(bursts)
               PROVE  LET b == bursts[k]
                      IN  /\ \A i \in b.wrote : Fs!Byte(Fs!Read(b.fh), i) = b.fh
                          /\ (\A j \in 1..Len(bursts) : j # k => bursts[j].ino # b.ino)
                               => Fs!GetAttr(b.ino).size = Len(Fs!Read(b.fh))
    BY DEF Owning, Untouched, Fs!HandleReadsItsWrites
  <2> DEFINE b == bursts[k]
             own == Fs!BurstOf(b.fh)
             mine == {c \in Fs!ToSet(bursts) : c.ino = b.ino}
             over == Fs!Where(bursts, mine)
  <2>1. own # << >> /\ own[1] = b
    BY OwnIs
  <2>2. b.ino = handles[b.fh].ino /\ BurstOK(b)
    BY DEF Owned, Bursting
  <2>3. Fs!GetAttr(b.ino).size =
          IF over = << >> THEN Len(Fs!Recorded(b.ino)) ELSE Len(Fs!Last(over).bytes)
    BY DEF Fs!GetAttr
  <2>4. Picks(over, bursts, Len(bursts), mine) /\ b \in mine
    BY WherePicks DEF Serving, Fs!ToSet
  <2>5. \A c \in mine : c.ino = b.ino
    OBVIOUS
  <2> HIDE DEF own, mine, over
  <2>6. Fs!Read(b.fh) = b.bytes
    BY <2>1, <2>2 DEF own, Fs!Read
  <2>7. \A i \in b.wrote : Fs!Byte(b.bytes, i) = b.fh
    BY <2>2 DEF BurstOK, Fs!Byte
  <2>8. ASSUME \A j \in 1..Len(bursts) : j # k => bursts[j].ino # b.ino
        PROVE  over # << >> /\ Fs!Last(over) = b
    <3>1. PICK S : over \in Seq(S)
      BY <2>4 DEF Picks, IsSeq
    <3>2. PICK j \in 1..Len(over) : over[j] = b
      BY <2>4 DEF Picks
    <3>3. Len(over) \in 1..Len(over) /\ over # << >>
      BY <3>1, <3>2
    <3>4. PICK m \in 1..Len(bursts) : over[Len(over)] = bursts[m] /\ bursts[m] \in mine
      BY <2>4, <3>3 DEF Picks
    <3>5. m = k
      BY <2>5, <2>8, <3>4
    <3> QED BY <3>3, <3>4, <3>5 DEF Fs!Last
  <2> QED BY <2>3, <2>6, <2>7, <2>8
<1>2. Serving /\ Bursting /\ Following /\ Counted /\ Owning /\ Fs!HandleReachesItsFile
        /\ [Fs!Next]_(Fs!vars) => Owning'
  BY NextOwning
<1>3. Fs!Init => Counted /\ Owning
  BY DEF Fs!Init, Fs!NoHandles, Counted, Owning, Owned
<1> QED BY <1>1, <1>2, <1>3, NextCounted, AlwaysServing, AlwaysBursting, AlwaysFollowing,
           HandlesReachTheirFiles, PTL DEF Fs!Spec

=============================================================================
