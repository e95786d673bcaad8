------------------------------- MODULE Disk --------------------------------
(* The body's file system on its own disk (bodyfs.c) under the file acts of *)
(* serve.c.  The directory and the allocator's next_free live in RAM; an    *)
(* act changes them and writes the disk in a fixed order of steps: data     *)
(* sectors and a flush, the superblock and a flush, a directory sector and  *)
(* a flush.  A failed data sector ends the act; of a failed flush, and of a *)
(* failed write of the superblock or the directory, the body takes no heed. *)
(* The power may go anywhere, with any of the unflushed sectors written.    *)
(* A byte is a stroke's mark; PerSector of them fill a sector.              *)
EXTENDS Naturals, Sequences, FiniteSets, SequencesExt

CONSTANTS Names,      \* names of the flat name table
          Locks,      \* those of the class *.lock
          Slots,      \* entries of the directory table, from 0
          PerDir,     \* directory entries in one sector
          Total,      \* data sectors
          PerSector,  \* bytes of one sector
          Lengths,    \* lengths of a stroke
          FixedRecord, \* the fixed record's name
          RecCap,     \* sectors formatted for it
          MaxActs,    \* acts begun
          MaxCrashes,
          MaxUnheeded, \* failures unheeded in one mount
          None

VARIABLES ram,      \* [dir, next]: the mounted directory and next_free
          disk,     \* [dir, next, sec]: what the drive answers a read with
          firm,     \* [dir, next, sec]: what its last good flush made durable
          op,       \* the act being performed: [plan, at, bytes, drop]
          said,     \* what was answered: promises [at, bytes]
          unheeded, \* failures the body took no heed of since the mount
          exposed,  \* the power went after one of those, or between a
                    \* blob's name and next_free
          acts, crashes

vars == <<ram, disk, firm, op, said, unheeded, exposed, acts, crashes>>

FreeEntry == [present |-> FALSE, name |-> None, type |-> "free",
              start |-> 0, len |-> 0, cap |-> 0]

Entry(n, t, s, l, c) ==
  [present |-> TRUE, name |-> n, type |-> t, start |-> s, len |-> l, cap |-> c]

Found(dir, n) == {i \in DOMAIN dir : dir[i].present /\ dir[i].name = n}
Slot(dir, n)  == CHOOSE i \in Found(dir, n) : \A j \in Found(dir, n) : i <= j
FreeSlots(dir) == {i \in DOMAIN dir : ~dir[i].present}
FirstFree(dir) == CHOOSE i \in FreeSlots(dir) : \A j \in FreeSlots(dir) : i <= j

Sectors(bytes) == (bytes + PerSector - 1) \div PerSector

(* Bytes laid into sectors from one on.                                    *)
Laid(first, bytes) ==
  [s \in first..(first + Sectors(Len(bytes)) - 1) |->
     LET from == (s - first) * PerSector
     IN  [k \in 1..Min({PerSector, Len(bytes) - from}) |-> bytes[from + k]]]

(* What a reader gets: the bytes of the entry's sectors, up to its length.  *)
(* The fixed record is read stroke by stroke, one stroke to a sector.       *)
Read(dir, sec, n) ==
  LET e == dir[Slot(dir, n)]
      whole == FlattenSeq([k \in 1..Sectors(e.len) |-> sec[e.start + k - 1]])
  IN  IF e.type = "record" THEN whole ELSE SubSeq(whole, 1, e.len)

Extent(e) == e.start..(e.start + e.cap - 1)

(* mkdisk.py formats the record; fs_mount reads the superblock and table.   *)
Mounted == [dir |-> disk.dir, next |-> disk.next]

Init ==
  /\ disk = [dir  |-> [i \in 0..Slots-1 |->
                         IF i = 0 THEN Entry(FixedRecord, "record", 1, 0, RecCap) ELSE FreeEntry],
             next |-> RecCap + 1,
             sec  |-> [s \in 1..Total |-> << >>]]
  /\ ram = Mounted /\ firm = disk
  /\ op = None /\ said = {} /\ unheeded = 0 /\ exposed = FALSE
  /\ acts = 0 /\ crashes = 0

----------------------------------------------------------------------------
(* The steps of a plan.                                                     *)
Put(sectors)  == [kind |-> "data",  put |-> sectors, slot |-> 0, entry |-> FreeEntry, next |-> 0]
Super(i, e, x) == [kind |-> "super", put |-> << >>, slot |-> i, entry |-> e, next |-> x]
Dir(i, e)     == [kind |-> "dir",   put |-> << >>, slot |-> i, entry |-> e, next |-> 0]

(* The act's answer will promise that bytes are read under one of at.       *)
Begin(plan, at, bytes, drop) ==
  /\ op' = [plan |-> plan, at |-> at, bytes |-> bytes]
  /\ said' = {p \in said : p.at \cap drop = {}}
  /\ acts' = acts + 1
  /\ UNCHANGED <<disk, firm, unheeded, exposed, crashes>>

Idle == op = None /\ acts < MaxActs
Mark == acts + 1

(* Mutant: every file may grow in place. *)
AtTailAlways(e) == TRUE

(* Does the file end where the allocator's free sectors begin?              *)
AtTail(e) == e.start + e.cap = ram.next

(* One stroke at the tail of entry e in slot i: take sectors if the tail    *)
(* does not fit (in place at the allocator's tail, else by moving the file  *)
(* there), write the bytes over the last sector's, then the entry.          *)
TailPlan(i, e, bytes) ==
  LET need  == Sectors(e.len + Len(bytes))
      tail  == AtTail(e)
      grown == IF need <= e.cap THEN e
               ELSE IF tail THEN [e EXCEPT !.cap = need]
               ELSE [e EXCEPT !.start = ram.next, !.cap = need]
      next  == IF need <= e.cap THEN ram.next
               ELSE IF tail THEN ram.next + need - e.cap ELSE ram.next + need
      moved == [s \in grown.start..(grown.start + Sectors(e.len) - 1) |->
                  disk.sec[e.start + (s - grown.start)]]
      kept  == IF e.len % PerSector = 0 THEN << >>
               ELSE SubSeq(disk.sec[e.start + Sectors(e.len) - 1], 1, e.len % PerSector)
      last  == grown.start + (e.len \div PerSector)
  IN  [fits |-> next - 1 <= Total,
       plan |-> (IF need > e.cap /\ ~tail /\ e.len > 0 THEN <<Put(moved)>> ELSE << >>)
                \o (IF need > e.cap THEN <<Super(i, grown, next)>> ELSE << >>)
                \o (IF bytes = << >> THEN << >> ELSE <<Put(Laid(last, kept \o bytes))>>)
                \o <<Dir(i, [grown EXCEPT !.len = e.len + Len(bytes)])>>]

(* fs_nrec_append and fs_durable_write: the first stroke creates the entry  *)
(* in the table, where it stays if the act then fails for want of space, as *)
(* an adopted one stays of its new class.                                   *)
Stroke(n, t, bytes) ==
  LET dir == ram.dir
      i   == IF Found(dir, n) # {} THEN Slot(dir, n) ELSE FirstFree(dir)
      e   == IF Found(dir, n) # {} THEN [dir[i] EXCEPT !.type = t]
             ELSE Entry(n, t, ram.next, 0, 0)
      old == IF Found(dir, n) # {} THEN Read(dir, disk.sec, n) ELSE << >>
      adopts == IF Found(dir, n) # {} /\ dir[i].type # t THEN <<Dir(i, e)>> ELSE << >>
      tp  == TailPlan(i, e, bytes)
  IN  /\ Found(dir, n) = {} => FreeSlots(dir) # {}
      /\ ram' = [ram EXCEPT !.dir[i] = e]
      /\ IF tp.fits
         THEN Begin(adopts \o tp.plan, {n}, old \o bytes, {})
         ELSE Begin(adopts, {}, << >>, {})

TypeAt(n) == IF Found(ram.dir, n) = {} THEN "absent" ELSE ram.dir[Slot(ram.dir, n)].type

(* open(O_APPEND): create the record, or adopt an empty staging file.       *)
OpenAppend(n) ==
  /\ Idle /\ n \in Names \ Locks
  /\ \/ TypeAt(n) \in {"absent", "nrec"}
     \/ TypeAt(n) = "durable" /\ ram.dir[Slot(ram.dir, n)].len = 0
  /\ Stroke(n, "nrec", << >>)

AppendStroke(n) ==
  Idle /\ TypeAt(n) = "nrec" /\ \E k \in Lengths : Stroke(n, "nrec", [x \in 1..k |-> Mark])

(* open(O_TRUNC): never on a record or a blob; on a staging file or an      *)
(* absent name it is a create.  A present one leaves the table first.       *)
OpenTrunc(n) ==
  /\ Idle /\ n \in Names \ Locks
  /\ TypeAt(n) \in {"absent", "durable"}
  /\ LET dir == ram.dir
         i0  == Slot(dir, n)
         gone == IF TypeAt(n) = "durable" THEN [dir EXCEPT ![i0].present = FALSE] ELSE dir
         i   == FirstFree(gone)
         e   == Entry(n, "durable", ram.next, 0, 0)
     IN  /\ FreeSlots(gone) # {}
         /\ ram' = [ram EXCEPT !.dir = gone]
         /\ Begin((IF TypeAt(n) = "durable" THEN <<Dir(i0, gone[i0])>> ELSE << >>) \o <<Dir(i, e)>>,
                  {n}, << >>, {n})

WriteStaged(n) ==
  Idle /\ TypeAt(n) = "durable" /\ \E k \in Lengths : Stroke(n, "durable", [x \in 1..k |-> Mark])

(* The fixed record grows only at its tail, one stroke to a sector.         *)
RecordStroke ==
  /\ Idle
  /\ LET i == Slot(ram.dir, FixedRecord)
         e == ram.dir[i]
         off == e.len \div PerSector
     IN  /\ off + 1 <= e.cap
         /\ UNCHANGED ram
         /\ Begin(<<Put([s \in {e.start + off} |-> <<Mark>>]),
                    Dir(i, [e EXCEPT !.len = @ + PerSector])>>,
                  {FixedRecord}, Append(Read(ram.dir, disk.sec, FixedRecord), Mark), {})

(* A blob, once: its bytes, its name, then the allocator's advance.         *)
BlobPlan(i, e, bytes) ==
  <<Put([s \in {e.start} |-> bytes]), Dir(i, e), Super(i, e, ram.next + 1)>>

WriteBlob(n) ==
  /\ Idle /\ n \in Names \ Locks /\ TypeAt(n) = "absent"
  /\ FreeSlots(ram.dir) # {} /\ ram.next <= Total
  /\ LET i == FirstFree(ram.dir)
     IN  /\ ram' = [ram EXCEPT !.next = @ + 1]
         /\ Begin(BlobPlan(i, Entry(n, "blob", ram.next, 1, 1), <<n>>), {n}, <<n>>, {})

(* The same bytes again are answered with nothing performed; a blob's name  *)
(* is its content's hash, so other bytes under it are refused.              *)
WriteBlobAgain(n) ==
  /\ Idle /\ TypeAt(n) = "blob" /\ n \notin Locks
  /\ Read(ram.dir, disk.sec, n) = <<n>>
  /\ UNCHANGED ram
  /\ Begin(<< >>, {n}, <<n>>, {})

(* The lock's marker is rewritten in place under its own name class.        *)
WriteMarker(n) ==
  /\ Idle /\ n \in Locks
  /\ IF TypeAt(n) = "absent"
     THEN /\ FreeSlots(ram.dir) # {} /\ ram.next <= Total
          /\ ram' = [ram EXCEPT !.next = @ + 1]
          /\ Begin(BlobPlan(FirstFree(ram.dir), Entry(n, "blob", ram.next, 1, 1), <<Mark>>),
                   {n}, <<Mark>>, {})
     ELSE LET i == Slot(ram.dir, n)
          IN  /\ UNCHANGED ram
              /\ Begin(<<Put([s \in {ram.dir[i].start} |-> <<Mark>>]),
                         Dir(i, [ram.dir[i] EXCEPT !.len = 1])>>, {n}, <<Mark>>, {n})

RemoveFile(n) ==
  /\ Idle /\ TypeAt(n) \notin {"absent", "record"}
  /\ UNCHANGED ram
  /\ LET i == Slot(ram.dir, n)
     IN  Begin(<<Dir(i, [ram.dir[i] EXCEPT !.present = FALSE])>>, {}, << >>, {n})

(* The directory entry takes the other name; no data moves.                 *)
NamedAnew(o, n, before) ==
  LET i == Slot(ram.dir, o)
  IN  /\ op' = [plan |-> Append(before, Dir(i, [ram.dir[i] EXCEPT !.name = n])),
                at |-> {n}, bytes |-> Read(ram.dir, disk.sec, o)]
      /\ said' = {[p EXCEPT !.at = IF o \in @ THEN {o, n} ELSE @] :
                    p \in {q \in said : n \notin q.at}}
      /\ acts' = acts + 1 /\ UNCHANGED <<ram, disk, firm, unheeded, exposed, crashes>>

(* Anything but the record or a staging file moves, to an absent name.      *)
Rename(o, n) ==
  /\ Idle /\ {o, n} \subseteq Names \ Locks
  /\ TypeAt(o) \notin {"absent", "record", "durable"} /\ TypeAt(n) = "absent"
  /\ NamedAnew(o, n, << >>)

(* A staging file swaps over its final name, which leaves the table first.  *)
SwapRename(o, n) ==
  /\ Idle /\ o # n /\ {o, n} \subseteq Names \ Locks
  /\ TypeAt(o) = "durable" /\ TypeAt(n) # "record"
  /\ LET j == Slot(ram.dir, n)
     IN  NamedAnew(o, n, IF TypeAt(n) = "absent" THEN << >>
                         ELSE <<Dir(j, [ram.dir[j] EXCEPT !.present = FALSE])>>)

----------------------------------------------------------------------------
SameSector(i) == {j \in 0..Slots-1 : j \div PerDir = i \div PerDir}

(* A directory sector is written whole, with its neighbours as RAM has them. *)
Persist(dir, i) ==
  [j \in 0..Slots-1 |-> IF j \in SameSector(i) THEN dir[j] ELSE disk.dir[j]]

Written(put, some) ==
  [s \in 1..Total |-> IF s \in some THEN put[s] ELSE disk.sec[s]]

(* The step about to be performed, the table with its entry, and the disk   *)
(* with it written.                                                         *)
Step  == Head(op.plan)
Table == IF Step.kind = "data" THEN ram.dir ELSE [ram.dir EXCEPT ![Step.slot] = Step.entry]
Stepped ==
  CASE Step.kind = "data"  -> [disk EXCEPT !.sec = Written(Step.put, DOMAIN Step.put)]
    [] Step.kind = "super" -> [disk EXCEPT !.next = Step.next]
    [] Step.kind = "dir"   -> [disk EXCEPT !.dir = Persist(Table, Step.slot)]

(* What the body does at a step, however the disk fares: ata_write_sector's *)
(* answer is looked at for data alone, ata_flush's never.                   *)
Performed ==
  /\ op # None /\ op.plan # << >>
  /\ ram' = [dir |-> Table, next |-> IF Step.kind = "super" THEN Step.next ELSE ram.next]
  /\ op' = [op EXCEPT !.plan = Tail(@)]
  /\ UNCHANGED <<said, exposed, acts, crashes>>

(* The step is written and flushed.  (A moved file's copy is flushed with   *)
(* the superblock after it, and named by nothing before that.)              *)
Perform ==
  /\ Performed
  /\ disk' = Stepped /\ firm' = disk'
  /\ UNCHANGED unheeded

(* The flush fails, or the write of the superblock or the directory does,   *)
(* with its flush or without; the act goes on.                              *)
PerformUnheeded ==
  /\ unheeded < MaxUnheeded
  /\ Performed
  /\ \/ disk' = Stepped /\ firm' = firm
     \/ Step.kind # "data" /\ disk' = disk /\ firm' \in {firm, disk}
  /\ unheeded' = unheeded + 1

(* A data sector fails: the act returns -1 and leaves RAM as it is.         *)
SectorFails ==
  /\ op # None /\ op.plan # << >> /\ Step.kind = "data"
  /\ \E some \in SUBSET DOMAIN Step.put : disk' = [disk EXCEPT !.sec = Written(Step.put, some)]
  /\ op' = None
  /\ UNCHANGED <<ram, firm, said, unheeded, exposed, acts, crashes>>

Answer ==
  /\ op # None /\ op.plan = << >>
  /\ op' = None
  /\ said' = {p \in said : p.at \cap op.at = {}}
             \cup (IF op.at = {} THEN {} ELSE {[at |-> op.at, bytes |-> op.bytes]})
  /\ UNCHANGED <<ram, disk, firm, unheeded, exposed, acts, crashes>>

(* The power goes: of the data step under way and of what was not flushed,  *)
(* any of the sectors are on the platter.  The body boots again: fs_mount.  *)
Crash ==
  /\ crashes < MaxCrashes
  /\ LET put   == IF op # None /\ op.plan # << >> THEN Step.put ELSE << >>
         loose == {s \in 1..Total : firm.sec[s] # disk.sec[s]}
         stale == {i \in 0..Slots-1 : firm.dir[i] # disk.dir[i]}
     IN  \E some \in SUBSET DOMAIN put, lost \in SUBSET loose, next \in {firm.next, disk.next},
            dirs \in SUBSET {i \div PerDir : i \in stale} :
           disk' = [dir  |-> [i \in 0..Slots-1 |->
                                IF i \div PerDir \in dirs THEN firm.dir[i] ELSE disk.dir[i]],
                    next |-> next,
                    sec  |-> [s \in 1..Total |-> IF s \in some THEN put[s]
                                               ELSE IF s \in lost THEN firm.sec[s]
                                               ELSE disk.sec[s]]]
  /\ firm' = disk' /\ ram' = Mounted'
  /\ exposed' = (exposed \/ unheeded > 0
                  \/ (op # None /\ Len(op.plan) = 1 /\ Step.kind = "super"))
  /\ unheeded' = 0
  /\ op' = None /\ crashes' = crashes + 1
  /\ UNCHANGED <<said, acts>>

Next ==
  \/ \E n \in Names : OpenAppend(n) \/ AppendStroke(n) \/ OpenTrunc(n) \/ WriteStaged(n)
                      \/ WriteBlob(n) \/ WriteBlobAgain(n) \/ WriteMarker(n) \/ RemoveFile(n)
  \/ \E o, n \in Names : Rename(o, n) \/ SwapRename(o, n)
  \/ RecordStroke
  \/ Perform \/ PerformUnheeded \/ SectorFails \/ Answer \/ Crash

Spec == Init /\ [][Next]_vars

----------------------------------------------------------------------------
(* Whatever was answered is read back: every promise's bytes begin the file *)
(* found under one of its names (fs_record_write_at, fs_nrec_append,        *)
(* fs_blob_write_once).                                                     *)
BytesAreKept ==
  op = None =>
    \A p \in said : \E n \in p.at :
      /\ Found(ram.dir, n) # {}
      /\ IsPrefix(p.bytes, Read(ram.dir, disk.sec, n))

(* No sector belongs to two files, and none above next_free to any.         *)
ExtentsAreApart ==
  /\ \A i, j \in DOMAIN ram.dir :
       ram.dir[i].present /\ ram.dir[j].present /\ i # j =>
         Extent(ram.dir[i]) \cap Extent(ram.dir[j]) = {}
  /\ \A i \in DOMAIN ram.dir :
       ram.dir[i].present /\ ram.dir[i].cap > 0 => ram.dir[i].start + ram.dir[i].cap <= ram.next

(* Both: whatever fails, while the power stays; and after power cuts        *)
(* anywhere, unless one came after a failure the body took no heed of or    *)
(* between a blob's name and the superblock.                                *)
DiskIsSound == ~exposed => BytesAreKept /\ ExtentsAreApart
=============================================================================
