----------------------------- MODULE RecordsFs -----------------------------
(* The user-space mount (bridge/records_fs.py).  libfuse calls it one       *)
(* request at a time.  Every call that changes something goes to the gate   *)
(* as a recorded act, and the served state is advanced by the store's       *)
(* listener; writes are held in a burst per handle and recorded when the    *)
(* burst is closed, merged over what is recorded by then.                   *)
(*                                                                          *)
(* Acts that neither fold reads (FILE-OPEN, FILE-CLOSE, read aggregates)    *)
(* are left out of rec.  A byte is a number, 0 the one that fills a gap;    *)
(* a handle writes its own number, so that a byte names its writer.         *)
EXTENDS Custody

CONSTANTS MaxRec,      \* bound: length of the record
          MaxHandles,  \* bound: opens over the life of a mount
          MaxLen,      \* bound: bytes in a file
          Hidden,      \* the name libfuse mints to hide an open file under
          Owners,      \* processes that take locks
          MaxEvents,   \* writes after which the policy closes a burst
          Sparse       \* may a write start past the end of the handle's buffer?

VARIABLES rec,      \* the record
          st,       \* the served custody state
          locks,    \* locks held through this mount
          open,     \* handle -> [ino, path]; path is the name libfuse passes
          burst,    \* the open bursts in the order they began
          hidden,   \* hidden path -> inode
          nextFh,
          braked,   \* does the gate refuse everything right now?
          halted,
          failed    \* did the last call end in an error that is no refusal?

vars == <<rec, st, locks, open, burst, hidden, nextFh, braked, halted, failed>>

NoVal   == "none"
Visible == Paths \ ({Root} \cup {p \in Paths : p # Root /\ Last(p) = Hidden})
HiddenPath(path) == Append(parent_of(path), Hidden)

NoHandles == [n \in {} |-> 0]

Init == /\ rec = << >> /\ st = Fold(rec) /\ locks = {}
        /\ open = NoHandles /\ burst = << >> /\ hidden = NoHandles
        /\ nextFh = 1 /\ braked = FALSE /\ halted = FALSE /\ failed = FALSE

----------------------------------------------------------------------------
(* The record side.  _on_append: a recover cannot be undone record by       *)
(* record, so the state is folded again from the record.                    *)
OnAppend(state, record) ==
  LET e == Last(record)
  IN  IF e.op = "RECOVER" THEN Fold(record) ELSE Apply(state, e, Len(record))

(* One call's acts, recorded one after the other.  The gate refuses the     *)
(* first one when it is braked, and a halted mount changes nothing: a       *)
(* refusal comes back as an errno, and _close_burst puts its burst back.    *)
Admits == ~ braked /\ ~ halted

AppendAll(es) ==
  LET step(acc, e) == LET r == Append(acc.rec, e)
                      IN  [rec |-> r, st |-> OnAppend(acc.st, r),
                           locks |-> ApplyLock(acc.locks, e)]
  IN  FoldLeft(step, [rec |-> rec, st |-> st, locks |-> locks], es)

Acts(es) ==
  /\ es # << >> => Admits
  /\ Len(rec) + Len(es) <= MaxRec
  /\ LET r == AppendAll(es) IN rec' = r.rec /\ st' = r.st /\ locks' = r.locks

NameRec(op, path, to, kind) == Rec(op, path, to, kind, NoIno, NoVal)

(* _prov: the account the calling uid is mapped to, or the uid's own name;  *)
(* the provenance asserts the uid, in every record that carries provenance. *)
Prov(uid) == MadeBy(uid, uid \in Mapped, uid)
MakeRec(op, path, kind, uid) == Rec(op, path, Root, kind, NoIno, Prov(uid))

Lawful(e) == Refusal(LiveNamespace(rec), e) = "OK"

(* RecordsFS._node: a served name, or one of the port's hidden aliases. *)
NodeOf(path) ==
  IF exists(st, path) THEN st.names[path]
  ELSE LET i == At(hidden, path, NoIno)
       IN  IF i \in DOMAIN st.inodes THEN i ELSE NoIno

ParentIsDir(path) == KindOf(st, parent_of(path)) = "dir"
IsOpenAt(path) == \E h \in DOMAIN open : open[h].path = path

----------------------------------------------------------------------------
(* Bursts *)
Where(bs, chosen) ==
  FoldLeft(LAMBDA kept, b : IF b \in chosen THEN Append(kept, b) ELSE kept, << >>, bs)

Recorded(ino) == IF ino \in DOMAIN st.inodes THEN st.inodes[ino].content ELSE Empty

Byte(bytes, i) == IF i <= Len(bytes) THEN bytes[i] ELSE 0

(* Mutant: the whole buffer is recorded, not the dirtied ranges. *)
MergedWholeBuffer(base, b) == b.bytes

(* _close_burst: the ranges this handle dirtied, over what is recorded. *)
Merged(base, b) ==
  [i \in 1..Max({Len(base)} \cup b.dirty) |->
     IF i \in b.dirty THEN Byte(b.bytes, i) ELSE Byte(base, i)]

(* Bursts closed one after the other, each over what the last one recorded. *)
CloseRecs(bs) ==
  LET earlier(done, b) == {k \in 1..Len(done) : done[k].ino = b.ino}
      base(done, b) == IF b.ino \notin DOMAIN st.inodes THEN Empty
                       ELSE IF earlier(done, b) = {} THEN Recorded(b.ino)
                       ELSE done[Max(earlier(done, b))].val
      step(done, b) == Append(done, FileWrite(b.ino, Merged(base(done, b), b)))
  IN  FoldLeft(step, << >>, bs)

BurstsAt(path) == Where(burst, {b \in ToSet(burst) : b.path = path})
BurstOf(h)     == Where(burst, {b \in ToSet(burst) : b.fh = h})
DropBursts(bs) ==
  burst' = Where(burst, {b \in ToSet(burst) : \A k \in 1..Len(bs) : bs[k].fh # b.fh})

(* A call fails while it closes bursts, or after, and not by a refusal: a   *)
(* blob cannot be read or written, the append or its barrier fails, or the  *)
(* store was poisoned before.  _act makes an errno of a refusal alone, so   *)
(* _close_burst does not put back the burst it popped: the earlier ones are *)
(* recorded, the last one popped is recorded only where its barrier or what *)
(* came after it failed, and the rest of the call is not made.              *)
CallFails(bs) ==
  \E m \in 1..Len(bs) : \E n \in {m - 1, m} :
    /\ Acts(CloseRecs(SubSeq(bs, 1, n)))
    /\ DropBursts(SubSeq(bs, 1, m))

----------------------------------------------------------------------------
(* Calls about names *)
Create(path, uid) ==
  /\ ~ exists(st, path) /\ ParentIsDir(path) /\ nextFh <= MaxHandles
  /\ Lawful(MakeRec("FILE-CREATE", path, "file", uid))
  /\ Acts(<<MakeRec("FILE-CREATE", path, "file", uid)>>)
  /\ open' = With(open, nextFh, [ino |-> st'.names[path], path |-> path])
  /\ nextFh' = nextFh + 1
  /\ UNCHANGED <<burst, hidden, braked, halted>>

Plain(e) == /\ Lawful(e) /\ Acts(<<e>>)
            /\ UNCHANGED <<open, burst, hidden, nextFh, braked, halted>>

Make(op, kind, path, uid) ==
  /\ ~ exists(st, path) /\ ParentIsDir(path)
  /\ Plain(MakeRec(op, path, kind, uid))

Rmdir(path) ==
  /\ KindOf(st, path) = "dir" /\ children(st, path) = {}
  /\ Plain(NameRec("FILE-RMDIR", path, Root, "none"))

Link(source, target) ==
  /\ exists(st, source) /\ KindOf(st, source) # "dir" /\ ~ exists(st, target)
  /\ ParentIsDir(target)         \* resolved by the kernel before it calls
  /\ Plain(NameRec("FILE-LINK", source, target, "none"))

(* libfuse unlinks a name only when no handle is open on it ... *)
Unlink(path) ==
  /\ exists(st, path) /\ KindOf(st, path) # "dir" /\ ~ IsOpenAt(path)
  /\ Plain(NameRec("FILE-UNLINK", path, Root, "none"))

(* ... and renames it aside otherwise, which the port records as the unlink *)
(* it stands for.  A name libfuse mints is no other's in its whole tree.    *)
IsMinted == \/ \E p \in DOMAIN hidden : Last(p) = Hidden
            \/ \E h \in DOMAIN open : Last(open[h].path) = Hidden

RenameAside(path) ==
  /\ exists(st, path) /\ KindOf(st, path) # "dir" /\ IsOpenAt(path)
  /\ ~ IsMinted
  /\ LET unlink == NameRec("FILE-UNLINK", path, Root, "none")
         new == HiddenPath(path)
     IN  /\ Lawful(unlink)
         /\ Acts(Append(CloseRecs(BurstsAt(path)), unlink))
         /\ DropBursts(BurstsAt(path))
         /\ hidden' = With(hidden, new, st.names[path])
         /\ open' = [h \in DOMAIN open |->
                       IF open[h].path = path THEN [open[h] EXCEPT !.path = new] ELSE open[h]]
  /\ UNCHANGED <<nextFh, braked, halted>>

(* The last close unlinks the alias.  One that a directory's rename left    *)
(* behind stays until the mount goes down; here it may go, for libfuse      *)
(* would mint another name.                                                 *)
UnlinkHidden(path) ==
  /\ path \in DOMAIN hidden /\ ~ exists(st, path) /\ ~ IsOpenAt(path)
  /\ hidden' = Without(hidden, path)
  /\ UNCHANGED <<rec, st, locks, open, burst, nextFh, braked, halted>>

RenameTo(old, new) ==
  /\ exists(st, old) /\ ParentIsDir(new) /\ ~ IsPrefix(old, new) /\ ~ IsOpenAt(new)
  /\ exists(st, new) => /\ st.names[old] # st.names[new]
                        /\ children(st, new) = {}
                        /\ KindOf(st, new) = KindOf(st, old)
  /\ \A p \in Below(st.names, old) : Len(p) - Len(old) + Len(new) <= Depth
  /\ LET mv == NameRec("FILE-RENAME", old, new, "none")
     IN  /\ Lawful(mv)
         /\ Acts(Append(CloseRecs(BurstsAt(old)), mv))
         /\ DropBursts(BurstsAt(old))
         /\ open' = [h \in DOMAIN open |->
                       IF IsPrefix(old, open[h].path)
                       THEN [open[h] EXCEPT !.path =
                               new \o SubSeq(@, Len(old) + 1, Len(@))]
                       ELSE open[h]]
  /\ UNCHANGED <<hidden, nextFh, braked, halted>>

SetAttr(path) ==
  /\ NodeOf(path) # NoIno
  /\ Acts(<<FilePerm(NodeOf(path), "set")>>)
  /\ UNCHANGED <<open, burst, hidden, nextFh, braked, halted>>

Chown(path, uid) ==
  /\ NodeOf(path) # NoIno
  /\ Acts(<<FileChown(NodeOf(path), uid)>>)
  /\ UNCHANGED <<open, burst, hidden, nextFh, braked, halted>>

(* What a stat answers, through a handle or a name: the size is that of the *)
(* youngest burst over the file, else the recorded one; the mount's root is *)
(* the server's own.                                                        *)
GetAttr(i) ==
  LET over == Where(burst, {b \in ToSet(burst) : b.ino = i})
  IN  [ino |-> i, kind |-> st.inodes[i].kind, nlink |-> nlink(st, i),
       size |-> IF over = << >> THEN Len(Recorded(i)) ELSE Len(Last(over).bytes),
       owner |-> st.inodes[i].owner]

(* What a read of a handle returns: its own burst, else what is recorded.   *)
Read(h) ==
  IF BurstOf(h) # << >> /\ BurstOf(h)[1].ino = open[h].ino
  THEN BurstOf(h)[1].bytes ELSE Recorded(open[h].ino)

----------------------------------------------------------------------------
(* Calls about contents *)
Truncated(bytes, n) == [i \in 1..n |-> Byte(bytes, i)]

Truncate(path, n) ==
  /\ NodeOf(path) # NoIno /\ st.inodes[NodeOf(path)].kind # "dir"
  /\ LET i   == NodeOf(path)
         cur == IF BurstsAt(path) = << >> THEN Recorded(i)
                ELSE Last(CloseRecs(BurstsAt(path))).val
     IN  /\ Acts(Append(CloseRecs(BurstsAt(path)),
                        FileTruncate(i, Truncated(cur, n))))
         /\ DropBursts(BurstsAt(path))
  /\ UNCHANGED <<open, hidden, nextFh, braked, halted>>

Open(path, trunc) ==
  /\ exists(st, path) /\ KindOf(st, path) # "dir" /\ nextFh <= MaxHandles /\ ~ braked
  /\ LET i == st.names[path]
     IN  /\ Acts(IF trunc THEN <<FileTruncate(i, Empty)>>
                 ELSE << >>)
         /\ open' = With(open, nextFh, [ino |-> i, path |-> path])
  /\ nextFh' = nextFh + 1
  /\ UNCHANGED <<burst, hidden, braked, halted>>

Written(bytes, offset, byte) ==
  [i \in 1..Max({Len(bytes), offset + 1}) |-> IF i = offset + 1 THEN byte ELSE Byte(bytes, i)]

NewBurst(h, i, path) == [fh |-> h, bytes |-> Recorded(i), dirty |-> {}, wrote |-> {},
                         events |-> 0, ino |-> i, path |-> path]

(* write: a write past the end of the handle's buffer fills the gap with    *)
(* zeros, and the gap is part of the range it dirtied.  The policy closes a *)
(* burst of MaxEvents writes; a refusal there keeps the burst.              *)
Dirtied(b, offset) == (Min({offset, Len(b.bytes)}) + 1)..(offset + 1)

OwnBurst(h) == IF BurstOf(h) # << >> THEN BurstOf(h)[1]
               ELSE NewBurst(h, NodeOf(open[h].path), open[h].path)

Grown(h, offset) ==
  LET b == OwnBurst(h)
  IN  [b EXCEPT !.bytes = Written(@, offset, h), !.dirty = @ \cup Dirtied(b, offset),
                !.wrote = @ \cup {offset + 1}, !.events = Min({@ + 1, MaxEvents})]

IsFull(b) == b.events >= MaxEvents

MayWrite(h, offset) ==
  /\ h \in DOMAIN open /\ ~ halted /\ NodeOf(open[h].path) # NoIno
  /\ Sparse \/ offset <= Len(OwnBurst(h).bytes)

Write(h, offset) ==
  /\ MayWrite(h, offset)
  /\ LET new    == Grown(h, offset)
         closes == IsFull(new) /\ Admits
     IN  /\ Acts(IF closes THEN CloseRecs(<<new>>) ELSE << >>)
         /\ IF closes THEN DropBursts(<<new>>)
            ELSE burst' = IF BurstOf(h) = << >> THEN Append(burst, new)
                          ELSE [k \in 1..Len(burst) |->
                                  IF burst[k].fh = h THEN new ELSE burst[k]]
  /\ UNCHANGED <<open, hidden, nextFh, braked, halted>>

(* flush: close the burst, then give up the locks the process holds. *)
LocksOf(ino, owner) == {lk \in locks : lk.ino = ino /\ lk.owner = owner}

LockVal(owner, ltype, start, length) ==
  [owner |-> owner, ltype |-> ltype, start |-> start, length |-> length]

(* Mutant: the part after the unlocked range is forgotten. *)
RemaindersLeftOnly(lk, us, ul) ==
  IF us > lk.start THEN <<<<lk.start, us - lk.start>>>> ELSE << >>

(* _lock_remainders: what an unlock of [us, us+ul) leaves of a lock. *)
Remainders(lk, us, ul) ==
  LET lEnd == lk.start + lk.length
      uEnd == us + ul
      left  == IF us > lk.start THEN <<<<lk.start, us - lk.start>>>> ELSE << >>
      right == IF ul # 0 /\ (lk.length = 0 \/ uEnd < lEnd)
               THEN <<<<uEnd, IF lk.length = 0 THEN 0 ELSE lEnd - uEnd>>>> ELSE << >>
  IN  left \o right

ReleaseOne(lk, us, ul) ==
  LET again(r) == FileRange("FILE-LOCK", lk.ino, LockVal(lk.owner, lk.ltype, r[1], r[2]))
      rem == Remainders(lk, us, ul)
  IN  <<FileRange("FILE-UNLOCK", lk.ino, LockVal(lk.owner, lk.ltype, lk.start, lk.length))>>
      \o [k \in 1..Len(rem) |-> again(rem[k])]

ReleaseLocks(ino, owner, us, ul) ==
  LET hit == SetToSeq({lk \in LocksOf(ino, owner) : Overlaps(lk.start, lk.length, us, ul)})
  IN  FlattenSeq([k \in 1..Len(hit) |-> ReleaseOne(hit[k], us, ul)])

Flush(h, owner) ==
  /\ h \in DOMAIN open
  /\ Acts(CloseRecs(BurstOf(h)) \o ReleaseLocks(open[h].ino, owner, 0, 0))
  /\ DropBursts(BurstOf(h))
  /\ UNCHANGED <<open, hidden, nextFh, braked, halted>>

(* fsync is a barrier: the open burst is recorded and nothing else. *)
Fsync(h) ==
  /\ h \in DOMAIN open /\ BurstOf(h) # << >>
  /\ Acts(CloseRecs(BurstOf(h)))
  /\ DropBursts(BurstOf(h))
  /\ UNCHANGED <<open, hidden, nextFh, braked, halted>>

(* release: the handle goes even when its FILE-CLOSE is refused; otherwise  *)
(* the shadow check runs, where no burst is open.                           *)
Release(h) ==
  /\ h \in DOMAIN open
  /\ Acts(CloseRecs(BurstOf(h)))
  /\ DropBursts(BurstOf(h))
  /\ open' = Without(open, h)
  /\ halted' = (halted \/ (Admits /\ burst' = << >> /\ st' # Fold(rec')))
  /\ UNCHANGED <<hidden, nextFh, braked>>

LockRange(h, owner, ltype, start, length) ==
  /\ h \in DOMAIN open
  /\ Conflict(locks, open[h].ino, owner, ltype, start, length) = {}
  /\ Acts(<<FileRange("FILE-LOCK", open[h].ino, LockVal(owner, ltype, start, length))>>)
  /\ UNCHANGED <<open, burst, hidden, nextFh, braked, halted>>

UnlockRange(h, owner, start, length) ==
  /\ h \in DOMAIN open
  /\ LET es == ReleaseLocks(open[h].ino, owner, start, length)
     IN  es # << >> /\ Acts(es)
  /\ UNCHANGED <<open, burst, hidden, nextFh, braked, halted>>

----------------------------------------------------------------------------
(* Around the mount *)
Brake == /\ braked' = ~ braked
         /\ UNCHANGED <<rec, st, locks, open, burst, hidden, nextFh, halted>>

Recover(target) ==
  /\ target \in 1..Len(rec)
  /\ Acts(<<Rec("RECOVER", Root, Root, "none", NoIno, target)>>)
  /\ UNCHANGED <<open, burst, hidden, nextFh, braked, halted>>

(* The mount goes down with every handle, burst and lock, and comes back. *)
Remount == /\ nextFh > 1
           /\ st' = Fold(rec) /\ locks' = {}
           /\ open' = NoHandles /\ burst' = << >> /\ hidden' = NoHandles
           /\ nextFh' = 1 /\ halted' = FALSE
           /\ UNCHANGED <<rec, braked>>

NameCalls ==
  \E p \in Visible :
    \/ \E u \in Uids : \/ Create(p, u) \/ Make("FILE-MKDIR", "dir", p, u)
                       \/ Make("FILE-SYMLINK", "link", p, u) \/ Chown(p, u)
    \/ Rmdir(p) \/ Unlink(p) \/ RenameAside(p) \/ SetAttr(p)
    \/ \E q \in Visible : Link(p, q) \/ RenameTo(p, q)

HiddenCalls == \E p \in DOMAIN hidden : UnlinkHidden(p)

ContentCalls ==
  \/ \E p \in Visible \cup DOMAIN hidden, n \in {0, 1} : Truncate(p, n)
  \/ \E p \in Visible, trunc \in BOOLEAN : Open(p, trunc)
  \/ \E h \in DOMAIN open :
       \/ \E offset \in 0..(MaxLen - 1) : Write(h, offset)
       \/ \E o \in Owners : Flush(h, o)
       \/ Fsync(h) \/ Release(h)

LockCalls ==
  \E h \in DOMAIN open, o \in Owners, s \in 0..1, n \in 0..1 :
    \/ \E lt \in {"read", "write"} : LockRange(h, o, lt, s, n)
    \/ UnlockRange(h, o, s, n)

(* What a call closes: a truncate, a rename or an unlink of an open file;   *)
(* a flush, fsync or release; the write that ends a burst.                  *)
ClosedByACall ==
  LET paths  == {p \in Visible \cup DOMAIN hidden : NodeOf(p) # NoIno}
      writes == {w \in (DOMAIN open) \X (0..(MaxLen - 1)) : MayWrite(w[1], w[2])}
  IN  {BurstsAt(p) : p \in paths} \cup {BurstOf(h) : h \in DOMAIN open}
        \cup {<<b>> : b \in {c \in {Grown(w[1], w[2]) : w \in writes} : IsFull(c)}}

(* libfuse forgets a handle whose release failed. *)
FailedCall ==
  \E bs \in ClosedByACall :
    /\ CallFails(bs)
    /\ \/ open' = open
       \/ \E h \in DOMAIN open : bs = BurstOf(h) /\ open' = Without(open, h)
    /\ UNCHANGED <<hidden, nextFh, braked, halted>>

Next == \/ /\ failed' = FALSE
           /\ \/ NameCalls \/ HiddenCalls \/ ContentCalls \/ LockCalls
              \/ Brake \/ Remount \/ \E t \in 1..MaxRec : Recover(t)
        \/ failed' = TRUE /\ FailedCall

Spec == Init /\ [][Next]_vars

----------------------------------------------------------------------------
(* The served tree is what the record folds to, after every call and also   *)
(* when a recover lands on the live mount, so the shadow check at release   *)
(* never halts the mount (RecordsFS._on_append, _shadow_check).             *)
ShadowNeverDiffers == ~ halted /\ st = Fold(rec)

Bytes == 0..3
Covers(lk) == {i \in Bytes : lk.start <= i /\ (lk.length = 0 \/ i < lk.start + lk.length)}

(* No two processes hold one byte unless both only read it, whatever was    *)
(* locked, unlocked in part and locked again (RecordsFS.lock).              *)
NoConflictingLocks ==
  \A x, y \in locks :
    (x.ino = y.ino /\ x.owner # y.owner /\ Covers(x) \cap Covers(y) # {})
      => x.ltype = "read" /\ y.ltype = "read"

HeldBy(tbl, ino, owner) == UNION {Covers(lk) : lk \in {k \in tbl : k.ino = ino /\ k.owner = owner}}

(* An unlock gives up the bytes it names and no others, though the lock     *)
(* fold drops a lock whole: the rest is recorded again                      *)
(* (RecordsFS._release_locks, _lock_remainders).                            *)
UnlockGivesUpItsRange ==
  \A h \in DOMAIN open, o \in Owners, s \in 0..1, n \in 0..1 :
    LET ino == open[h].ino
    IN  HeldBy(AppendAll(ReleaseLocks(ino, o, s, n)).locks, ino, o) =
          HeldBy(locks, ino, o) \ {i \in Bytes : s <= i /\ (n = 0 \/ i < s + n)}

(* Closing a burst records the bytes its handle wrote and leaves every byte *)
(* another handle had recorded by then: "Overlaying only the ranges THIS    *)
(* burst wrote preserves both" (RecordsFS._close_burst).                    *)
CommitKeepsOthersStep ==
  \A k \in 1..Len(burst) :
    LET b   == burst[k]
        new == rec'[Len(rec) + 1].val
        old == Recorded(b.ino)
    IN  (/\ Len(rec') > Len(rec) /\ rec'[Len(rec) + 1].op = "FILE-WRITE"
         /\ \A j \in 1..Len(burst') : burst'[j].fh # b.fh
         /\ \A j \in 1..Len(burst) : j # k => \E i \in 1..Len(burst') : burst'[i] = burst[j])
        => /\ \A i \in b.wrote : Byte(new, i) = b.fh
           /\ \A i \in 1..Len(old) : Byte(new, i) \in {old[i], b.fh}

(* Bytes a handle was told were written leave its burst only into a record  *)
(* or with the mount: a refused act keeps them.  A call that fails and is   *)
(* not refused loses the burst it was closing, that one alone, and its      *)
(* caller has the error (RecordsFS._close_burst, _act).                     *)
Kept(b) ==
  \/ \E j \in 1..Len(burst') : /\ burst'[j].fh = b.fh
                               /\ b.wrote \subseteq burst'[j].wrote
  \/ \E n \in (Len(rec) + 1)..Len(rec') :
       /\ rec'[n].op = "FILE-WRITE" /\ rec'[n].ino = b.ino
       /\ \A i \in b.wrote : Byte(rec'[n].val, i) = b.fh

AcceptedBytesAreKeptStep ==
  nextFh' = 1 \/ \A k \in 1..Len(burst) :
    \/ Kept(burst[k])
    \/ failed' /\ \A j \in (1..Len(burst)) \ {k} : Kept(burst[j])

(* The alias the port keeps for an unlinked open file is not moved with a   *)
(* directory above it, though the path libfuse passes is (RecordsFS.rename).*)
Strayed(path) ==
  /\ Last(path) = Hidden
  /\ \E n \in 1..Len(rec) : rec[n].op = "FILE-RENAME" /\ IsStrictPrefix(rec[n].to, path)

(* A handle reaches its own file through the name libfuse uses for it, also *)
(* after that file was unlinked, renamed, or its name was taken by another  *)
(* file: never another's, and none only when the file was unlinked and a    *)
(* directory above it renamed; until a recover takes the file out of the    *)
(* record.                                                                  *)
HandleReachesItsFile ==
  (\A n \in 1..Len(rec) : rec[n].op # "RECOVER") =>
    \A h \in DOMAIN open :
      \/ NodeOf(open[h].path) = open[h].ino
      \/ NodeOf(open[h].path) = NoIno /\ Strayed(open[h].path)

(* A node is its maker's until it is given away, whether the record maps    *)
(* the maker to an account or not (custody._creator, RecordsFS._prov).      *)
NodesAreTheirMakers ==
  \A i \in DOMAIN st.inodes \ {RootIno} :
    LET given == {n \in 1..Len(rec) : rec[n].op = "FILE-CHOWN" /\ rec[n].ino = i}
        owner == st.inodes[i].owner
    IN  /\ given = {} => owner = rec[i - RootIno].val.by
        /\ owner \in {rec[i - RootIno].val.by} \cup {rec[n].val : n \in given}
        /\ (given # {} /\ \A n \in 1..Len(rec) : rec[n].op # "RECOVER")
             => owner = rec[Max(given)].val

(* A handle reads what it wrote, and while it alone writes its file a stat  *)
(* answers the size it reads, until a recover takes the file out.           *)
HandleReadsItsWrites ==
  (\A n \in 1..Len(rec) : rec[n].op # "RECOVER") =>
    \A k \in 1..Len(burst) :
      LET b == burst[k]
      IN  b.fh \in DOMAIN open =>
            /\ \A i \in b.wrote : Byte(Read(b.fh), i) = b.fh
            /\ (\A j \in 1..Len(burst) : j # k => burst[j].ino # b.ino)
                 => GetAttr(b.ino).size = Len(Read(b.fh))

=============================================================================
