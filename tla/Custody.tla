------------------------------ MODULE Custody ------------------------------
(* The two readers of the file records.  The port's reader is the custody   *)
(* fold (bridge/custody.py): a namespace, its indexes and its inodes, built *)
(* record by record.  The gate's reader is the law namespace                *)
(* (kernel/opdefs.py): the names the FILE-* definitions say are bound, and  *)
(* the kind of each, from which the gate decides.                           *)
(*                                                                          *)
(* A path is a sequence of names, the mount's root the empty one.  A record *)
(* is [op, path, to, kind, ino, val]; its seq is its place in the sequence. *)
(* Contents are stored by hash; a content here stands for its hash.         *)
EXTENDS Naturals, Sequences, FiniteSets, SequencesExt, FiniteSetsExt

CONSTANTS Names,     \* what one component of a path may be called
          Uids,      \* users of the host
          Mapped,    \* those of them that the record maps to an account
          Depth,     \* the longest path
          Empty      \* the content of a file nobody wrote

Root  == << >>
Paths == UNION {[1..n -> Names] : n \in 0..Depth}
Kinds == {"file", "dir", "link", "fifo"}
NoIno == 0
RootIno == 1

parent_of(path) == Front(path)
basename(path)  == Last(path)

(* The identity of a node is the place of the record that founded it, moved *)
(* into a band of its own above the root's number.                          *)
FormalName(seq) == RootIno + seq

NoUid == 0 - 1

(* Who made a node: the uid that called, whether the record maps it to an   *)
(* account, and the uid in the provenance that the record carries.          *)
MadeBy(uid, mapped, prov) == [by |-> uid, mapped |-> mapped, prov |-> prov]

Rec(op, path, to, kind, ino, val) ==
  [op |-> op, path |-> path, to |-> to, kind |-> kind, ino |-> ino, val |-> val]

(* What an act on a node carries into its record, per founding definition.  *)
FileWrite(i, bytes)    == Rec("FILE-WRITE", Root, Root, "none", i, bytes)
FileTruncate(i, bytes) == Rec("FILE-TRUNCATE", Root, Root, "none", i, bytes)
FilePerm(i, v)         == Rec("FILE-PERM", Root, Root, "none", i, v)
FileAttr(op, i, v)     == Rec(op, Root, Root, "none", i, v)     \* op in AttrOps
FileChown(i, uid)      == Rec("FILE-CHOWN", Root, Root, "none", i, uid)
FileHandle(op, i)      == Rec(op, Root, Root, "none", i, "none")   \* open and close
FileReadAggregate(i)   == Rec("FILE-READ-AGGREGATE", Root, Root, "none", i, "none")
FileRange(op, i, lk)   == Rec(op, Root, Root, "none", i, lk)       \* lock and unlock

Minting == {"FILE-CREATE", "FILE-MKDIR", "FILE-SYMLINK"}
AttrOps == {"FILE-PERM", "FILE-CHOWN", "FILE-TIMES", "FILE-XATTR-SET",
            "FILE-XATTR-REMOVE", "FILE-XATTR-LAW"}

----------------------------------------------------------------------------
(* Partial functions *)
With(f, k, v) == [x \in DOMAIN f \cup {k} |-> IF x = k THEN v ELSE f[x]]
Without(f, k) == [x \in DOMAIN f \ {k} |-> f[x]]
At(f, k, default) == IF k \in DOMAIN f THEN f[k] ELSE default
(* An index drops a key that names nothing any more. *)
Entry(f, k, set) == IF set = {} THEN Without(f, k) ELSE With(f, k, set)

----------------------------------------------------------------------------
(* The port's reader *)

(* Whose a new node is: the uid its record's provenance asserts, else the   *)
(* uid an unmapped actor is named after, else nobody's, which is 0.         *)
Creator(e) ==
  IF e.val.prov # NoUid THEN e.val.prov ELSE IF e.val.mapped THEN 0 ELSE e.val.by

NewNode(e, seq) == [identity |-> FormalName(seq), kind |-> e.kind, owner |-> Creator(e),
                    content |-> Empty, attr |-> "none"]

EmptyState ==
  [names  |-> [p \in {Root} |-> RootIno],
   inodes |-> [i \in {RootIno} |-> [identity |-> RootIno, kind |-> "dir", owner |-> 0,
                                    content |-> Empty, attr |-> "none"]],
   kids   |-> [p \in {} |-> {}],
   paths  |-> [i \in {RootIno} |-> {Root}]]

Forget(st, path, ino) ==
  LET held  == At(st.paths, ino, {}) \ {path}
      up    == parent_of(path)
      kin   == At(st.kids, up, {}) \ {basename(path)}
  IN  [st EXCEPT !.paths = Entry(@, ino, held), !.kids = Entry(@, up, kin)]

Bind(st, path, ino) ==
  LET prev == At(st.names, path, NoIno)
      s    == IF prev = NoIno THEN st ELSE Forget(st, path, prev)
      up   == parent_of(path)
  IN  IF prev = ino THEN st
      ELSE [s EXCEPT !.names = With(@, path, ino),
                     !.paths = With(@, ino, At(@, ino, {}) \cup {path}),
                     !.kids  = With(@, up, At(@, up, {}) \cup {basename(path)})]

Unbind(st, path) ==
  IF path \notin DOMAIN st.names THEN st
  ELSE Forget([st EXCEPT !.names = Without(@, path)], path, st.names[path])

Move(st, src, dst) ==
  IF src \notin DOMAIN st.names THEN st
  ELSE Bind(Unbind(st, src), dst, st.names[src])

Below(names, path) ==
  {p \in DOMAIN names : IsStrictPrefix(path, p)}

(* A rename moves the name and then every name under it. *)
Rename(st, src, dst) ==
  LET top  == Move(st, src, dst)
      Tail1(p) == SubSeq(p, Len(src) + 1, Len(p))
  IN  FoldSet(LAMBDA p, s : Move(s, p, dst \o Tail1(p)), top, Below(top.names, src))

Node(st, e) ==
  LET i == IF e.ino # NoIno THEN e.ino ELSE At(st.names, e.path, NoIno)
  IN  IF i \in DOMAIN st.inodes THEN i ELSE NoIno

(* CustodyState.apply, the body of the fold *)
Apply(st, e, seq) ==
  LET i == Node(st, e)
  IN  CASE e.op \in Minting ->
             Bind([st EXCEPT !.inodes =
                     With(@, FormalName(seq), NewNode(e, seq))],
                  e.path, FormalName(seq))
        [] e.op \in {"FILE-WRITE", "FILE-TRUNCATE"} /\ i # NoIno ->
             [st EXCEPT !.inodes[i].content = e.val]
        [] e.op = "FILE-LINK" /\ e.path \in DOMAIN st.names ->
             Bind(st, e.to, st.names[e.path])
        [] e.op \in {"FILE-UNLINK", "FILE-RMDIR"} -> Unbind(st, e.path)
        [] e.op = "FILE-RENAME" /\ e.path \in DOMAIN st.names ->
             Rename(st, e.path, e.to)
        [] e.op = "FILE-CHOWN" /\ i # NoIno -> [st EXCEPT !.inodes[i].owner = e.val]
        [] e.op \in AttrOps \ {"FILE-CHOWN"} /\ i # NoIno -> [st EXCEPT !.inodes[i].attr = e.val]
        [] OTHER -> st

(* The recover records still in force.  One that a later recover skips is   *)
(* not: the state it restored was itself given up.                          *)
RecoveredPoints(rec) ==
  LET live[i \in 1..Len(rec)] ==
        /\ rec[i].op = "RECOVER"
        /\ \A l \in (i+1)..Len(rec) : live[l] => i <= rec[l].val
  IN  {i \in 1..Len(rec) : live[i]}

(* custody.fold: the whole record, the ranges given up left out *)
Fold(rec) ==
  LET points == RecoveredPoints(rec)
      skipped(i) == \E p \in points : rec[p].val < i /\ i <= p
      s[i \in 0..Len(rec)] ==
        IF i = 0 THEN EmptyState
        ELSE IF skipped(i) THEN s[i-1] ELSE Apply(s[i-1], rec[i], i)
  IN  s[Len(rec)]

children(st, path) == At(st.kids, path, {})
path_of(st, ino)   == At(st.paths, ino, {})
lookup(st, path)   == st.inodes[st.names[path]]
exists(st, path)   == path \in DOMAIN st.names
KindOf(st, path)   == IF exists(st, path) THEN lookup(st, path).kind ELSE "none"

nlink(st, ino) ==
  IF st.inodes[ino].kind = "dir"
  THEN LET own == path_of(st, ino)
       IN  2 + Cardinality({n \in UNION {children(st, p) : p \in own} :
                              \E p \in own : KindOf(st, Append(p, n)) = "dir"})
  ELSE Cardinality(path_of(st, ino))

----------------------------------------------------------------------------
(* Byte-range locks.  A lock is [ino, owner, ltype, start, length]; length  *)
(* 0 reaches to the end of the file.  An act of an owner replaces every     *)
(* lock of that owner it overlaps, whole.                                   *)
Overlaps(as, al, bs, bl) ==
  /\ al = 0 \/ bs < as + al
  /\ bl = 0 \/ as < bs + bl

Mine(lk, e) == /\ lk.ino = e.ino /\ lk.owner = e.val.owner
               /\ Overlaps(lk.start, lk.length, e.val.start, e.val.length)

ApplyLock(held, e) ==
  LET rest == {lk \in held : ~ Mine(lk, e)}
      new  == [ino |-> e.ino, owner |-> e.val.owner, ltype |-> e.val.ltype,
               start |-> e.val.start, length |-> e.val.length]
  IN  CASE e.op = "FILE-LOCK"   -> rest \cup {new}
        [] e.op = "FILE-UNLOCK" -> rest
        [] OTHER                -> held

FoldLocks(rec) == FoldLeft(ApplyLock, {}, rec)

Conflict(held, ino, owner, ltype, start, length) ==
  {lk \in held : /\ lk.ino = ino /\ lk.owner # owner
                 /\ Overlaps(lk.start, lk.length, start, length)
                 /\ lk.ltype = "write" \/ ltype = "write"}

----------------------------------------------------------------------------
(* The gate's reader: name -> kind, the declared root bound from the start. *)
LawEmpty == [p \in {Root} |-> "dir"]

Bound(law, path) == path \in DOMAIN law

Inside(law, path) == {p \in DOMAIN law : p # Root /\ parent_of(p) = path}

(* The checks the founding definitions declare, one definition each, in     *)
(* their order: what is required and of which key.  The others declare none.*)
FileCreate(e)  == << <<"unbound", e.path>>, <<"bound", parent_of(e.path)>>,
                     <<"dir", parent_of(e.path)>> >>
FileMkdir(e)   == << <<"unbound", e.path>>, <<"bound", parent_of(e.path)>>,
                     <<"dir", parent_of(e.path)>> >>
FileSymlink(e) == << <<"unbound", e.path>>, <<"bound", parent_of(e.path)>>,
                     <<"dir", parent_of(e.path)>> >>
FileLink(e)    == << <<"bound", e.path>>, <<"notdir", e.path>>, <<"unbound", e.to>> >>
FileUnlink(e)  == << <<"bound", e.path>>, <<"notdir", e.path>> >>
FileRmdir(e)   == << <<"bound", e.path>>, <<"dir", e.path>>, <<"empty", e.path>> >>
FileRename(e)  == << <<"bound", e.path>>, <<"empty", e.to>> >>

Declared(e) ==
  CASE e.op = "FILE-CREATE"  -> FileCreate(e)
    [] e.op = "FILE-MKDIR"   -> FileMkdir(e)
    [] e.op = "FILE-SYMLINK" -> FileSymlink(e)
    [] e.op = "FILE-LINK"    -> FileLink(e)
    [] e.op = "FILE-UNLINK"  -> FileUnlink(e)
    [] e.op = "FILE-RMDIR"   -> FileRmdir(e)
    [] e.op = "FILE-RENAME"  -> FileRename(e)
    [] OTHER -> << >>

BindingCheck(law, c) == CASE c[1] = "unbound" -> ~ Bound(law, c[2])
                          [] c[1] = "bound"   -> Bound(law, c[2])
                          [] OTHER            -> TRUE

KindCheck(law, c) == CASE c[1] = "dir"    -> At(law, c[2], "none") = "dir"
                       [] c[1] = "notdir" -> At(law, c[2], "none") # "dir"
                       [] OTHER           -> TRUE

ContainsCheck(law, c) == c[1] = "empty" => Inside(law, c[2]) = {}

Meets(law, c) == BindingCheck(law, c) /\ KindCheck(law, c) /\ ContainsCheck(law, c)

(* ERRNO_BY_ACT *)
ErrnoFor(op, requirement) ==
  CASE requirement = "unbound" -> "EEXIST"
    [] requirement = "bound"   -> "ENOENT"
    [] requirement = "dir"     -> "ENOTDIR"
    [] requirement = "notdir"  -> IF op = "FILE-LINK" THEN "EPERM" ELSE "EISDIR"
    [] requirement = "empty"   -> "ENOTEMPTY"

(* The errno of the first declared check that fails, or "OK". *)
Refusal(law, e) ==
  LET checks == Declared(e)
      failed == {i \in 1..Len(checks) : ~ Meets(law, checks[i])}
  IN  IF failed = {} THEN "OK" ELSE ErrnoFor(e.op, checks[Min(failed)][1])

(* The fold looks again at the binding requirements, and at no other: a     *)
(* record whose bindings did not hold has no effect.                        *)
LawHeld(law, e) ==
  /\ Declared(e) # << >>
  /\ \A i \in 1..Len(Declared(e)) : BindingCheck(law, Declared(e)[i])

LawUnbind(law, path) == IF path = Root THEN law ELSE Without(law, path)

(* A rename unbinds one key and binds another; no key below it is touched. *)
LawStep(law, e) ==
  IF ~ LawHeld(law, e) THEN law
  ELSE CASE e.op \in Minting -> With(law, e.path, e.kind)
         [] e.op = "FILE-LINK" -> With(law, e.to, law[e.path])
         [] e.op \in {"FILE-UNLINK", "FILE-RMDIR"} -> LawUnbind(law, e.path)
         [] e.op = "FILE-RENAME" -> With(LawUnbind(law, e.path), e.to, law[e.path])

LiveNamespace(rec) == FoldLeft(LawStep, LawEmpty, rec)

=============================================================================
