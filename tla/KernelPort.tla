----------------------------- MODULE KernelPort -----------------------------
(* The files seam below the line (bridge/kernel_port.py): the kernel module *)
(* sends decisions, which go to the gate, and fills, which are answered     *)
(* from the custody fold.  An append publishes its record to the listeners  *)
(* one by one; the audit listeners come first and append mirrors of their   *)
(* own, so the port may be handed record 5 and 6 before record 4.  A fill   *)
(* takes the port's fold lock only and may run between two deliveries.      *)
EXTENDS Custody

CONSTANTS MaxRec,      \* bound: length of the record
          Ops,         \* the FILE-* operations the kernel module sends
          Audited,     \* the operations the dual-audit-actions pack lists
          NodeTypes,   \* what a FILE-CREATE may found: "file", "fifo"
          Contents,    \* what a file may hold
          Owners,      \* lock owners (processes)
          MoveTrees,   \* may a directory that holds something be renamed?
          Recovers     \* may the root drive a recover while the port serves?

VARIABLES rec,      \* the record
          todo,     \* what the publish in hand still has to do
          state,    \* the port's custody fold
          locks,    \* the port's lock fold
          high,     \* every record up to here is folded
          above,    \* folded records beyond the first gap
          undone    \* history: was a recover handed to the port since it was built?

vars == <<rec, todo, state, locks, high, above, undone>>

NoPath == Root
NoVal  == "none"
Mirrored == 0     \* in todo: an audit listener still to run

Init ==
  /\ rec = << >> /\ todo = << >>
  /\ state = Fold(rec) /\ locks = FoldLocks(rec)
  /\ high = Len(rec) /\ above = {} /\ undone = FALSE

Inodes == {FormalName(i) : i \in 1..Len(rec)}

(* The names the kernel's file layer can ask about: it resolved their       *)
(* parents through fills, and they are directories.                         *)
Askable == {Append(d, n) : d \in {p \in DOMAIN state.names :
                                    Len(p) < Depth /\ KindOf(state, p) = "dir"},
                           n \in Names}

LockVals == [owner : Owners, ltype : {"write"}, start : {0}, length : {0}]

(* _prov: the account the uid is mapped to, or the uid's own name; the      *)
(* provenance asserts the uid, in every record that carries provenance.     *)
Prov(uid) == MadeBy(uid, uid \in Mapped, uid)

(* _params_for: the requests the wire may carry, per operation. *)
NameRequests ==
  {Rec(r[1], p, NoPath, r[2], NoIno, Prov(u)) : p \in Askable, u \in Uids,
     r \in {<<"FILE-CREATE", k>> : k \in NodeTypes} \cup
          {<<"FILE-MKDIR", "dir">>, <<"FILE-SYMLINK", "link">>}}
  \cup {Rec(op, p, NoPath, "none", NoIno, NoVal) : op \in {"FILE-UNLINK", "FILE-RMDIR"}, p \in Askable}
  \cup {Rec(op, p, q, "none", NoIno, NoVal) :
          op \in {"FILE-LINK", "FILE-RENAME"}, p \in Askable, q \in Askable}

NodeRequests ==
  (UNION {{FileWrite(i, c), FileTruncate(i, c)} : i \in Inodes, c \in Contents})
  \cup (UNION {{FilePerm(i, NoVal), FileHandle("FILE-OPEN", i), FileHandle("FILE-CLOSE", i),
                FileReadAggregate(i)} : i \in Inodes})
  \cup {FileAttr(op, i, NoVal) : op \in AttrOps \ {"FILE-PERM", "FILE-CHOWN"}, i \in Inodes}
  \cup {FileChown(i, u) : i \in Inodes, u \in Uids}

LockRequests == {FileRange(op, i, v) :
                   op \in {"FILE-LOCK", "FILE-UNLOCK"}, i \in Inodes, v \in LockVals}

(* What the kernel's own file layer has settled before it asks of a move:   *)
(* nothing goes into itself, and a directory and a file never replace one   *)
(* another.                                                                 *)
VfsSends(e) ==
  LET isDir(p) == KindOf(state, p) = "dir"
      MovesTree == e.op = "FILE-RENAME" /\ Below(state.names, e.path) # {}
  IN  /\ e.op \in Ops
      /\ e.op = "FILE-RENAME" =>
           /\ ~ IsStrictPrefix(e.path, e.to)
           /\ exists(state, e.to) => isDir(e.to) = isDir(e.path)
           /\ \A p \in Below(state.names, e.path) :
                Len(p) - Len(e.path) + Len(e.to) <= Depth
      /\ MovesTree => MoveTrees

(* _node_by_wire: an inode the fold does not hold is answered ESTALE. *)
Known(e) == e.ino = NoIno \/ e.ino \in DOMAIN state.inodes

(* An audited act has its two mirrors appended from within its own publish; *)
(* they reach the port first.                                               *)
Publish(e) ==
  LET steps == IF e.op \in Audited THEN <<Mirrored, Mirrored, Len(rec) + 1>>
               ELSE <<Len(rec) + 1>>
  IN  /\ todo = << >> /\ Len(rec) + Len(steps) <= MaxRec
      /\ rec' = Append(rec, e)
      /\ todo' = steps
  /\ UNCHANGED <<state, locks, high, above, undone>>

(* KernelPort._decide: the gate decides by the law's namespace.  A refusal, *)
(* a stale inode or an undecided request leaves nothing behind.             *)
Ask(requests) ==
  LET law == LiveNamespace(rec)
  IN  \E e \in requests : /\ VfsSends(e) /\ Known(e)
                          /\ Refusal(law, e) = "OK"
                          /\ Publish(e)

DecideName == Ask(NameRequests)
DecideNode == Ask(NodeRequests)
DecideLock == Ask(LockRequests)

Recover ==
  /\ Recovers
  /\ \E target \in 1..Len(rec) :
       Publish(Rec("RECOVER", NoPath, NoPath, "none", NoIno, target))

Mirror ==
  /\ todo # << >> /\ Head(todo) = Mirrored
  /\ rec' = Append(rec, Rec("MIRROR", NoPath, NoPath, "none", NoIno, NoVal))
  /\ todo' = <<Len(rec) + 1>> \o Tail(todo)
  /\ UNCHANGED <<state, locks, high, above, undone>>

(* _mark_folded: the mark moves over the records folded without a gap. *)
MarkFolded(seq) ==
  LET all == above \cup {seq}
      h == Max({high} \cup {n \in all : (high + 1)..n \subseteq all})
  IN  high' = h /\ above' = {n \in all : n > h}

(* KernelPort._on_append, one step to every fill *)
OnAppend(seq) ==
  /\ state' = Apply(state, rec[seq], seq)
  /\ locks' = ApplyLock(locks, rec[seq])
  /\ MarkFolded(seq)

Deliver ==
  /\ todo # << >> /\ Head(todo) # Mirrored
  /\ OnAppend(Head(todo))
  /\ todo' = Tail(todo)
  /\ undone' = (undone \/ rec[Head(todo)].op = "RECOVER")
  /\ UNCHANGED rec

(* The port's process goes and comes back over the same record. *)
Restart ==
  /\ state' = Fold(rec) /\ locks' = FoldLocks(rec)
  /\ high' = Len(rec) /\ above' = {} /\ undone' = FALSE
  /\ todo' = << >>
  /\ UNCHANGED rec

Next == DecideName \/ DecideNode \/ DecideLock \/ Recover \/ Mirror \/ Deliver \/ Restart

Spec == Init /\ [][Next]_vars

----------------------------------------------------------------------------
(* What a fill answers: (the mark, what was asked for). *)
FillLookup(st, mark, parent, name) ==
  <<mark, IF parent \notin DOMAIN st.inodes THEN "ESTALE"
          ELSE IF path_of(st, parent) = {} THEN "ENOENT"
          ELSE LET path == Append(CHOOSE p \in path_of(st, parent) : TRUE, name)
               IN  IF ~ exists(st, path) THEN "ENOENT"
                   ELSE [node |-> lookup(st, path), links |-> nlink(st, st.names[path])]>>

FillReaddir(st, mark, ino) ==
  <<mark, IF ino \notin DOMAIN st.inodes THEN "ESTALE"
          ELSE IF path_of(st, ino) = {} THEN "ENOENT"
          ELSE LET path == CHOOSE p \in path_of(st, ino) : TRUE
               IN  {<<n, KindOf(st, Append(path, n))>> : n \in children(st, path)}>>

Directories == {i \in DOMAIN state.inodes : state.inodes[i].kind = "dir"}

Recovered == \E i \in 1..Len(rec) : rec[i].op = "RECOVER"

(* Every fill, taken between any two deliveries, answers what the record up *)
(* to the mark it carries folds to, whatever order the listeners were run   *)
(* in (kernel_port._mark_folded).  A recover that lands while the port      *)
(* serves is set apart: the port folds it over its own running state.      *)
FillsNameTheirPrefix ==
  ~ undone =>
    LET then == Fold(SubSeq(rec, 1, high))
    IN  \A d \in Directories :
          /\ FillReaddir(state, high, d) = FillReaddir(then, high, d)
          /\ \A n \in Names :
               FillLookup(state, high, d, n) = FillLookup(then, high, d, n)

Moved(n) == /\ rec[n].op = "FILE-RENAME"
            /\ Below(Fold(SubSeq(rec, 1, n-1)).names, rec[n].path) # {}

(* The indexes the port keeps beside the names say what the names say, and  *)
(* the tree is whole: what holds a name is a served directory.  Moving a    *)
(* directory with its contents keeps it whole; what the gate admits after   *)
(* such a move is set apart in AgreeButForMoves (CustodyState._bind).       *)
TreeIsWhole ==
  LET names == DOMAIN state.names \ {Root}
      settled == ~ Recovered /\ \A n \in 1..(Len(rec) - 1) : ~ Moved(n)
  IN  /\ state.paths = [i \in {state.names[p] : p \in DOMAIN state.names} |->
                          {p \in DOMAIN state.names : state.names[p] = i}]
      /\ state.kids = [d \in {parent_of(p) : p \in names} |->
                         {basename(p) : p \in {q \in names : parent_of(q) = d}}]
      /\ settled => \A p \in names : KindOf(state, parent_of(p)) = "dir"

(* A recover restores exactly the state the record held at its target, also *)
(* when recovers are nested or one reaches into what another gave up        *)
(* (erasure.recovered_points, custody.fold).                                *)
RecoverRestoresHeldState ==
  \A n \in 1..Len(rec) : rec[n].op = "RECOVER" =>
    Fold(SubSeq(rec, 1, n)) = Fold(SubSeq(rec, 1, rec[n].val))

(* The gate decides by one reader of the record and the port serves from    *)
(* another.  As long as no directory was moved with its contents and no     *)
(* recover was recorded, they hold the same names of the same kinds.        *)
GateAndPortAgree ==
  todo = << >> =>
    LiveNamespace(rec) = [p \in DOMAIN state.names |-> KindOf(state, p)]

AgreeButForMoves ==
  (~ Recovered /\ \A n \in 1..Len(rec) : ~ Moved(n)) => GateAndPortAgree
=============================================================================
