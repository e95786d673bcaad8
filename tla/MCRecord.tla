------------------------------ MODULE MCRecord ------------------------------
(* The record and what is kept with it, for TLC.  A behaviour is one part:  *)
(* the record file reopened by one process or raced for by two, whose       *)
(* variables are those of RecordFile; the write path with every failure it  *)
(* can meet; the bytes, checkpoints and copies kept beside the record; the  *)
(* trees, the sealed pieces and the segments they are kept in; and the two  *)
(* ports onto its files: the seam to the kernel module, and the user-space  *)
(* mount, seen for its bytes, its names in one directory or in two levels,  *)
(* its locks or its owners.  The variables of those are b1..b20 in the      *)
(* order their modules declare them.                                        *)
EXTENDS RecordFile, TLC

CONSTANTS s1, s2, p1, p2, na, nb, hid

VARIABLES part, b1, b2, b3, b4, b5, b6, b7, b8, b9, b10,
          b11, b12, b13, b14, b15, b16, b17, b18, b19, b20

bank == <<b1, b2, b3, b4, b5, b6, b7, b8, b9, b10,
          b11, b12, b13, b14, b15, b16, b17, b18, b19, b20>>
all  == <<part, vars, bank>>

Unused == << >>

(* Reopen: two stores of one process, opened, demoted, closed and reopened. *)
TwoStores == {s1, s2}
OneProc   == {p1}
Together  == [s \in Stores |-> p1]

(* Race: one store in each of two processes, killed at any step.            *)
TwoProcs == {p1, p2}
Apart    == [s \in {s1, s2} |-> IF s = s1 THEN p1 ELSE p2]
Race  == INSTANCE RecordFile WITH
  Procs <- TwoProcs, ProcOf <- Apart, Closers <- {}, MaxInodes <- 1, MaxRecords <- 3, MaxDeaths <- 3

(* The write path: a gated submitter with two acts, a direct one with one.  *)
Gate == INSTANCE GroupCommit WITH
  events <- b1, durable <- b2, broken <- b3, region <- b4, writer <- b5,
  appender <- b6, queue <- b7, batch <- b8, mark <- b9, verdict <- b10,
  pc <- b11, act <- b12, saw <- b13, pubs <- b14, cur <- b15,
  pending <- b16, err <- b17, reply <- b18, acked <- b19, crashes <- b20,
  Threads <- {"gated", "direct"}, Direct <- {"direct"}, Width <- 2, Audited <- {TRUE},
  Faults <- {"countersign", "write", "listener", "barrier"},
  MaxActs <- 2, MaxPubs <- 1, MaxCrashes <- 0

(* One path and one content beside the record, a buddy that replicates it.  *)
Kept == INSTANCE Keeping WITH
  rec <- b1, disk <- b2, named <- b3, made <- b4, lasting <- b5, barriered <- b6, act <- b7,
  cut <- b8, taking <- b9, cp <- b10, twin <- b11, buddy <- b12, auto <- b13,
  crashes <- b14, rotten <- b15,
  Paths <- {"p"}, Hashes <- {"h"}, Fan <- [h |-> "00"], MaxRec <- 3, MaxCrashes <- 2, Rot <- TRUE, MaxPeer <- 1

(* A directory with a file in it, and a file.                               *)
Tree == INSTANCE Merkle WITH
  pinned <- b1, live <- b2,
  AllPaths <- {<<"a">>, <<"a", "x">>, <<"b">>}, Metas <- {1, 2}, Scheme <- 2

(* Two readers of two contents.                                             *)
Sealed == INSTANCE Sealing WITH
  pieces <- b1, knows <- b2, made <- b3,
  Accounts <- {"a", "b"}, Contents <- {"c", "d"}, MaxPieces <- 2

(* Three positions of a lost parent, two segments of its children.          *)
Salvage == INSTANCE Rebuild WITH
  parent <- b1, store <- b2, brought <- b3,
  Positions <- {1, 2, 3}, Contents <- {"c", "d"}, MaxHeld <- 2

(* The seam to the kernel module: two names in two levels.                  *)
Seam == INSTANCE KernelPort WITH
  rec <- b1, todo <- b2, state <- b3, locks <- b4, high <- b5, above <- b6,
  undone <- b7,
  Names <- {na, nb}, Uids <- {1}, Mapped <- {1}, Depth <- 2, Empty <- "empty", MaxRec <- 4,
  Ops <- {"FILE-CREATE", "FILE-MKDIR", "FILE-LINK", "FILE-UNLINK",
          "FILE-RMDIR", "FILE-RENAME", "FILE-PERM", "FILE-LOCK"},
  Audited <- {"FILE-RMDIR"}, NodeTypes <- {"file"}, Contents <- {"x"}, Owners <- {"p"},
  MoveTrees <- TRUE, Recovers <- TRUE

(* The mount: one file, or two names and a hidden one, in one directory or  *)
(* in two levels.                                                           *)
Mount(view) == INSTANCE RecordsFs WITH
  rec <- b1, st <- b2, locks <- b3, open <- b4, burst <- b5, hidden <- b6,
  nextFh <- b7, braked <- b8, halted <- b9, failed <- b10,
  Names <- IF view \in {"bytes", "locking"} THEN {na} ELSE {na, nb, hid}, Hidden <- hid,
  Depth <- IF view = "nesting" THEN 2 ELSE 1, Uids <- {1, 2}, Mapped <- {1}, Empty <- << >>,
  MaxRec <- IF view \in {"bytes", "owning"} THEN 3 ELSE 4,
  MaxHandles <- 2, MaxLen <- 2, Owners <- {"p", "q"}, MaxEvents <- 2, Sparse <- FALSE

AnyName == Permutations({na, nb})

(* The acts each view of the mount looks at, and how many opens.            *)
ActsOf == [bytes   |-> {"FILE-CREATE", "FILE-WRITE", "FILE-TRUNCATE"},
           naming  |-> {"FILE-CREATE", "FILE-MKDIR", "FILE-SYMLINK", "FILE-LINK",
                        "FILE-UNLINK", "FILE-RMDIR", "FILE-RENAME", "FILE-PERM",
                        "FILE-WRITE", "RECOVER"},
           nesting |-> {"FILE-CREATE", "FILE-MKDIR", "FILE-UNLINK", "FILE-RENAME", "FILE-WRITE"},
           locking |-> {"FILE-CREATE", "FILE-LOCK", "FILE-UNLOCK"},
           owning  |-> Mount("owning")!Minting \cup {"FILE-CHOWN", "FILE-LINK", "RECOVER"}]

MountPart(rec, burst, nextFh, braked) ==
  /\ \A n \in 1..Len(rec) : rec[n].op \in ActsOf[part]
  /\ braked => part = "bytes"
  /\ part \in {"naming", "nesting"} =>
       nextFh <= 2 /\ \A k \in 1..Len(burst) : Len(burst[k].bytes) <= 1
  /\ part \in {"locking", "owning"} => nextFh <= 2 /\ burst = << >>
  /\ part = "locking" =>                  \* of two like owners "p" locks first
       LET taken == {n \in 1..Len(rec) : rec[n].op = "FILE-LOCK"}
       IN  \A n \in taken : (\A m \in taken : n <= m) => rec[n].val.owner = "p"
  /\ part # "owning" =>
       \A n \in 1..Len(rec) : rec[n].op \in Mount("owning")!Minting => rec[n].val.by = 1

Rest16 == <<b16, b17, b18, b19, b20>>
Rest11 == <<b11, b12, b13, b14, b15, Rest16>>
Rest8  == <<b8, b9, b10, Rest11>>
Rest4  == <<b4, b5, b6, b7, Rest8>>
Rest3  == <<b3, Rest4>>

Blank16 == b16 = Unused /\ b17 = Unused /\ b18 = Unused /\ b19 = Unused /\ b20 = Unused
Blank11 == b11 = Unused /\ b12 = Unused /\ b13 = Unused /\ b14 = Unused
           /\ b15 = Unused /\ Blank16
Blank8  == b8 = Unused /\ b9 = Unused /\ b10 = Unused /\ Blank11
Blank4  == b4 = Unused /\ b5 = Unused /\ b6 = Unused /\ b7 = Unused /\ Blank8
Blank3  == b3 = Unused /\ Blank4

MCInit ==
  \/ part = "reopen" /\ Init /\ b1 = Unused /\ b2 = Unused /\ Blank3
  \/ part = "race" /\ Race!Init /\ b1 = Unused /\ b2 = Unused /\ Blank3
  \/ Init /\ \/ part = "write path" /\ Gate!Init
             \/ part = "keeping" /\ Kept!Init /\ Blank16
             \/ part = "tree" /\ Tree!Init /\ Blank3
             \/ part = "sealing" /\ Sealed!Init /\ Blank4
             \/ part = "salvage" /\ Salvage!Init /\ Blank4
             \/ part = "seam" /\ Seam!Init /\ Blank8
             \/ \E view \in DOMAIN ActsOf : part = view /\ Mount(view)!Init /\ Blank11

MCNext ==
  /\ UNCHANGED part
  /\ \/ part = "reopen" /\ Next /\ UNCHANGED bank
     \/ part = "race" /\ Race!Next /\ UNCHANGED bank
     \/ UNCHANGED vars /\ \/ part = "write path" /\ Gate!Next /\ b12'["direct"] <= 1
                          \/ part = "keeping" /\ Kept!Next /\ UNCHANGED Rest16
                          \/ part = "tree" /\ Tree!Next /\ UNCHANGED Rest3
                          \/ part = "sealing" /\ Sealed!Next /\ UNCHANGED Rest4
                          \/ part = "salvage" /\ Salvage!Next /\ UNCHANGED Rest4
                          \/ part = "seam" /\ Seam!Next /\ UNCHANGED Rest8
                          \/ \E view \in DOMAIN ActsOf :
                               /\ part = view /\ Mount(view)!Next /\ UNCHANGED Rest11
                               /\ MountPart(b1, b5, b7, b8)'

MCSpec == MCInit /\ [][MCNext]_all

(* The record file by itself, for the runs that give it other values.       *)
OneStore == {s1}
NoStores == {}

FileInit == part = "reopen" /\ MCInit
FileSpec == FileInit /\ [][MCNext]_all

-----------------------------------------------------------------------------
(* What the record names is answered by its bytes or by their departure,    *)
(* also when a stop or a failed sync cuts a write short.                    *)
EveryNameIsAnswered == part = "keeping" => Kept!EveryNameIsAnswered

(* The file and what its stores keep of it have their types, whatever was   *)
(* torn or flushed late; an act that was acknowledged, also past direct     *)
(* appends, is durable with both its audit mirrors and not from behind a    *)
(* poisoned store's back; trees that differ are told apart at the right     *)
(* place and a proof follows only from its tree; a salvaged record is the   *)
(* parent's where the children bring it; who was removed from a piece's     *)
(* readers cannot open it.                                                  *)
KeptInTrust ==
  /\ part = "reopen" => TypeOK
  /\ part = "race" => Race!TypeOK
  /\ part = "write path" =>
       Gate!ReplyImpliesDurable /\ Gate!AckedActIsWhole /\ Gate!LateRecordsNeverAcked
  /\ part = "tree" => Tree!LocalizeIsExact /\ Tree!ProofsFollowTheTree
  /\ part = "sealing" => Sealed!RemovedReadersStayOut
  /\ part = "salvage" => Salvage!UnionIsTheParents

(* What the kernel is told is what the record folds to up to the mark it    *)
(* carries; the port's tree is whole and names what the gate's views name,  *)
(* but for a moved directory; a recover restores what the record held.  The *)
(* mount serves what the record folds to; a handle reaches its own file     *)
(* through whatever name libfuse has for it and reads what it wrote; a node *)
(* is its maker's until it is given away; no two processes hold one byte    *)
(* unless both only read it, and an unlock gives up the bytes it names.     *)
PortsServeTheRecord ==
  /\ part = "seam" => /\ Seam!FillsNameTheirPrefix /\ Seam!TreeIsWhole
                      /\ Seam!RecoverRestoresHeldState /\ Seam!AgreeButForMoves
  /\ part \in DOMAIN ActsOf => Mount(part)!ShadowNeverDiffers
  /\ part \in {"naming", "nesting"} => Mount(part)!HandleReachesItsFile
  /\ part \in {"bytes", "naming", "nesting"} => Mount(part)!HandleReadsItsWrites
  /\ part = "owning" => Mount(part)!NodesAreTheirMakers
  /\ part = "locking" => Mount(part)!NoConflictingLocks /\ Mount(part)!UnlockGivesUpItsRange

(* Closing a burst leaves every byte another handle had recorded; bytes     *)
(* accepted from a handle leave its burst only into a record, or, one burst *)
(* at most, with a call that failed and was not refused.                    *)
AcceptedBytesStay ==
  [][part = "bytes" => Mount("bytes")!CommitKeepsOthersStep /\ Mount("bytes")!AcceptedBytesAreKeptStep]_all
=============================================================================
