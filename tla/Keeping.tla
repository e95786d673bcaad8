------------------------------ MODULE Keeping ------------------------------
(* What the store keeps and gives away: the bytes records name              *)
(* (kernel/blobs.py), the hand-over of bytes to somebody else and the       *)
(* recover ceremony (kernel/erasure.py, Gate._decide), checkpoints, the     *)
(* buddy's, and the recover that fires by itself (bridge/checkpoint.py,     *)
(* bridge/replay_snapshot.py, bridge/auto_recover.py).                      *)
(*                                                                          *)
(* Acts are decided one at a time (the decide region).  At any step the     *)
(* process may stop, or the power go: what was renamed into place or        *)
(* removed but never followed by a sync of its directory may then be undone,*)
(* and a fan-out directory made since the last power cut, whose own name no *)
(* one syncs, may go with all that is in it.  A hash stands for the bytes,  *)
(* and the head of a prefix for the hash of its last record.                *)
EXTENDS Naturals, Sequences, SequencesExt, FiniteSets, FiniteSetsExt, TLAPS

CONSTANTS Paths, Hashes,
          Fan,         \* the fan-out directory of each hash
          MaxRec,      \* bound: length of the record
          MaxCrashes,  \* bound: stops of the process and power cuts
          Rot,         \* may storage alter one record, or one blob, at rest?
          MaxPeer,     \* bound: length of a record a buddy replicates; 0 = no buddy
          None

VARIABLES rec,         \* the record
          disk,        \* the bytes of each hash: "none", "whole" or "spoilt"
          named,       \* hashes whose presence or absence is synced in their directory
          made, lasting, \* the fan-out directories, and those whose name lasts
          barriered,   \* the hashes this process knows to be synced
          act,         \* the act being decided, or None
          cut,         \* history: hashes whose bytes a removal cut short, spoilt storage
                       \* or a lost directory took, or an old mark vouches for, until
                       \* they are put again
          taking,      \* the head a checkpoint in the making has read, or None
          cp, twin, buddy, \* checkpoint, replica of the record, its checkpoint
          auto,        \* the target the triple check has passed, or None
          crashes, rotten  \* bounds

homes == <<made, lasting>>
kept == <<rec, disk, named, homes, barriered, act, cut, crashes, rotten>>
waking == <<taking, cp, twin, buddy, auto>>
vars == <<kept, waking>>

Whole == "whole"
Entry(k, p, h, at) == [k |-> k, p |-> p, h |-> h, at |-> at]

Init ==
  /\ rec = << >> /\ disk = [h \in Hashes |-> "none"]
  /\ named = Hashes /\ made = {} /\ lasting = {}
  /\ barriered = {} /\ act = None /\ cut = {}
  /\ taking = None /\ cp = None /\ twin = << >> /\ buddy = None /\ auto = None
  /\ crashes = 0 /\ rotten = FALSE

----------------------------------------------------------------------------
(* The chain *)

(* A record's hash tells it from its altered form; what it was chained to   *)
(* is in it.                                                                *)
HeadOf(rc, n) == <<n, rc[n].alt>>
LiveHead(rc)  == HeadOf(rc, Len(rc))

Minted(rc, e) ==
  [k |-> e.k, p |-> e.p, h |-> e.h, at |-> e.at, alt |-> FALSE,
   onto |-> IF rc = << >> THEN <<0, FALSE>> ELSE LiveHead(rc)]

Breaks(rc) == {n \in 2..Len(rc) : rc[n].onto # HeadOf(rc, n - 1)}
VerifiedThrough(rc) == IF Breaks(rc) = {} THEN Len(rc) ELSE Min(Breaks(rc)) - 1

(* The point a head names, sought from the newest record back.              *)
SeqOfHead(rc, head) ==
  LET hits == {n \in 1..Len(rc) : HeadOf(rc, n) = head}
  IN  IF hits = {} THEN None ELSE Max(hits)

Record(e) == rec' = Append(rec, Minted(rec, e))

----------------------------------------------------------------------------
(* What a record says *)

Departed(rc) == {rc[n].h : n \in {m \in 1..Len(rc) : rc[m].k = "departure"}}

(* A recover gives up what lies between its target and itself, unless it    *)
(* lies in what a later live one gave up (erasure.recovered_points).        *)
GivenUp(rc) ==
  LET Live[n \in 1..(Len(rc) + 1)] ==
        IF n > Len(rc) THEN {}
        ELSE IF /\ rc[n].k = "recover"
                /\ \A s \in Live[n+1] : ~ (rc[s].at < n /\ n <= s)
             THEN Live[n+1] \cup {n} ELSE Live[n+1]
  IN  UNION {(rc[s].at + 1)..s : s \in Live[1]}

ContentOf(rc, p) ==
  LET writes == {n \in (1..Len(rc)) \ GivenUp(rc) : rc[n].k = "write" /\ rc[n].p = p}
  IN  IF writes = {} THEN None ELSE rc[Max(writes)].h

(* How a hash is answered: by the departure before the bytes (snapshot, the *)
(* kernel port's content fill, Files.content_at).                           *)
Answer(rc, h) ==
  IF h = None THEN "empty"
  ELSE IF h \in Departed(rc) THEN "departed"
  ELSE IF disk[h] = "none" THEN "missing" ELSE disk[h]

Snapshot(rc) == [p \in Paths |-> <<ContentOf(rc, p), Answer(rc, ContentOf(rc, p))>>]
Complete(tree) == \A p \in Paths : tree[p][2] # "missing"

----------------------------------------------------------------------------
(* An act that carries bytes: stored, synced, then recorded.                *)
Deciding(step) == act # None /\ act.step = step
To(step) == act' = [act EXCEPT !.step = step]

BeginWrite ==
  /\ act = None /\ Len(rec) < MaxRec
  /\ \E p \in Paths, h \in Hashes :
       act' = [step |-> "put", e |-> Entry("write", p, h, 0)]
  /\ UNCHANGED <<rec, disk, named, homes, barriered, cut, crashes, rotten, waking>>

(* The file's directory is synced, not the one above it: its name in its    *)
(* directory is durable, and only that.                                     *)
Barrier(h) == named' = named \cup {h} /\ barriered' = barriered \cup {h}

Stored == To("append") /\ cut' = cut \ {act.e.h}

(* The mark outlives the removal of the bytes (_remove_bytes leaves it), so *)
(* it also vouches for a later put whose own sync failed.                   *)
OldMark(h) == h \in barriered \ named

(* Mutant: what is already there is taken to be there for good. *)
PutSeenTrusting ==
  /\ Deciding("put") /\ disk[act.e.h] = Whole
  /\ Stored
  /\ UNCHANGED <<rec, disk, named, homes, barriered, crashes, rotten, waking>>

(* put of bytes already there: read and compared, and synced if this        *)
(* process has not done so yet.                                             *)
PutSeen ==
  /\ Deciding("put") /\ disk[act.e.h] = Whole
  /\ IF act.e.h \in barriered THEN UNCHANGED <<named, barriered>> ELSE Barrier(act.e.h)
  /\ IF OldMark(act.e.h) THEN To("append") /\ cut' = cut \cup {act.e.h} ELSE Stored
  /\ UNCHANGED <<rec, disk, homes, crashes, rotten, waking>>

(* The directory is made if need be, the bytes written aside, synced and    *)
(* renamed into place.                                                      *)
PutNew ==
  /\ Deciding("put") /\ disk[act.e.h] = "none"
  /\ made' = made \cup {Fan[act.e.h]}
  /\ disk' = [disk EXCEPT ![act.e.h] = Whole]
  /\ named' = named \ {act.e.h}
  /\ To("barrier")
  /\ UNCHANGED <<rec, lasting, barriered, cut, crashes, rotten, waking>>

PutBarrier ==
  /\ Deciding("barrier")
  /\ Barrier(act.e.h) /\ Stored
  /\ UNCHANGED <<rec, disk, homes, crashes, rotten, waking>>

(* put raises and nothing is recorded: the bytes in place are spoilt, their *)
(* writing fails after the directory was made, or the sync of the directory *)
(* fails, also when the file has its name already.                          *)
PutRaises ==
  /\ Deciding("put") \/ Deciding("barrier")
  /\ act' = None
  /\ made' = IF disk[act.e.h] = "none" THEN made \cup {Fan[act.e.h]} ELSE made
  /\ UNCHANGED <<rec, disk, named, lasting, barriered, cut, crashes, rotten, waking>>

(* The act is published, or a later check refuses it and the bytes stay.    *)
Publish ==
  /\ Deciding("append")
  /\ act' = None
  /\ Record(act.e) \/ UNCHANGED rec
  /\ UNCHANGED <<disk, named, homes, barriered, cut, crashes, rotten, waking>>

----------------------------------------------------------------------------
(* The hand-over.  The bytes are read back and compared, the receipt must   *)
(* name the hash and carry the receiver's signature; all of it precedes the *)
(* removal, which precedes the departure record.                            *)
ReadsBack(h) == disk[h] = Whole

ReceiptVerifies(receipt, h) == receipt.of = h /\ receipt.signed

BeginHandover ==
  /\ act = None /\ Len(rec) < MaxRec
  /\ \E h \in Hashes, receipt \in [of : Hashes, signed : BOOLEAN] :
       /\ ReadsBack(h) /\ ReceiptVerifies(receipt, h)
       /\ act' = [step |-> "remove", e |-> Entry("departure", None, h, 0)]
  /\ UNCHANGED <<rec, disk, named, homes, barriered, cut, crashes, rotten, waking>>

RemoveBytes ==
  /\ Deciding("remove")
  /\ disk' = [disk EXCEPT ![act.e.h] = "none"]
  /\ named' = named \ {act.e.h}
  /\ To("sync")
  /\ UNCHANGED <<rec, homes, barriered, cut, crashes, rotten, waking>>

RemovalSynced ==
  /\ Deciding("sync")
  /\ named' = named \cup {act.e.h} /\ To("depart")
  /\ UNCHANGED <<rec, disk, homes, barriered, cut, crashes, rotten, waking>>

Depart ==
  /\ Deciding("depart")
  /\ Record(act.e) /\ act' = None
  /\ UNCHANGED <<disk, named, homes, barriered, cut, crashes, rotten, waking>>

(* The effect raises, before or after the bytes went: a refusal is recorded *)
(* and the act ends (_record_effect_failure).                               *)
EffectFails ==
  /\ Deciding("remove") \/ Deciding("sync")
  /\ Record(Entry("effect-failed", None, act.e.h, 0))
  /\ cut' = IF act.step = "sync" THEN cut \cup {act.e.h} ELSE cut
  /\ act' = None
  /\ UNCHANGED <<disk, named, homes, barriered, crashes, rotten, waking>>

----------------------------------------------------------------------------
(* The recover ceremony, by the root or by SYSTEM.                          *)
Recoverable(rc, head, segments) ==
  /\ SeqOfHead(rc, head) # None
  /\ SeqOfHead(rc, head) <= VerifiedThrough(rc)
  /\ \A h \in segments : ReadsBack(h)

Splice(head) == Record(Entry("recover", None, None, SeqOfHead(rec, head)))

Recover ==
  /\ act = None /\ Len(rec) < MaxRec
  /\ \E n \in 1..Len(rec) : \E head \in {<<n, TRUE>>, <<n, FALSE>>} :
       \E segments \in {{}} \cup {{h} : h \in Hashes} :
         Recoverable(rec, head, segments) /\ Splice(head)
  /\ UNCHANGED <<disk, named, homes, barriered, act, cut, crashes, rotten, waking>>

----------------------------------------------------------------------------
(* Checkpoints.  The head comes from the events in memory, the tree from    *)
(* the file and the blobs: two reads.                                       *)
ReadHead ==
  /\ taking = None /\ Len(rec) \in 1..MaxPeer
  /\ taking' = LiveHead(rec)
  /\ UNCHANGED <<kept, cp, twin, buddy, auto>>

Attest(head, tree, peer) == [head |-> head, tree |-> tree, peer |-> peer]

(* With each other's root, from what each computes of the other.            *)
CrossAttest ==
  /\ taking # None /\ twin # << >>
  /\ Complete(Snapshot(rec)) /\ Complete(Snapshot(twin))
  /\ cp' = Attest(taking, Snapshot(rec), Snapshot(twin))
  /\ buddy' = Attest(LiveHead(twin), Snapshot(twin), Snapshot(rec))
  /\ taking' = None
  /\ UNCHANGED <<kept, twin, auto>>

Replicate ==
  /\ twin # rec /\ Len(rec) <= MaxPeer
  /\ twin' = rec
  /\ UNCHANGED <<kept, taking, cp, buddy, auto>>

Verifies(c, rc) ==
  rc # << >> /\ Snapshot(rc) = c.tree /\ LiveHead(rc) = c.head

(* Each folds both, and each other's root is what the other computes.       *)
PairingVerdict ==
  /\ cp.tree = Snapshot(rec) /\ buddy.tree = Snapshot(twin)
  /\ cp.peer = Snapshot(twin) /\ buddy.peer = Snapshot(rec)

TripleCheck(head) ==
  /\ Recoverable(rec, head, {})
  /\ cp.head = LiveHead(rec) /\ Verifies(cp, rec)
  /\ PairingVerdict

AutoCheck ==
  /\ auto = None /\ cp # None /\ Complete(Snapshot(rec)) /\ Complete(Snapshot(twin))
  /\ \E n \in 1..Len(rec) :
       TripleCheck(HeadOf(rec, n)) /\ auto' = HeadOf(rec, n)
  /\ UNCHANGED <<kept, taking, cp, twin, buddy>>

(* The gate adjudicates the target again; the checkpoint is not asked again.*)
AutoSplice ==
  /\ auto # None /\ act = None /\ Len(rec) < MaxRec
  /\ IF Recoverable(rec, auto, {}) THEN Splice(auto) ELSE UNCHANGED rec
  /\ auto' = None
  /\ UNCHANGED <<disk, named, homes, barriered, act, cut, crashes, rotten,
                 taking, cp, twin, buddy>>

----------------------------------------------------------------------------
(* The process stops, or is killed: the host keeps what it was given.  The  *)
(* power goes: what was not synced may be undone, and a directory whose     *)
(* name does not last yet may go; what is still there will last.            *)
Halt ==
  /\ crashes < MaxCrashes
  /\ crashes' = crashes + 1
  /\ barriered' = {} /\ act' = None /\ taking' = None /\ auto' = None
  /\ UNCHANGED <<rec, rotten, cp, twin, buddy>>

CutShort == IF Deciding("sync") \/ Deciding("depart") THEN {act.e.h} ELSE {}

Stop == Halt /\ cut' = cut \cup CutShort /\ UNCHANGED <<disk, named, homes>>

Undone(h) == IF disk[h] = "none" THEN Whole ELSE "none"

PowerCut ==
  /\ Halt
  /\ \E U \in SUBSET (Hashes \ named), L \in SUBSET (made \ lasting) :
       LET gone == {h \in Hashes : Fan[h] \in L}
       IN  /\ disk' = [h \in Hashes |-> IF h \in gone THEN "none"
                                       ELSE IF h \in U THEN Undone(h) ELSE disk[h]]
           /\ made' = made \ L /\ lasting' = made \ L
           /\ cut' = cut \cup CutShort \cup {h \in gone : disk[h] # "none"}
  /\ named' = Hashes

(* Storage alters a record, or a blob, while nobody runs.                   *)
Decay ==
  /\ Rot /\ ~ rotten /\ act = None
  /\ rotten' = TRUE
  /\ \/ \E n \in 1..Len(rec) :
          /\ rec' = [rec EXCEPT ![n].alt = TRUE]
          /\ UNCHANGED <<disk, cut>>
     \/ \E h \in Hashes :
          /\ disk[h] = Whole
          /\ disk' = [disk EXCEPT ![h] = "spoilt"] /\ cut' = cut \cup {h}
          /\ UNCHANGED rec
  /\ UNCHANGED <<named, homes, barriered, act, crashes, waking>>

Next ==
  \/ BeginWrite \/ PutSeen \/ PutRaises \/ PutNew \/ PutBarrier \/ Publish
  \/ BeginHandover \/ RemoveBytes \/ RemovalSynced \/ Depart \/ EffectFails
  \/ Recover \/ ReadHead \/ CrossAttest \/ Replicate \/ AutoCheck \/ AutoSplice
  \/ Stop \/ PowerCut \/ Decay

Spec == Init /\ [][Next]_vars

----------------------------------------------------------------------------
(* Whatever the record names is answered, by its bytes or by the departure  *)
(* of its bytes, through any number of stops and power cuts, until a removal*)
(* of the bytes is cut short, storage spoils them, the power takes a fan-out*)
(* directory nobody's sync had named, or a mark older than a removal stands *)
(* for the sync a put owed; and again once they are put anew.               *)
EveryNameIsAnswered ==
  \A n \in 1..Len(rec) :
    (rec[n].k = "write" /\ rec[n].h \notin cut)
      => \/ Answer(rec, rec[n].h) \in {Whole, "departed"}
         \/ act # None /\ act.e.k = "departure" /\ act.e.h = rec[n].h

----------------------------------------------------------------------------
(* Why every name is answered.                                              *)
(*                                                                          *)
(* Bytes that are whole and synced survive any stop, and any power cut that *)
(* leaves their directory.  Every recorded write has such bytes, or its     *)
(* bytes have departed, or a removal under way is past the point of taking  *)
(* them, or the hash is excepted; and an act about to record a write has    *)
(* them too, or has just been excepted.                                     *)

(* A place in the record is a number, or the greatest of some.              *)
Places == Nat \cup {Max(S) : S \in SUBSET Nat} \cup {None}
NamesAHash(e) == e.k \in {"write", "departure"} => e.h \in Hashes
Entries ==
  {e \in [k : {"write", "departure", "effect-failed", "recover"}, p : Paths \cup {None},
          h : Hashes \cup {None}, at : Places] : NamesAHash(e)}
Records ==
  {r \in [k : {"write", "departure", "effect-failed", "recover"}, p : Paths \cup {None},
          h : Hashes \cup {None}, at : Places, alt : BOOLEAN, onto : Nat \X BOOLEAN] :
     NamesAHash(r)}

Acts ==
  [step : {"put", "barrier", "append"}, e : [k : {"write"}, p : Paths, h : Hashes, at : {0}]]
  \cup [step : {"remove", "sync", "depart"}, e : [k : {"departure"}, p : {None}, h : Hashes, at : {0}]]

(* Nothing is told from a hash and from an act.                             *)
NoneIsNothing == None \notin Hashes \cup Acts

Typed ==
  /\ rec \in Seq(Records) /\ disk \in [Hashes -> {"none", Whole, "spoilt"}]
  /\ named \subseteq Hashes /\ act \in Acts \cup {None}

Safe(h) == disk[h] = Whole /\ h \in named

ActHasItsBytes ==
  act # None => /\ act.step = "append" => Safe(act.e.h) \/ act.e.h \in cut
                /\ act.step = "barrier" => disk[act.e.h] = Whole

WritesAreSafe ==
  \A n \in 1..Len(rec) :
    (rec[n].k = "write" /\ rec[n].h \notin cut)
      => \/ rec[n].h \in Departed(rec) \/ Safe(rec[n].h)
         \/ act # None /\ act.step \in {"sync", "depart"} /\ act.e.h = rec[n].h

IInv == Typed /\ ActHasItsBytes /\ WritesAreSafe

(* A minted record is a record; what was recorded stays, and so does what   *)
(* departed.                                                                *)
LEMMA Appended ==
  ASSUME NEW rc \in Seq(Records),
         NEW e \in Entries,
         NEW new, new = Append(rc, Minted(rc, e))
  PROVE  /\ new \in Seq(Records) /\ Len(rc) \in Nat /\ Len(new) = Len(rc) + 1
         /\ \A n \in 1..Len(rc) : new[n] = rc[n]
         /\ new[Len(rc) + 1].k = e.k /\ new[Len(rc) + 1].h = e.h
         /\ Departed(rc) \subseteq Departed(new)
         /\ e.k = "departure" => e.h \in Departed(new)
<1> DEFINE onto == IF rc = << >> THEN <<0, FALSE>> ELSE LiveHead(rc)
<1> DEFINE m == Minted(rc, e)
<1>1. onto \in Nat \X BOOLEAN
  <2>1. CASE rc = << >> BY <2>1
  <2>2. CASE rc # << >>
    <3>1. Len(rc) \in 1..Len(rc) /\ Len(rc) \in Nat BY <2>2
    <3>2. rc[Len(rc)] \in Records BY <3>1
    <3>3. rc[Len(rc)].alt \in BOOLEAN BY <3>2 DEF Records
    <3> QED BY <2>2, <3>1, <3>3 DEF LiveHead, HeadOf
  <2> QED BY <2>1, <2>2
<1>2. m = [k |-> e.k, p |-> e.p, h |-> e.h, at |-> e.at, alt |-> FALSE, onto |-> onto] BY DEF Minted
<1> HIDE DEF onto, m
<1>3. m \in Records /\ m.k = e.k /\ m.h = e.h BY <1>1, <1>2 DEF Records, Entries, NamesAHash
<1>4. new = Append(rc, m) BY DEF m
<1>5. /\ new \in Seq(Records) /\ Len(rc) \in Nat /\ Len(new) = Len(rc) + 1 /\ new[Len(rc) + 1] = m
      /\ \A n \in 1..Len(rc) : new[n] = rc[n]
  BY <1>3, <1>4
<1>6. Len(rc) + 1 \in 1..Len(new) /\ 1..Len(rc) \subseteq 1..Len(new) BY <1>5
<1>7. Departed(rc) \subseteq Departed(new) BY <1>5, <1>6 DEF Departed
<1>8. e.k = "departure" => e.h \in Departed(new) BY <1>3, <1>5, <1>6 DEF Departed
<1> QED BY <1>3, <1>5, <1>7, <1>8

LEMMA InitIInv == Init => IInv
<1> SUFFICES ASSUME Init PROVE IInv OBVIOUS
<1>1. Typed BY DEF Init, Typed
<1>2. Len(rec) = 0 BY DEF Init
<1> QED BY <1>1, <1>2 DEF Init, IInv, ActHasItsBytes, WritesAreSafe

(* What an act under way is, and may become.                                *)
LEMMA ActIs ==
  ASSUME act \in Acts
  PROVE  /\ act.e \in [k : {"write", "departure"}, p : Paths \cup {None}, h : Hashes, at : {0}]
         /\ act.step \in {"put", "barrier", "append"} => act.e.k = "write"
         /\ act.step \in {"remove", "sync", "depart"} => act.e.k = "departure"
BY DEF Acts

LEMMA ActBecomes ==
  ASSUME act \in Acts,
         NEW step \in {"put", "barrier", "append", "remove", "sync", "depart"}, To(step),
         step \in {"put", "barrier", "append"} <=> act.e.k = "write"
  PROVE  act' \in Acts /\ act'.step = step /\ act'.e = act.e
BY DEF Acts, To

LEMMA NextIInv == ASSUME NoneIsNothing PROVE IInv /\ [Next]_vars => IInv'
<1> SUFFICES ASSUME NoneIsNothing, IInv, [Next]_vars PROVE IInv' OBVIOUS
<1> USE DEF IInv
<1>1. /\ rec \in Seq(Records) /\ Len(rec) \in Nat
      /\ disk \in [Hashes -> {"none", Whole, "spoilt"}]
      /\ named \subseteq Hashes /\ act \in Acts \cup {None} /\ Whole = "whole"
      /\ None \notin Hashes /\ None \notin Acts
  BY DEF Typed, Whole, NoneIsNothing
<1>2. ASSUME UNCHANGED kept PROVE IInv'
  BY <1>2 DEF kept, Typed, ActHasItsBytes, WritesAreSafe, Safe
<1>3. CASE BeginWrite
  <2>1. PICK p \in Paths, h \in Hashes : act' = [step |-> "put", e |-> Entry("write", p, h, 0)]
    BY <1>3 DEF BeginWrite
  <2>2. act' \in Acts /\ act'.step = "put" BY <2>1 DEF Acts, Entry
  <2>3. act = None /\ UNCHANGED <<rec, disk, named, cut>> BY <1>3 DEF BeginWrite
  <2> QED BY <1>1, <2>2, <2>3 DEF Typed, ActHasItsBytes, WritesAreSafe, Safe
<1>4. CASE PutSeen
  <2>1. act # None /\ act \in Acts /\ act.step = "put" /\ disk[act.e.h] = Whole
    BY <1>1, <1>4 DEF PutSeen, Deciding
  <2>2. act.e.k = "write" /\ act.e.h \in Hashes BY <2>1, ActIs
  <2>3. To("append") BY <1>4 DEF PutSeen, Stored
  <2>4. act' \in Acts /\ act'.step = "append" /\ act'.e = act.e BY <2>1, <2>2, <2>3, ActBecomes
  <2>5. UNCHANGED <<rec, disk>> BY <1>4 DEF PutSeen
  <2>6. /\ named \subseteq named' /\ named' \subseteq Hashes
        /\ cut \subseteq cut' \cup {act.e.h} /\ (act.e.h \in named' \/ act.e.h \in cut')
    BY <1>1, <1>4, <2>1, <2>2 DEF PutSeen, Stored, OldMark, Barrier
  <2>7. Typed' BY <1>1, <2>4, <2>5, <2>6 DEF Typed
  <2>8. ActHasItsBytes' BY <1>1, <2>1, <2>4, <2>5, <2>6 DEF ActHasItsBytes, Safe
  <2>9. WritesAreSafe' BY <1>1, <2>1, <2>4, <2>5, <2>6 DEF WritesAreSafe, Safe
  <2> QED BY <2>7, <2>8, <2>9
<1>5. CASE PutRaises
  <2>1. act.step \in {"put", "barrier"} /\ act' = None /\ UNCHANGED <<rec, disk, named, cut>>
    BY <1>5 DEF PutRaises, Deciding
  <2> QED BY <1>1, <2>1 DEF Typed, ActHasItsBytes, WritesAreSafe, Safe
<1>6. CASE PutNew
  <2>1. act # None /\ act \in Acts /\ act.step = "put" /\ disk[act.e.h] = "none"
    BY <1>1, <1>6 DEF PutNew, Deciding
  <2>2. act.e.k = "write" /\ act.e.h \in Hashes BY <2>1, ActIs
  <2>3. act' \in Acts /\ act'.step = "barrier" /\ act'.e = act.e
    BY <1>6, <2>1, <2>2, ActBecomes DEF PutNew
  <2>4. /\ disk' = [disk EXCEPT ![act.e.h] = Whole] /\ named' = named \ {act.e.h}
        /\ UNCHANGED <<rec, cut>>
    BY <1>6 DEF PutNew
  <2>5. Typed' BY <1>1, <2>2, <2>3, <2>4 DEF Typed, Whole
  <2>6. \A h \in Hashes \ {act.e.h} : disk'[h] = disk[h] /\ (h \in named' <=> h \in named)
    BY <1>1, <2>4
  <2>7. disk'[act.e.h] = Whole BY <1>1, <2>2, <2>4
  <2> QED BY <1>1, <2>1, <2>3, <2>4, <2>5, <2>6, <2>7
          DEF ActHasItsBytes, WritesAreSafe, Safe, Whole
<1>7. CASE PutBarrier
  <2>1. act # None /\ act \in Acts /\ act.step = "barrier" BY <1>1, <1>7 DEF PutBarrier, Deciding
  <2>2. act.e.k = "write" /\ act.e.h \in Hashes BY <2>1, ActIs
  <2>3. To("append") /\ cut' = cut \ {act.e.h} BY <1>7 DEF PutBarrier, Stored
  <2>4. act' \in Acts /\ act'.step = "append" /\ act'.e = act.e BY <2>1, <2>2, <2>3, ActBecomes
  <2>5. named' = named \cup {act.e.h} /\ UNCHANGED <<rec, disk>>
    BY <1>7 DEF PutBarrier, Barrier
  <2>6. disk[act.e.h] = Whole BY <2>1 DEF ActHasItsBytes
  <2> QED BY <1>1, <2>1, <2>2, <2>3, <2>4, <2>5, <2>6
          DEF Typed, ActHasItsBytes, WritesAreSafe, Safe
<1>8. ASSUME NEW e \in Entries,
             Record(e), e.k = "write" => Safe(e.h) \/ e.h \in cut', UNCHANGED <<disk, named>>,
             cut \subseteq cut', act' \in {None, act},
             act' # act /\ act.step \in {"sync", "depart"} =>
               act.e.h \in cut' \/ (e.k = "departure" /\ e.h = act.e.h)
      PROVE  IInv'
  <2>1. /\ rec' \in Seq(Records) /\ Len(rec') = Len(rec) + 1
        /\ \A n \in 1..Len(rec) : rec'[n] = rec[n]
        /\ rec'[Len(rec) + 1].k = e.k /\ rec'[Len(rec) + 1].h = e.h
        /\ Departed(rec) \subseteq Departed(rec')
        /\ e.k = "departure" => e.h \in Departed(rec')
    <3>1. rec' = Append(rec, Minted(rec, e)) BY <1>8 DEF Record
    <3>2. rec \in Seq(Records) /\ e \in Entries BY <1>1
    <3> QED BY <3>1, <3>2, Appended, ZenonT(60)
  <2>2. Typed' BY <1>1, <1>8, <2>1 DEF Typed
  <2>3. disk' = disk /\ named' = named /\ act' \in {None, act} BY <1>8
  <2>5. ActHasItsBytes' BY <1>8, <2>3 DEF ActHasItsBytes, Safe
  <2>6. ASSUME NEW n \in 1..Len(rec'), rec'[n].k = "write", rec'[n].h \notin cut'
        PROVE  \/ rec'[n].h \in Departed(rec')
               \/ disk'[rec'[n].h] = Whole /\ rec'[n].h \in named'
               \/ act' # None /\ act'.step \in {"sync", "depart"} /\ act'.e.h = rec'[n].h
    <3>1. CASE n = Len(rec) + 1
      <4>1. Safe(e.h) /\ rec'[n].h = e.h BY <1>8, <2>1, <2>6, <3>1
      <4> QED BY <2>3, <4>1 DEF Safe
    <3>2. CASE n # Len(rec) + 1
      <4>1. n \in 1..Len(rec) /\ rec'[n] = rec[n] BY <1>1, <2>1, <3>2
      <4>2. rec[n].k = "write" /\ rec[n].h \notin cut BY <1>8, <2>6, <4>1
      <4>3. CASE rec[n].h \in Departed(rec) BY <2>1, <4>1, <4>3
      <4>4. CASE Safe(rec[n].h) BY <2>3, <4>1, <4>4 DEF Safe
      <4>5. CASE act # None /\ act.step \in {"sync", "depart"} /\ act.e.h = rec[n].h
        <5>1. CASE act' = act BY <4>1, <4>5, <5>1
        <5>2. CASE act' # act
          <6>1. act.e.h \in cut' \/ (e.k = "departure" /\ e.h = act.e.h) BY <1>8, <4>5, <5>2
          <6> QED BY <2>1, <2>6, <4>1, <4>5, <6>1
        <5> QED BY <5>1, <5>2
      <4> QED BY <4>1, <4>2, <4>3, <4>4, <4>5 DEF WritesAreSafe
    <3> QED BY <3>1, <3>2
  <2>7. WritesAreSafe' BY <2>6 DEF WritesAreSafe, Safe
  <2> QED BY <2>2, <2>5, <2>7
<1>9. CASE Publish
  <2>1. act # None /\ act \in Acts /\ act.step = "append" BY <1>1, <1>9 DEF Publish, Deciding
  <2>2. act.e \in [k : {"write", "departure"}, p : Paths \cup {None}, h : Hashes, at : {0}]
    BY <2>1, ActIs
  <2>3. Safe(act.e.h) \/ act.e.h \in cut BY <2>1 DEF ActHasItsBytes
  <2>4. act' = None /\ UNCHANGED <<disk, named, cut>> BY <1>9 DEF Publish
  <2>5. CASE Record(act.e)
    <3>1. 0 \in Places BY DEF Places
    <3>2. act.e \in Entries BY <2>2, <3>1 DEF Entries, NamesAHash
    <3> QED BY <1>8, <2>1, <2>3, <2>4, <2>5, <3>2
  <2>6. CASE UNCHANGED rec
    BY <1>1, <2>1, <2>4, <2>6 DEF Typed, ActHasItsBytes, WritesAreSafe, Safe
  <2> QED BY <1>9, <2>5, <2>6 DEF Publish
<1>10. CASE BeginHandover
  <2>1. PICK h \in Hashes :
          disk[h] = Whole /\ act' = [step |-> "remove", e |-> Entry("departure", None, h, 0)]
    BY <1>10 DEF BeginHandover, ReadsBack
  <2>2. act' \in Acts /\ act'.step = "remove" BY <2>1 DEF Acts, Entry
  <2>3. act = None /\ UNCHANGED <<rec, disk, named, cut>> BY <1>10 DEF BeginHandover
  <2> QED BY <1>1, <2>2, <2>3 DEF Typed, ActHasItsBytes, WritesAreSafe, Safe
<1>11. CASE RemoveBytes
  <2>1. act # None /\ act \in Acts /\ act.step = "remove" BY <1>1, <1>11 DEF RemoveBytes, Deciding
  <2>2. act.e.k = "departure" /\ act.e.h \in Hashes BY <2>1, ActIs
  <2>3. act' \in Acts /\ act'.step = "sync" /\ act'.e = act.e
    BY <1>11, <2>1, <2>2, ActBecomes DEF RemoveBytes
  <2>4. /\ disk' = [disk EXCEPT ![act.e.h] = "none"] /\ named' = named \ {act.e.h}
        /\ UNCHANGED <<rec, cut>>
    BY <1>11 DEF RemoveBytes
  <2>5. Typed' BY <1>1, <2>2, <2>3, <2>4 DEF Typed
  <2>6. \A h \in Hashes \ {act.e.h} : disk'[h] = disk[h] /\ (h \in named' <=> h \in named)
    BY <1>1, <2>4
  <2>7. disk'[act.e.h] = "none" /\ act' # None BY <1>1, <2>2, <2>3, <2>4
  <2>8. ActHasItsBytes'
    BY <1>1, <2>1, <2>3, <2>4, <2>6, <2>7 DEF ActHasItsBytes
  <2>9. WritesAreSafe'
    BY <1>1, <2>1, <2>3, <2>4, <2>6, <2>7 DEF WritesAreSafe, Safe
  <2> QED BY <2>5, <2>8, <2>9
<1>12. CASE RemovalSynced
  <2>1. act # None /\ act \in Acts /\ act.step = "sync" BY <1>1, <1>12 DEF RemovalSynced, Deciding
  <2>2. act.e.k = "departure" /\ act.e.h \in Hashes BY <2>1, ActIs
  <2>3. act' \in Acts /\ act'.step = "depart" /\ act'.e = act.e
    BY <1>12, <2>1, <2>2, ActBecomes DEF RemovalSynced
  <2>4. named' = named \cup {act.e.h} /\ UNCHANGED <<rec, disk, cut>>
    BY <1>12 DEF RemovalSynced
  <2> QED BY <1>1, <2>1, <2>2, <2>3, <2>4
          DEF Typed, ActHasItsBytes, WritesAreSafe, Safe
<1>13. CASE Depart
  <2>1. act # None /\ act \in Acts /\ act.step = "depart" BY <1>1, <1>13 DEF Depart, Deciding
  <2>2. act.e \in [k : {"write", "departure"}, p : Paths \cup {None}, h : Hashes, at : {0}]
        /\ act.e.k = "departure"
    BY <2>1, ActIs
  <2>3. act' = None /\ Record(act.e) /\ UNCHANGED <<disk, named, cut>> BY <1>13 DEF Depart
  <2>4. 0 \in Places BY DEF Places
  <2>5. act.e \in Entries BY <2>2, <2>4 DEF Entries, NamesAHash
  <2> QED BY <1>8, <2>1, <2>2, <2>3, <2>5
<1>14. CASE EffectFails
  <2>1. act # None /\ act \in Acts /\ act.step \in {"remove", "sync"} BY <1>1, <1>14 DEF EffectFails, Deciding
  <2>2. act.e.h \in Hashes BY <2>1, ActIs
  <2> DEFINE e == Entry("effect-failed", None, act.e.h, 0)
  <2>3. /\ act' = None /\ Record(e) /\ UNCHANGED <<disk, named>>
        /\ cut' = IF act.step = "sync" THEN cut \cup {act.e.h} ELSE cut
    BY <1>14 DEF EffectFails
  <2>4. 0 \in Places BY DEF Places
  <2>5. e \in Entries /\ e.k = "effect-failed"
    BY <2>2, <2>4 DEF Entry, Entries, NamesAHash
  <2> HIDE DEF e
  <2> QED BY <1>8, <2>1, <2>3, <2>5
<1>15. ASSUME NEW head, Splice(head), UNCHANGED <<disk, named, act, cut>> PROVE IInv'
  <2> DEFINE e == Entry("recover", None, None, SeqOfHead(rec, head))
  <2>1. SeqOfHead(rec, head) \in Places
    <3> DEFINE hits == {n \in 1..Len(rec) : HeadOf(rec, n) = head}
    <3>1. hits \in SUBSET Nat BY <1>1
    <3>2. SeqOfHead(rec, head) = IF hits = {} THEN None ELSE Max(hits) BY DEF SeqOfHead
    <3> HIDE DEF hits
    <3> QED BY <3>1, <3>2 DEF Places
  <2>2. e \in Entries /\ e.k = "recover"
    BY <2>1 DEF Entry, Entries, NamesAHash
  <2>3. Record(e) BY <1>15 DEF Splice
  <2> HIDE DEF e
  <2> QED BY <1>8, <1>15, <2>2, <2>3
<1>16. CASE Recover BY <1>15, <1>16 DEF Recover
<1>17. CASE AutoSplice
  <2>1. UNCHANGED <<disk, named, act, cut>> BY <1>17 DEF AutoSplice
  <2>2. CASE Recoverable(rec, auto, {}) BY <1>15, <1>17, <2>1, <2>2 DEF AutoSplice
  <2>3. CASE ~ Recoverable(rec, auto, {}) BY <1>2, <1>17, <2>1, <2>3 DEF AutoSplice, kept
  <2> QED BY <2>2, <2>3
<1>18. CASE Stop \/ PowerCut
  <2>1. act' = None /\ rec' = rec BY <1>18 DEF Stop, PowerCut, Halt
  <2>2. /\ cut \cup CutShort \subseteq cut'
        /\ disk' \in [Hashes -> {"none", Whole, "spoilt"}] /\ named' \subseteq Hashes
        /\ \A h \in Hashes : Safe(h) => h \in cut' \/ (h \in named' /\ disk'[h] = Whole)
    <3>1. CASE Stop BY <1>1, <3>1 DEF Stop, homes, Safe
    <3>2. CASE PowerCut
      <4>1. PICK U \in SUBSET (Hashes \ named), L \in SUBSET (made \ lasting) :
              LET gone == {h \in Hashes : Fan[h] \in L}
              IN  /\ disk' = [h \in Hashes |-> IF h \in gone THEN "none"
                                              ELSE IF h \in U THEN Undone(h) ELSE disk[h]]
                  /\ made' = made \ L /\ lasting' = made \ L
                  /\ cut' = cut \cup CutShort \cup {h \in gone : disk[h] # "none"}
        BY <3>2 DEF PowerCut
      <4>2. named' = Hashes BY <3>2 DEF PowerCut
      <4> QED BY <1>1, <4>1, <4>2 DEF Undone, Safe
    <3> QED BY <1>18, <3>1, <3>2
  <2>3. Typed' BY <1>1, <2>1, <2>2 DEF Typed
  <2>4. ActHasItsBytes' BY <2>1 DEF ActHasItsBytes
  <2>5. ASSUME NEW n \in 1..Len(rec), rec[n].k = "write", rec[n].h \notin cut'
        PROVE  rec[n].h \in Departed(rec) \/ (disk'[rec[n].h] = Whole /\ rec[n].h \in named')
    <3>1. rec[n].h \notin cut /\ rec[n].h \notin CutShort BY <2>2, <2>5
    <3>2. CASE act # None /\ act.step \in {"sync", "depart"} /\ act.e.h = rec[n].h
      BY <3>1, <3>2 DEF CutShort, Deciding
    <3>3. CASE Safe(rec[n].h) BY <1>1, <2>2, <2>5, <3>3 DEF Safe
    <3> QED BY <2>5, <3>1, <3>2, <3>3 DEF WritesAreSafe
  <2>6. WritesAreSafe' BY <2>1, <2>5 DEF WritesAreSafe, Safe
  <2> QED BY <2>3, <2>4, <2>6
<1>19. CASE Decay
  <2>1. act = None /\ UNCHANGED <<named, act>> BY <1>19 DEF Decay
  <2>2. CASE \E n \in 1..Len(rec) :
               rec' = [rec EXCEPT ![n].alt = TRUE] /\ UNCHANGED <<disk, cut>>
    <3>1. PICK n \in 1..Len(rec) : rec' = [rec EXCEPT ![n].alt = TRUE] BY <2>2
    <3>2. rec[n] \in Records /\ [rec[n] EXCEPT !.alt = TRUE] \in Records
      <4>1. rec[n] \in Records BY <1>1
      <4>2. \A r \in Records : [r EXCEPT !.alt = TRUE] \in Records BY DEF Records, NamesAHash
      <4> QED BY <4>1, <4>2
    <3>3. rec' \in Seq(Records) /\ Len(rec') = Len(rec) BY <1>1, <3>1, <3>2
    <3>4. \A m \in 1..Len(rec) : rec'[m].k = rec[m].k /\ rec'[m].h = rec[m].h
      BY <1>1, <3>1, <3>2 DEF Records
    <3>5. Departed(rec') = Departed(rec) BY <3>3, <3>4 DEF Departed
    <3>6. Typed' BY <1>1, <2>1, <2>2, <3>3 DEF Typed
    <3>7. ActHasItsBytes'
      BY <2>1, <2>2 DEF ActHasItsBytes, Safe
    <3>8. WritesAreSafe' BY <2>1, <2>2, <3>3, <3>4, <3>5 DEF WritesAreSafe, Safe
    <3> QED BY <3>6, <3>7, <3>8
  <2>3. CASE \E h \in Hashes : /\ disk[h] = Whole
                              /\ disk' = [disk EXCEPT ![h] = "spoilt"] /\ cut' = cut \cup {h}
                              /\ UNCHANGED rec
    <3>1. PICK h \in Hashes : /\ disk[h] = Whole /\ disk' = [disk EXCEPT ![h] = "spoilt"]
                              /\ cut' = cut \cup {h} /\ rec' = rec
      BY <2>3
    <3>2. Typed' BY <1>1, <2>1, <3>1 DEF Typed
    <3>3. \A x \in Hashes \ {h} : disk'[x] = disk[x] BY <1>1, <3>1
    <3>4. ActHasItsBytes' BY <2>1 DEF ActHasItsBytes
    <3>6. WritesAreSafe' BY <1>1, <2>1, <3>1, <3>3 DEF WritesAreSafe, Safe
    <3> QED BY <3>2, <3>4, <3>6
  <2> QED BY <1>19, <2>2, <2>3 DEF Decay
<1>20. CASE ReadHead \/ CrossAttest \/ Replicate \/ AutoCheck \/ UNCHANGED vars
  BY <1>2, <1>20 DEF ReadHead, CrossAttest, Replicate, AutoCheck, vars
<1> QED
  BY <1>3, <1>4, <1>5, <1>6, <1>7, <1>9, <1>10, <1>11, <1>12, <1>13, <1>14, <1>16, <1>17,
     <1>18, <1>19, <1>20 DEF Next

(* What is safe, has departed or is past removal is answered.               *)
LEMMA IInvAnswers == ASSUME NoneIsNothing PROVE IInv => EveryNameIsAnswered
<1> SUFFICES ASSUME IInv, NEW n \in 1..Len(rec), rec[n].k = "write", rec[n].h \notin cut
             PROVE  \/ Answer(rec, rec[n].h) \in {Whole, "departed"}
                    \/ act # None /\ act.e.k = "departure" /\ act.e.h = rec[n].h
  BY DEF EveryNameIsAnswered
<1>1. act \in Acts \cup {None} /\ named \subseteq Hashes /\ None \notin Hashes /\ None \notin Acts
  BY DEF IInv, Typed, NoneIsNothing
<1>2. \/ rec[n].h \in Departed(rec) \/ Safe(rec[n].h)
      \/ act # None /\ act.step \in {"sync", "depart"} /\ act.e.h = rec[n].h
  BY DEF IInv, WritesAreSafe
<1>3. CASE rec[n].h \in Departed(rec)
  <2>1. rec[n] \in Records BY DEF IInv, Typed
  <2>2. rec[n].h # None BY <1>1, <2>1 DEF Records, NamesAHash
  <2> QED BY <1>3, <2>2 DEF Answer
<1>4. CASE Safe(rec[n].h) BY <1>1, <1>4 DEF Answer, Safe, Whole
<1>5. CASE act # None /\ act.step \in {"sync", "depart"} /\ act.e.h = rec[n].h
  BY <1>1, <1>5, ActIs
<1> QED BY <1>2, <1>3, <1>4, <1>5

(* Every name the record gives is answered: at any time, through any number *)
(* of stops and power cuts between any two steps, each cut undoing any part *)
(* of what was not yet synced and taking any fan-out directory whose own    *)
(* name no sync has covered, the bytes of every recorded write are there    *)
(* whole, or their departure is on record or under way.  Excepted, until it *)
(* is put again, is a hash whose removal was cut short, whose bytes spoilt  *)
(* or went with their directory, or for which a mark from before a removal  *)
(* stood in for a sync that failed.                                         *)
THEOREM NamesAreAnswered == ASSUME NoneIsNothing PROVE Spec => []EveryNameIsAnswered
<1>1. Init => IInv BY InitIInv
<1>2. IInv /\ [Next]_vars => IInv' BY NextIInv
<1>3. IInv => EveryNameIsAnswered BY IInvAnswers
<1> QED BY <1>1, <1>2, <1>3, PTL DEF Spec
=============================================================================
