-------------------------------- MODULE Wake -------------------------------
(* Before the first act: what the boot records, the ceremony that seats the *)
(* system signer and the mark it puts on every record (compose.py), the     *)
(* wake checklist, the pair of witness bodies and the check of the running  *)
(* kernel against its act-kind rows (boot.py, attestation.py, keys.py).     *)
(* Each body has an image (its record), an engine (its source files) and a  *)
(* process that runs what it loaded.                                        *)
EXTENDS Naturals, Sequences, FiniteSetsExt

CONSTANTS Bodies,    \* two bodies, each with its own image
          Damages,   \* what may be wrong with an image: verdicts other than
                     \* body and keys
          Deeds,     \* what the world writes: acts of WorldRows
          MaxRec,    \* records of the images together
          MaxDamage, \* changes made outside the record
          None

VARIABLES rec,      \* rec[i]: rows [act, val, mark]
          engine,   \* engine[i]: the build on the body's disk
          wrong,    \* wrong[i]: the damages of the image
          running,  \* running[i]: the build the process loaded, None when its
                    \* boot was refused
          signer,   \* signer[i]: the seed in memory, by its number
          sealing,  \* sealing[i]: the ceremony under way: [seed, bound]
          held,     \* held[i]: the witness's own copy of the genesis part
          told,     \* told[i]: what the last wake answered: [woke, failed]
          paired,   \* the last agreement: [live, held, failed, on]
          damage    \* changes so far

vars == <<rec, engine, wrong, running, signer, sealing, held, told, paired, damage>>

Of(r, a) == {n \in DOMAIN r : r[n].act = a}
LastOf(r, a) == IF Of(r, a) = {} THEN None ELSE r[Max(Of(r, a))].val
Row(a, v) == [act |-> a, val |-> v, mark |-> None]

(* The act-kind rows are the founding's: no operation writes another, since *)
(* CREATE-RULE takes no kind.  The code's table is at its call sites, and   *)
(* once more as the closed set.  Build 1 has the founding's; 2 differs in   *)
(* another file, 3 at the sites, 4 in the closed set alone.                 *)
Builds == 1..4
ActKindRows == "founded"
SiteKinds(b) == IF b = 3 THEN "other" ELSE "founded"
ClosedKinds(b) == IF b \in {3, 4} THEN "other" ELSE "founded"

(* Two booted bodies, each with its engine attested.                        *)
Init ==
  /\ rec = [i \in Bodies |-> <<Row("attest", 1)>>]
  /\ engine = [i \in Bodies |-> 1]
  /\ wrong = [i \in Bodies |-> {}]
  /\ running = [i \in Bodies |-> 1]
  /\ signer = [i \in Bodies |-> None]
  /\ sealing = [i \in Bodies |-> None]
  /\ held = [i \in Bodies |-> None]
  /\ told = [i \in Bodies |-> None]
  /\ paired = None
  /\ damage = 0

----------------------------------------------------------------------------
(* The system key is bound by its latest bind or rotation, and a revocation *)
(* leaves it unbound: the fold over the first m rows.                       *)
Binds(x) == x.act \in {"system-key", "system-rotate"}
BoundAsOf(r, m) ==
  \E k \in 1..m : Binds(r[k]) /\ \A l \in (k + 1)..m : r[l].act # "system-revoke"
SystemKeyBound(r) == BoundAsOf(r, Len(r))

(* The mark on an append: none while the system key is unbound and on the   *)
(* ceremony's own rows, among which is every bind of the system key; else   *)
(* the signer's, without which the append is refused.                       *)
IsCeremonyBootstrap(x) == x.act \in {"ceremony", "system-key"}
NeedsMark(i, x) == SystemKeyBound(rec[i]) /\ ~IsCeremonyBootstrap(x)

Refuses(i, x) == \/ "views" \in wrong[i]
                 \/ NeedsMark(i, x) /\ signer[i] = None

Append1(i, x) ==
  rec' = [rec EXCEPT ![i] = Append(@, IF NeedsMark(i, x) THEN [x EXCEPT !.mark = signer[i]] ELSE x)]

Others(i) == CHOOSE j \in Bodies : j # i
Room(i) == Len(rec[i]) + Len(rec[Others(i)]) < MaxRec
Up(i) == running[i] # None

(* An act of the world: key rows of the root and of the system, a seal's    *)
(* anchor.                                                                  *)
Act(i, x) ==
  /\ Up(i) /\ Room(i) /\ ~Refuses(i, x) /\ Append1(i, x)
  /\ UNCHANGED <<engine, wrong, running, signer, sealing, held, told, paired, damage>>

(* A boot: the process starts with no seed; its call sites must carry the   *)
(* rows' kinds and labels (replay_act_kinds), and the engine is attested if *)
(* it is not the attested one.  Either may refuse the boot.  The marking    *)
(* hook is attached afterwards.                                             *)
Boot(i) ==
  /\ LET attests == LastOf(rec[i], "attest") # engine[i]
         refused == \/ SiteKinds(engine[i]) # ActKindRows
                    \/ attests /\ "views" \in wrong[i]
     IN  /\ attests /\ ~refused => Room(i)
         /\ rec' = IF attests /\ ~refused THEN [rec EXCEPT ![i] = Append(@, Row("attest", engine[i]))]
                   ELSE rec
         /\ running' = [running EXCEPT ![i] = IF refused THEN None ELSE engine[i]]
  /\ signer' = [signer EXCEPT ![i] = None]
  /\ sealing' = [sealing EXCEPT ![i] = None]
  /\ told' = [told EXCEPT ![i] = None]
  /\ UNCHANGED <<engine, wrong, held, paired, damage>>

(* The ceremony: its row, the bind of the public half, the seed in memory.  *)
(* A seed is drawn afresh, and named by its row; one below the floor is     *)
(* refused before any row.                                                  *)
CeremonyRow(i) ==
  /\ Up(i) /\ sealing[i] = None /\ Room(i)
  /\ LET seed == Len(rec[i]) + 1
     IN  /\ ~Refuses(i, Row("ceremony", seed))
         /\ Append1(i, Row("ceremony", seed))
         /\ sealing' = [sealing EXCEPT ![i] = [seed |-> seed, bound |-> FALSE]]
  /\ UNCHANGED <<engine, wrong, running, signer, held, told, paired, damage>>

CeremonyBind(i) ==
  /\ sealing[i] # None /\ Room(i)
  /\ ~sealing[i].bound
  /\ ~Refuses(i, Row("system-key", sealing[i].seed))
  /\ Append1(i, Row("system-key", sealing[i].seed))
  /\ sealing' = [sealing EXCEPT ![i].bound = TRUE]
  /\ UNCHANGED <<engine, wrong, running, signer, held, told, paired, damage>>

CeremonySeat(i) ==
  /\ sealing[i] # None /\ sealing[i].bound
  /\ signer' = [signer EXCEPT ![i] = sealing[i].seed]
  /\ sealing' = [sealing EXCEPT ![i] = None]
  /\ UNCHANGED <<rec, engine, wrong, running, held, told, paired, damage>>

----------------------------------------------------------------------------
(* The six verdicts.  A chain end that never held a key passes vacuously.   *)
WakeBody(i)    == LastOf(rec[i], "attest") = engine[i]
WakeKeys(i)    == Of(rec[i], "root-key") = {} \/ LastOf(rec[i], "root-key") # None

WakeVerdicts(i) ==
  wrong[i] \cup (IF WakeBody(i) THEN {} ELSE {"body"})
           \cup (IF WakeKeys(i) THEN {} ELSE {"keys"})

(* The row is recorded whether they pass or not; if it cannot be and none   *)
(* failed, the append's error escapes and nothing wakes.                    *)
WakeUp(i) ==
  /\ Up(i) /\ Room(i)
  /\ LET failed == WakeVerdicts(i)
         row == Row("wake", failed)
     IN  /\ IF Refuses(i, row) THEN UNCHANGED rec ELSE Append1(i, row)
         /\ told' = [told EXCEPT ![i] =
                       IF failed = {} /\ Refuses(i, row) THEN None
                       ELSE [woke |-> failed = {}, failed |-> failed]]
  /\ UNCHANGED <<engine, wrong, running, signer, sealing, held, paired, damage>>

(* The code's closed set and its sites against the rows.  The verdict is    *)
(* recorded, then a divergence refuses; where no row can be written, the    *)
(* divergence refuses and a clean verdict's error escapes: no row in both.  *)
CheckKernel(i) ==
  /\ Up(i) /\ Room(i)
  /\ LET row == Row("conforms", {ClosedKinds(running[i]), SiteKinds(running[i])} = {ActKindRows})
     IN  IF Refuses(i, row) THEN UNCHANGED rec ELSE Append1(i, row)
  /\ UNCHANGED <<engine, wrong, running, signer, sealing, held, told, paired, damage>>

(* The genesis part: the checker and the attested set, the anchor, the key. *)
GenesisPart(i) ==
  [digests |-> engine[i], chain_anchor |-> LastOf(rec[i], "anchor"),
   public_key |-> LastOf(rec[i], "root-key")]

(* A witness body keeps its own copy of the part from when it is made.      *)
MakeWitness(i) ==
  /\ Up(i) /\ held[i] = None
  /\ held' = [held EXCEPT ![i] = GenesisPart(i)]
  /\ UNCHANGED <<rec, engine, wrong, running, signer, sealing, told, paired, damage>>

(* Mutant: the kept copy is compared with the other's. *)
WitnessOfCopies(i) == WakeVerdicts(Others(i)) = {} /\ held[Others(i)] = held[i]

(* A witness's verdict on the other body: clean, and its live part matches. *)
Witness(i) == /\ WakeVerdicts(Others(i)) = {}
              /\ GenesisPart(Others(i)) = held[i]

(* Each witnesses the other; the receipt goes to one image, agreed or not.  *)
GenesisPairWake(g) ==
  /\ Room(g) /\ \A i \in Bodies : Up(i) /\ held[i] # None
  /\ LET agree == \A i \in Bodies : Witness(i)
         row == Row("pair", agree)
     IN  /\ ~Refuses(g, row)
         /\ Append1(g, row)
         /\ paired' = IF agree
                      THEN [live |-> [i \in Bodies |-> GenesisPart(i)], held |-> held,
                            failed |-> [i \in Bodies |-> WakeVerdicts(i)]]
                      ELSE None
  /\ UNCHANGED <<engine, wrong, running, signer, sealing, held, told, damage>>

(* Outside the record: a file of the engine is replaced, the image is       *)
(* damaged.                                                                 *)
ChangeEngine(i, b) ==
  /\ damage < MaxDamage /\ damage' = damage + 1
  /\ engine' = [engine EXCEPT ![i] = b]
  /\ UNCHANGED <<rec, wrong, running, signer, sealing, held, told, paired>>

DamageImage(i, w) ==
  /\ damage < MaxDamage /\ damage' = damage + 1
  /\ wrong' = [wrong EXCEPT ![i] = @ \cup {w}]
  /\ UNCHANGED <<rec, engine, running, signer, sealing, held, told, paired>>

(* Any key row of the system may be another's: key-bind and key-rotate name *)
(* a fresh key, key-revoke none, and only the root's key is leashed.        *)
WorldRows(i) ==
  {x \in {Row("root-key", k) : k \in {1, None}} \cup {Row("anchor", Len(rec[i]))}
          \cup {Row(a, Len(rec[i]) + 1) : a \in {"system-key", "system-rotate"}}
          \cup {Row("system-revoke", None)} : x.act \in Deeds}

Next ==
  \E i \in Bodies :
    \/ \E x \in WorldRows(i) : Act(i, x)
    \/ Boot(i) \/ CeremonyRow(i) \/ CeremonyBind(i) \/ CeremonySeat(i)
    \/ WakeUp(i) \/ CheckKernel(i) \/ MakeWitness(i) \/ GenesisPairWake(i)
    \/ \E b \in Builds \ {engine[i]} : ChangeEngine(i, b)
    \/ \E w \in Damages : DamageImage(i, w)

Spec == Init /\ [][Next]_vars

----------------------------------------------------------------------------
(* While the system key is bound every record carries a mark, but for the   *)
(* ceremony's rows (EventStore._append_one, compose.append_countersign).    *)
EveryBoundRecordIsMarked ==
  \A i \in Bodies : \A n \in DOMAIN rec[i] :
    BoundAsOf(rec[i], n - 1) /\ ~IsCeremonyBootstrap(rec[i][n]) => rec[i][n].mark # None

(* A record is marked exactly when the fold over the rows before it binds a *)
(* system key, but for the ceremony's rows and the boot's own attestation;  *)
(* and no mark is made with a seed whose public half is not on the record   *)
(* before it.  A revoked key leaves the later records unmarked, and after a *)
(* rotation or another's bind the mark is still of the seed in memory.      *)
MarksAreOfBoundKeys ==
  \A i \in Bodies : \A n \in DOMAIN rec[i] :
    LET x == rec[i][n] IN
    /\ x.mark # None => \E k \in 1..(n - 1) : Binds(rec[i][k]) /\ rec[i][k].val = x.mark
    /\ x.mark # None <=>
         BoundAsOf(rec[i], n - 1) /\ ~IsCeremonyBootstrap(x) /\ x.act # "attest"

(* Who woke has an all-pass row on the record, and who was refused has the  *)
(* row that says why, unless no row could be written (wake).                *)
WakesAreRecorded ==
  \A i \in Bodies :
    told[i] # None =>
      \/ \E n \in DOMAIN rec[i] : rec[i][n].act = "wake" /\ rec[i][n].val = told[i].failed
      \/ ~told[i].woke /\ ("views" \in wrong[i] \/ \E n \in DOMAIN rec[i] : Binds(rec[i][n]))

(* Two bodies whose copies were the same agree only while both images still *)
(* have that part and neither fails a verdict: a change to one of them is   *)
(* refused (WitnessBody.witness, mutual_receipt).                           *)
AgreementIsOfBoth ==
  paired # None =>
    /\ \A i \in Bodies : paired.failed[i] = {}
    /\ (\A i, j \in Bodies : paired.held[i] = paired.held[j]) =>
         \A i, j \in Bodies : paired.live[i] = paired.held[j]

BootIsHonest == MarksAreOfBoundKeys /\ WakesAreRecorded /\ AgreementIsOfBoth
=============================================================================
