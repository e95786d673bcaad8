------------------------------- MODULE Border -------------------------------
(* The border (kernel/border.py): what crosses between this body and the    *)
(* processes and bodies outside.  A submit is answered by records that cite *)
(* its content hash; a received row has one receipt; a parent's rule is     *)
(* received as input under a live relation and is in force here only when   *)
(* an act of this body adopts it, by hand or by a standing order.           *)
(*                                                                          *)
(* A content hash is the content, so two submits of one content, or two     *)
(* declarations of one relation, have one id.  Receiving is two acts, each  *)
(* decided alone, after a check that is outside both.                       *)
EXTENDS Naturals, Sequences, FiniteSets, FiniteSetsExt

CONSTANTS Entities, Parents,
          Rules,    \* the rules of the parents
          CitedBy,  \* rule -> the rule it cites, or None
          RuleIds,  \* the ids of this body's own rules
          MaxRec,   \* bound: length of the record
          None

VARIABLES rec,
          receiving  \* the receive under way: its stage, relation and rule

vars == <<rec, receiving>>
System == "SYSTEM"
Idle == [at |-> "idle", rel |-> None, rule |-> None]
Row(k, id, of) == [k |-> k, id |-> id, of |-> of, by |-> None, rel |-> None, mark |-> None]
Rows(rc, k) == {n \in 1..Len(rc) : rc[n].k = k}

(* Tunnels by name, here one: the last to be made.                          *)
TunnelSender(rc) == IF Rows(rc, "tunnel") = {} THEN None ELSE rc[Max(Rows(rc, "tunnel"))].id

(* Crossings: what became of a submit, by the records that cite it.         *)
Citing(rc, k, id) == {n \in Rows(rc, k) : rc[n].id = id}
BindsASubmit(rc, id) == \E n \in Rows(rc, "submit") : rc[n].id = id
CrossingState(rc, id) ==
  IF Citing(rc, "reply", id) # {} THEN "replied"
  ELSE IF Citing(rc, "refusal", id) # {} THEN "refused" ELSE "open"

(* A submit repeated is one crossing, willed by who put it last.            *)
Crossings(rc) == {rc[n].id : n \in Rows(rc, "submit")}
WilledBy(rc, id) == rc[Max(Citing(rc, "submit", id))].by

(* The censuses: the crossings whose willer some tunnel binds, and those    *)
(* willed by the system.                                                    *)
BoundOver(rc) == {id \in Crossings(rc) : WilledBy(rc, id) = TunnelSender(rc)}
SystemAttributed(rc) == {id \in Crossings(rc) : WilledBy(rc, id) = System}

(* The window onto the refusals: the last of each crossing.                 *)
ThroughTheWindow(rc) == {Max(Citing(rc, "refusal", rc[n].id)) : n \in Rows(rc, "refusal")}

(* A relation is live once declared, until withdrawn; the withdrawals are   *)
(* folded after all declarations.                                           *)
RelationLive(rc, p) == Citing(rc, "declare", p) # {} /\ Citing(rc, "withdraw", p) = {}

(* The receipts of a row, and the rules received, first wins.               *)
Receipts(rc, r) == Citing(rc, "receipt", r)
Received(rc) == {r \in Rules : Receipts(rc, r) # {}}
ReceivedUnder(rc, r) == rc[Min(Receipts(rc, r))].rel

(* This body's rules: the last of an id is live.                            *)
Live(rc, n) == \A later \in Rows(rc, "rule") : rc[later].id = rc[n].id => later <= n
AutoAdopts(rc) == \E n \in Rows(rc, "rule") : rc[n].mark = "auto" /\ Live(rc, n)
Adopting(rc, r) == {n \in Rows(rc, "rule") : rc[n].mark = "adopts" /\ rc[n].of = r}

AdoptedBy(rc, r) == rc[Min(Adopting(rc, r))].id

(* The active constitution: what was received and adopted, and by what.     *)
ActiveConstitution(rc) ==
  {[rule |-> r, under |-> ReceivedUnder(rc, r), by |-> AdoptedBy(rc, r)] :
     r \in {q \in Received(rc) : Adopting(rc, q) # {}}}

----------------------------------------------------------------------------
Init == rec = << >> /\ receiving = Idle

Record(row) == Len(rec) < MaxRec /\ rec' = Append(rec, row)

CreateTunnel == \E e \in Entities : Record(Row("tunnel", e, None)) /\ UNCHANGED receiving

(* The draft is an entity's, put by an actor: itself unless another is named*)
Submitted(e, by, tunnelled) ==
  [Row("submit", <<e, tunnelled>>, e) EXCEPT !.by = by, !.mark = tunnelled]

Submit ==
  \E e \in Entities, by \in Entities \cup {System}, tunnelled \in BOOLEAN :
    /\ tunnelled => TunnelSender(rec) = e
    /\ Record(Submitted(e, by, tunnelled)) /\ UNCHANGED receiving

Respond ==
  \E k \in {"reply", "refusal"}, e \in Entities, tunnelled \in BOOLEAN, to \in Entities :
    /\ BindsASubmit(rec, <<e, tunnelled>>)
    /\ k = "reply" => to = e            \* a reply names no entity
    /\ Record(Row(k, <<e, tunnelled>>, to)) /\ UNCHANGED receiving

Relate ==
  \E p \in Parents, k \in {"declare", "withdraw"} :
    Record(Row(k, p, p)) /\ UNCHANGED receiving

(* A rule of this body: an adoption by hand, a standing order, or one that  *)
(* is neither and retires what had its id.                                  *)
CreateRule ==
  \E i \in RuleIds, mark \in {"adopts", "auto", None}, r \in Rules :
    /\ Record([Row("rule", i, IF mark = "adopts" THEN r ELSE None) EXCEPT !.mark = mark])
    /\ UNCHANGED receiving

(* The relation is live and the mark verifies under the parent's key.       *)
ReceiveVerified ==
  \E p \in Parents, r \in Rules :
    /\ receiving = Idle /\ RelationLive(rec, p)
    /\ receiving' = [at |-> "verified", rel |-> p, rule |-> r]
    /\ UNCHANGED rec

(* Mutant: a cited rule may be held under any relation. *)
CitationResolvesAnywhere(r, rel) ==
  CitedBy[r] # None => CitedBy[r] \in Received(rec)

CitationResolves(r, rel) ==
  CitedBy[r] # None => CitedBy[r] \in Received(rec) /\ ReceivedUnder(rec, CitedBy[r]) = rel

ReceiptIsNew(r) == Receipts(rec, r) = {}

(* The receipt, refused when the row has one or cites what is not held; the *)
(* standing order is read after it.                                         *)
ReceiveRecorded ==
  LET r == receiving.rule
  IN  /\ receiving.at = "verified"
      /\ IF CitationResolves(r, receiving.rel) /\ ReceiptIsNew(r)
         THEN /\ Record([Row("receipt", r, r) EXCEPT !.rel = receiving.rel])
              /\ receiving' = IF AutoAdopts(rec') THEN [receiving EXCEPT !.at = "adopting"]
                              ELSE Idle
         ELSE receiving' = Idle /\ UNCHANGED rec

AutoAdopt ==
  \E i \in RuleIds :
    /\ receiving.at = "adopting" /\ receiving' = Idle
    /\ Record([Row("rule", i, receiving.rule) EXCEPT !.mark = "adopts"])

(* The process stops, or an act of the receive is refused.                  *)
ReceiveEnds == receiving # Idle /\ receiving' = Idle /\ UNCHANGED rec

Next ==
  \/ CreateTunnel \/ Submit \/ Respond \/ Relate \/ CreateRule
  \/ ReceiveVerified \/ ReceiveRecorded \/ AutoAdopt \/ ReceiveEnds

Spec == Init /\ [][Next]_vars

----------------------------------------------------------------------------
(* What crossed stands on what this body holds: a submit came through the   *)
(* tunnel its entity then had, and one that is answered was put before any  *)
(* of its answers, which the window shows if it was refused; a crossing an  *)
(* entity put through its own tunnel stays bound, and not the system's, till*)
(* another puts it again or the tunnel is made anew; a received rule that   *)
(* cites another was received after it and from the same parent; a row has  *)
(* one receipt; and a rule once active stays so, under the relation and by  *)
(* the act it first was.                                                    *)
Prefix(n) == SubSeq(rec, 1, n)
CrossingsAreGrounded ==
  /\ \A n \in Rows(rec, "submit") : rec[n].mark => TunnelSender(Prefix(n)) = rec[n].of
  /\ \A n \in Rows(rec, "submit") : CrossingState(rec, rec[n].id) # "open" =>
       \E m \in Citing(rec, "submit", rec[n].id) :
         \A k \in Citing(rec, "reply", rec[n].id) \cup Citing(rec, "refusal", rec[n].id) : m < k
  /\ \A n \in ThroughTheWindow(rec) :
       /\ rec[n].id \in Crossings(rec) /\ CrossingState(rec, rec[n].id) # "open"
       /\ \A m \in Citing(rec, "refusal", rec[n].id) : m <= n
  /\ \A n \in Rows(rec, "submit") :
       (rec[n].mark /\ rec[n].by = rec[n].of) =>
         \/ rec[n].id \in BoundOver(rec) \ SystemAttributed(rec)
         \/ \E m \in (n+1)..Len(rec) :
              \/ rec[m].k = "tunnel" /\ rec[m].id # rec[n].of
              \/ rec[m].k = "submit" /\ rec[m].id = rec[n].id /\ rec[m].by # rec[n].by
  /\ \A n \in Rows(rec, "receipt") :
       LET cited == CitedBy[rec[n].id]
       IN  cited # None =>
             \E m \in 1..(n-1) : /\ rec[m].k = "receipt" /\ rec[m].id = cited
                                 /\ rec[m].rel = rec[n].rel
  /\ \A r \in Rules : Cardinality(Receipts(rec, r)) <= 1
  /\ \A n \in 0..Len(rec) : ActiveConstitution(Prefix(n)) \subseteq ActiveConstitution(rec)
=============================================================================
