------------------------------ MODULE OpChecks ------------------------------
(* The interpreter of operation definitions: kernel/opdefs.py.              *)
(*                                                                          *)
(* An operation is data: the rows it is checked by, the parameters that     *)
(* take a default or the caller's name, and the fields its record carries.  *)
(* An act is admitted when every row holds over the record, and is then     *)
(* appended; check and append are one step, for the decide region is held   *)
(* over both (GroupCommit).  The operations themselves are rows of the      *)
(* founding pack, one definition each in the modules that extend this one.  *)
EXTENDS Integers, SequencesExt, TLC

CONSTANT None            \* the value of a parameter nobody gave

Get(p, k) == IF k \in DOMAIN p THEN p[k] ELSE None

(* A record lands in the stream its definition names, by default its own    *)
(* action's; by_action reads streams, the projections read actions.         *)
ByAction(r, a)     == SelectSeq(r, LAMBDA e : e.stream = a)
Family(r, acts)    == SelectSeq(r, LAMBDA e : e.action \in acts)
Naming(r, a, f, v) == SelectSeq(ByAction(r, a), LAMBDA e : Get(e.payload, f) = v)

-----------------------------------------------------------------------------
(* The check kinds.  c is the row, actor the caller, q the filled call.     *)

RequirePrior(r, d, c, actor, q) ==
  Naming(r, c.action, c.field,
         IF c.param \in d.stamps THEN actor ELSE Get(q, c.param)) # << >>

ValueDomain(c, q) == Get(q, c.param) \in c.domain

(* The open slots: a close frees every slot held under its instance, for it *)
(* names nothing else.                                                      *)
SlotIn(c, p) == [k \in c.slots |-> Get(p, k)]

LiveSlots(r, c) ==
  FoldLeft(LAMBDA live, e :
             LET inst == Get(e.payload, c.instance)
             IN  IF e.action = c.open
                 THEN live \cup {[slot |-> SlotIn(c, e.payload), inst |-> inst]}
                 ELSE {s \in live : s.inst # inst},
           {}, SelectSeq(r, LAMBDA e : e.stream \in {c.open, c.close}))

SlotIsFree(r, c, q) == \A s \in LiveSlots(r, c) : s.slot # SlotIn(c, q)

(* The open members, by their key fields: the closer is one of them where   *)
(* the row says so.                                                         *)
LivePresent(r, c) ==
  FoldLeft(LAMBDA live, e :
             IF e.action = c.open
             THEN live \cup {[k \in c.keys |-> Get(e.payload, k)]}
             ELSE live \ {[k \in c.keys |-> IF k \in c.closer THEN e.actor
                                                            ELSE Get(e.payload, k)]},
           {}, SelectSeq(r, LAMBDA e : e.stream \in {c.open, c.close}))

IsPresent(r, c, actor, q) ==
  \E m \in LivePresent(r, c) :
     /\ \A k \in c.present : m[k] = Get(q, k)
     /\ \A k \in c.self : m[k] = actor

Depth(r, c, v) == Len(Naming(r, c.add, c.key, v)) - Len(Naming(r, c.sub, c.key, v))
FoldThreshold(r, c, q) == Depth(r, c, Get(q, c.key)) > c.threshold

(* The ceiling: what the holder was granted and nobody evicted, by key; a   *)
(* new grant of a key replaces the old one.                                 *)
Used(r, c, holder) ==
  FoldLeft(LAMBDA agg, e :
             LET key == Get(e.payload, c.key)
                 others == {u \in agg : u[1] # key}
             IN  CASE e.action = c.remove -> others
                   [] e.action = c.aggregate /\ Get(e.payload, c.holder) = holder
                        -> others \cup {<<key, Get(e.payload, c.amount)>>}
                   [] OTHER -> agg,
           {}, Family(r, {c.aggregate, c.remove}))

Total(used) == FoldSet(LAMBDA u, n : n + u[2], 0, used)

(* Mutant: is there room before the amount is added? *)
UnderCeilingBefore(r, c, ceiling, q) ==
  LET limit == ceiling[Get(q, c.holder)]
      used  == Used(r, c, Get(q, c.holder))
  IN  limit # None => Total({u \in used : u[1] # Get(q, c.key)}) <= limit

UnderCeiling(r, c, ceiling, q) ==
  LET holder == Get(q, c.holder)
      limit  == ceiling[holder]
      rest   == {u \in Used(r, c, holder) : u[1] # Get(q, c.key)}
  IN  limit # None => /\ q[c.amount] >= 0
                      /\ Total(rest) + q[c.amount] <= limit

(* The latest record that names what the act names must declare the field   *)
(* the licence rests on, or carry the value the caller gave.                *)
PriorValue(r, c, q) ==
  LET named == Naming(r, c.action, c.field, Get(q, c.param))
  IN  /\ named # << >>
      /\ c.value \in DOMAIN Last(named).payload
      /\ (c.require = "established") <=> (Last(named).payload[c.value] # None)

BoundField(r, c, q) ==
  LET named == Naming(r, c.action, c.field, Get(q, c.keyParam))
  IN  \/ named = << >> /\ c.unbound = "permit"
      \/ /\ named # << >>
         /\ c.value \in DOMAIN Last(named).payload
         /\ Last(named).payload[c.value] = Get(q, c.param)

-----------------------------------------------------------------------------
(* The interpreter of one definition.                                       *)

Filled(d, actor, p) ==
  [k \in DOMAIN p \cup DOMAIN d.defaults \cup d.fromActor |->
     IF k \in DOMAIN p THEN p[k]
     ELSE IF k \in d.fromActor THEN actor ELSE d.defaults[k]]

Holds(r, d, c, actor, q, ceiling) ==
  CASE c.check = "require_prior"  -> RequirePrior(r, d, c, actor, q)
    [] c.check = "value_domain"   -> ValueDomain(c, q)
    [] c.check = "live_slot"      -> SlotIsFree(r, c, q)
    [] c.check = "live_present"   -> IsPresent(r, c, actor, q)
    [] c.check = "fold_threshold" -> FoldThreshold(r, c, q)
    [] c.check = "ceiling"        -> UnderCeiling(r, c, ceiling, q)
    [] c.check = "prior_value"    -> PriorValue(r, c, q)
    [] c.check = "bound_field"    -> BoundField(r, c, q)

RecordOf(op, d, actor, q) ==
  [action |-> op, stream |-> d.stream, actor |-> actor,
   payload |-> [k \in d.payload \cup d.stamps |-> IF k \in d.stamps THEN actor ELSE Get(q, k)]]

Admitted(r, d, actor, p, ceiling) ==
  LET q == Filled(d, actor, p)
  IN  \A i \in DOMAIN d.checks : Holds(r, d, d.checks[i], actor, q, ceiling)

Appended(r, op, d, actor, p) == Append(r, RecordOf(op, d, actor, Filled(d, actor, p)))

(* A definition with no checks, defaults or stamps. *)
Plain(op, fields) == [checks |-> << >>, payload |-> fields, defaults |-> << >>,
                      fromActor |-> {}, stamps |-> {}, stream |-> op]
=============================================================================
