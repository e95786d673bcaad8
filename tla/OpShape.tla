------------------------------- MODULE OpShape -------------------------------
(* What makes an operation definition recordable: the definition door of    *)
(* kernel/opdefs.py, validate_definition_shape.  A definition is data that  *)
(* anybody with the power may record, and from then on the interpreter runs *)
(* it; the door is there so that what it runs means what it says.  Here a   *)
(* definition is admitted at the door and then called in every way.         *)
EXTENDS Naturals, FiniteSets, SequencesExt, TLC

CONSTANTS Params,         \* parameter names
          Keys, Root,     \* what names may be bound, and the root that is
          ContainerOf,    \* the name that holds a name
          Definitions,    \* definitions brought to the door
          None,           \* an absent value
          MaxRec

VARIABLES d,     \* the definition that was admitted
          rec    \* what its acts recorded, each with the call (history)

vars == <<d, rec>>

Get(p, k) == IF k \in DOMAIN p THEN p[k] ELSE None

(* A check row.  Rows over keys carry what they ask of which key and what   *)
(* the act does to it; of the others, which fields are declared and which   *)
(* parameters they read.                                                    *)
KeyRow(check, key, of, require, forbid, effect, gift) ==
  [check |-> check, key |-> key, of |-> of, require |-> require, forbid |-> forbid,
   effect |-> effect, gift |-> gift, given |-> {}, reads |-> {}]
OtherRow(check, given, reads) ==
  [check |-> check, key |-> None, of |-> None, require |-> None, forbid |-> None,
   effect |-> None, gift |-> None, given |-> given, reads |-> reads]

RowsOf(def, kind) == {i \in DOMAIN def.checks : def.checks[i].check = kind}

-----------------------------------------------------------------------------
(* The door, validator by validator. *)

Known(def) == {p \in Params : def.params[p] # "untaken"}
                \cup {def.defaults[i].param : i \in DOMAIN def.defaults}

Default(def, p) == {def.defaults[i] : i \in {j \in DOMAIN def.defaults : def.defaults[j].param = p}}

(* A parameter that carries a value whatever the call, and one whose value  *)
(* the call decides; a default may lead to another parameter's.             *)
ParamIsSupplied(def, param) ==
  LET s[n \in 0..Cardinality(Params), p \in Params] ==
        \/ def.params[p] = "required"
        \/ \E v \in Default(def, p) : \/ v.kind \in {"actor", "static"}
                                      \/ v.kind = "other" /\ n > 0 /\ s[n - 1, v.of]
  IN  s[Cardinality(Params), param]

ParamVariesPerAct(def, param) ==
  LET s[n \in 0..Cardinality(Params), p \in Params] ==
        \/ def.params[p] = "required"
        \/ \E v \in Default(def, p) : v.kind = "other" /\ n > 0 /\ s[n - 1, v.of]
  IN  s[Cardinality(Params), param]

MintIsDerivable(def, f) ==
  LET src == IF f \in DOMAIN def.copies THEN def.copies[f] ELSE f
  IN  /\ f \in DOMAIN def.copies \/ f \in def.written \cup Known(def)
      /\ ParamIsSupplied(def, src) /\ ParamVariesPerAct(def, src)

DerivableMints(def) ==
  /\ \A f \in def.mints : MintIsDerivable(def, f)
  /\ def.fromCoordinate => def.mints = {}

KeyIsCarried(def, c) == c.key \in Known(def) /\ c.key \in def.written

WellformedBinding(def) ==
  /\ \A i \in RowsOf(def, "binding") :
       LET c == def.checks[i] IN
       KeyIsCarried(def, c) /\ (c.require # None \/ c.effect # None)
  /\ def.governed => RowsOf(def, "binding") # {}

WellformedKeyOf(def) ==
  \A i \in DOMAIN def.checks :
    def.checks[i].of # None => /\ def.checks[i].check \in {"binding", "kind", "contains"}
                               /\ def.checks[i].effect = None

WellformedContains(def) ==
  \A i \in RowsOf(def, "contains") :
    KeyIsCarried(def, def.checks[i]) /\ def.checks[i].require = "empty"

(* A class is asked of a key an earlier row requires bound, and under a law *)
(* whose names have classes every act that binds a name gives it one.       *)
BoundRows(def, c) ==
  {j \in RowsOf(def, "binding") : /\ def.checks[j].key = c.key /\ def.checks[j].of = c.of
                                  /\ def.checks[j].require = "bound"}

WellformedGifts(def) ==
  \A i \in DOMAIN def.checks :
    LET c == def.checks[i] IN
    /\ c.gift # None => /\ c.effect = "bind"
                        /\ c.gift.source \in {"param", "from_key"} =>
                             c.gift.value \in Known(def) \cap def.written
    /\ def.governed /\ c.effect = "bind" => c.gift # None

(* Mutant: the row that requires it may stand anywhere. *)
WellformedKindAnywhere(def) ==
  /\ \A i \in RowsOf(def, "kind") :
       LET c == def.checks[i] IN
       KeyIsCarried(def, c) /\ (c.require = None) # (c.forbid = None) /\ BoundRows(def, c) # {}
  /\ WellformedGifts(def)

WellformedKind(def) ==
  /\ \A i \in RowsOf(def, "kind") :
       LET c == def.checks[i] IN
       /\ KeyIsCarried(def, c)
       /\ (c.require = None) # (c.forbid = None)
       /\ \E j \in BoundRows(def, c) : j < i
  /\ WellformedGifts(def)

(* The other rows declare their fields, and most of them read only          *)
(* parameters the operation takes.                                          *)
Declares(c, fields) == fields \subseteq c.given

WellformedPriorValue(def) ==
  \A i \in RowsOf(def, "prior_value") :
    /\ Declares(def.checks[i], {"action", "field", "param", "value_field", "require"})
    /\ def.checks[i].reads \subseteq Known(def)

WellformedBoundField(def) ==
  \A i \in RowsOf(def, "bound_field") :
    /\ Declares(def.checks[i], {"action", "field", "key_param", "value_field", "param"})
    /\ def.checks[i].reads \subseteq Known(def)

WellformedValueDomain(def) ==
  \A i \in RowsOf(def, "value_domain") : Declares(def.checks[i], {"param", "domain"})

WellformedLiveSlot(def) ==
  \A i \in RowsOf(def, "live_slot") :
    Declares(def.checks[i], {"open_action", "close_action", "instance_param", "slot_params"})

WellformedLivePresent(def) ==
  \A i \in RowsOf(def, "live_present") :
    /\ Declares(def.checks[i], {"open_action", "close_action", "key_params", "present"})
    /\ def.checks[i].reads \subseteq Known(def)

WellformedFoldThreshold(def) ==
  \A i \in RowsOf(def, "fold_threshold") :
    /\ Declares(def.checks[i], {"add_action", "key_param", "key_field", "fold_name",
                                "operator", "threshold"})
    /\ def.checks[i].reads \subseteq Known(def)

WellformedCeiling(def) ==
  \A i \in RowsOf(def, "ceiling") :
    Declares(def.checks[i], {"policy_key_prefix", "holder_param", "aggregate_action",
                             "holder_field", "key_param", "aggregate_field",
                             "removal_action", "amount_param"})

(* A question about every member binds a parameter of its own. *)
WellformedEveryMember(def) ==
  \A i \in RowsOf(def, "every_member") :
    /\ Declares(def.checks[i], {"param", "member_param", "on_empty", "inner"})
    /\ def.checks[i].reads \subseteq Known(def)
    /\ def.checks[i].key \notin Known(def)

FieldsAreClassified(def) ==
  \A p \in Params : def.params[p] # "untaken" => p \in def.structural \cup def.contentHome

(* What a definition says of the envelope: which parameter supplies a field *)
(* of it, and for a field the store would mint what an absent value means;  *)
(* silence means it must be given.                                          *)
Routed == {"target", "time"}
Minted == {"time"}
Absences == {"required", "default"}

RouterParam(def, router) ==
  LET decl == def.says[router] IN
  IF decl = None THEN [param |-> None, absent |-> "required"]
  ELSE [param |-> decl.param, absent |-> IF decl.absent = None THEN "required" ELSE decl.absent]

WellformedRouters(def) ==
  \A router \in Routed :
    LET decl == def.says[router] IN
    decl # None /\ decl.longhand =>
      /\ router \in Minted /\ ~ decl.strange /\ decl.param # None
      /\ decl.absent \in Absences \cup {None}

(* The stream its records are written under.  A key that was misspelt would *)
(* be read by nobody.                                                       *)
WellformedRecordStream(def) ==
  def.says.stream # None => ~ def.says.misspelt /\ def.says.stream # "nameless"

WellformedActKind(def) ==
  def.says.act # None => /\ def.says.act = "release"
                         /\ ~ def.says.writesPower

ParamKinds == {"quantity", "text", "bytes", "measurement"}
WellformedParamKinds(def) ==
  \A p \in DOMAIN def.says.kinds : def.params[p] # "untaken" /\ def.says.kinds[p] \in ParamKinds

Cells == {"S", "U", "U{s}", "S{u}"}
WellformedCell(def) == def.says.cell \in Cells \cup {None}

WellformedCheckRows(def) ==
  /\ WellformedBinding(def) /\ WellformedKind(def) /\ WellformedContains(def)
  /\ WellformedPriorValue(def) /\ WellformedBoundField(def) /\ WellformedValueDomain(def)
  /\ WellformedLiveSlot(def) /\ WellformedLivePresent(def) /\ WellformedFoldThreshold(def)
  /\ WellformedEveryMember(def) /\ WellformedCeiling(def)

ValidateDefinitionShape(def) ==
  /\ WellformedRouters(def) /\ WellformedActKind(def) /\ WellformedRecordStream(def)
  /\ DerivableMints(def) /\ WellformedKeyOf(def) /\ WellformedCheckRows(def)
  /\ WellformedParamKinds(def) /\ WellformedCell(def) /\ FieldsAreClassified(def)

-----------------------------------------------------------------------------
(* The interpreter.  Defaults are filled in the order they were declared,   *)
(* each where the call left its key out.                                    *)
Filled(p) ==
  FoldLeft(LAMBDA q, v :
             IF v.param \in DOMAIN q THEN q
             ELSE (v.param :> CASE v.kind = "other"  -> Get(q, v.of)
                                [] v.kind = "static" -> "static"
                                [] OTHER             -> "actor") @@ q,
           p, d.defaults)

Recorded(q) == [f \in d.written \cup DOMAIN d.copies |->
                  IF f \in DOMAIN d.copies THEN Get(q, d.copies[f]) ELSE Get(q, f)]

(* The envelope is read from what the caller gave; a default reaches the    *)
(* payload and stops there.                                                 *)
IsStated(p) ==
  LET r == RouterParam(d, "time")
  IN  r.param = None \/ r.absent = "default" \/ Get(p, r.param) # None

Time(p) ==
  LET r == RouterParam(d, "time")
  IN  IF r.param = None \/ Get(p, r.param) = None THEN "minted" ELSE p[r.param]

Target(p, q) ==
  LET r == RouterParam(d, "target") IN IF r.param \in DOMAIN p THEN q[r.param] ELSE None

Stream == IF d.says.misspelt THEN None ELSE d.says.stream

RecordOf(p, q) == [payload |-> Recorded(q), time |-> Time(p), target |-> Target(p, q),
                   stream |-> Stream, call |-> p]

(* The names and their classes, folded from the payloads. *)
KeyFor(c, q) == LET v == Get(q, c.key) IN
                IF c.of = None THEN v ELSE IF v \in Keys THEN ContainerOf[v] ELSE None

GiftOf(c, p, classes) ==
  CASE c.gift = None                             -> None
    [] c.gift # None /\ c.gift.source = "literal"  -> c.gift.value
    [] c.gift # None /\ c.gift.source = "param"    -> Get(p, c.gift.value)
    [] c.gift # None /\ c.gift.source = "from_key" -> Get(classes, Get(p, c.gift.value))

Without(f, k) == [x \in DOMAIN f \ {k} |-> f[x]]

BindingHolds(law, c, q) == /\ c.require = "bound"   => KeyFor(c, q) \in DOMAIN law
                           /\ c.require = "unbound" => KeyFor(c, q) \notin DOMAIN law

Moved(law, before, c, p) ==
  CASE c.effect = "bind"   -> (p[c.key] :> GiftOf(c, p, before)) @@ law
    [] c.effect = "unbind" /\ p[c.key] # Root -> Without(law, p[c.key])
    [] OTHER -> law

LiveNamespace ==
  FoldLeft(LAMBDA law, e :
             IF \A i \in RowsOf(d, "binding") : BindingHolds(law, d.checks[i], e.payload)
             THEN FoldLeft(LAMBDA l, c : Moved(l, law, c, e.payload), law,
                           SelectSeq(d.checks, LAMBDA c : c.check = "binding"))
             ELSE law,
           Root :> "dir", rec)

RowHolds(law, c, q) ==
  CASE c.check = "binding" -> BindingHolds(law, c, q)
    [] c.check = "kind" ->
         /\ c.require # None => Get(law, KeyFor(c, q)) = c.require
         /\ c.forbid # None  => Get(law, KeyFor(c, q)) # c.forbid
    [] c.check = "contains" -> \A k \in DOMAIN law : ContainerOf[k] # KeyFor(c, q) \/ k = Root
    [] OTHER -> TRUE

(* A call names some of the parameters the operation takes; a required one  *)
(* must carry a value, another may be given as null.                        *)
Calls == {p \in UNION {[s -> Keys \cup {None}] : s \in SUBSET Params} :
            /\ \A k \in DOMAIN p : d.params[k] # "untaken"
            /\ \A k \in Params : d.params[k] = "required" => Get(p, k) # None}

Act == /\ Len(rec) < MaxRec
       /\ \E p \in Calls :
            LET q == Filled(p) law == LiveNamespace IN
            /\ \A i \in DOMAIN d.checks : RowHolds(law, d.checks[i], q)
            /\ IsStated(p)
            /\ rec' = Append(rec, RecordOf(p, q))
       /\ UNCHANGED d

Init == /\ d \in {def \in Definitions : ValidateDefinitionShape(def)}
        /\ rec = << >>
Next == Act
Spec == Init /\ [][Next]_vars

-----------------------------------------------------------------------------
(* An admitted definition's rows mean what they say, on every call: a class *)
(* is asked only of a name that is bound; a row reads the key the record    *)
(* carries, so the fold moves the names the check asked about; a live name  *)
(* without a class was given it from a field its act left empty; and a      *)
(* record states no time and no target nobody stated, has a minted time     *)
(* only where its definition names that, and lands in the stream its author *)
(* wrote.                                                                   *)
RowsMeanWhatTheySay ==
  LET law == LiveNamespace IN
  /\ \A p \in Calls, i \in RowsOf(d, "kind") :
       LET q == Filled(p) IN
       (\A j \in 1..(i - 1) : RowHolds(law, d.checks[j], q)) =>
         KeyFor(d.checks[i], q) \in DOMAIN law
  /\ \A p \in Calls, i \in DOMAIN d.checks :
       LET c == d.checks[i] IN
       c.check \in {"binding", "kind", "contains"} =>
         KeyFor(c, Recorded(Filled(p))) = KeyFor(c, Filled(p))
  /\ d.governed => \A k \in DOMAIN law : law[k] = None =>
       \E i \in RowsOf(d, "binding") : /\ d.checks[i].effect = "bind"
                                       /\ d.checks[i].gift # None
                                       /\ d.checks[i].gift.source # "literal"
  /\ \A i \in DOMAIN rec :
       LET e == rec[i] IN
       /\ IF e.time = "minted" THEN d.says.time # None => d.says.time.absent = "default"
          ELSE e.time = Get(e.call, d.says.time.param)
       /\ e.target # None => e.target = Get(e.call, d.says.target.param)
       /\ e.stream = d.says.stream
=============================================================================
