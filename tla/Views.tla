-------------------------------- MODULE Views --------------------------------
(* The views of the record (kernel/views.py) and the projections they read  *)
(* (kernel/store.py): every table the gate decides by is a fold of the      *)
(* rows.  A fold is kept until a row it depends on is appended; three       *)
(* declare the rows they depend on and read them through a projection that  *)
(* catches up when it is read.  A class of acts can be bound to carry       *)
(* stamps: what those three held when the act was decided.  The gate        *)
(* decides one act at a time, so a decision is one step.  A row is the      *)
(* fields that are present in it; its seq is its place in the record.       *)
EXTENDS Naturals, Sequences, SequencesExt, FiniteSets

CONSTANTS None,
          Drafts,    \* acts the gate may be asked for
          Direct,    \* rows that are written past it
          ViewForms, \* views it may be asked to create
          Reads,     \* the kept folds that are read
          MaxRec     \* bound: length of the record

VARIABLES rec,
          generation, \* of the folds that declare no rows: moved by every append
          subsetGen,  \* of those that do: moved by the rows they declare
          memo,       \* fold -> the generation and the value kept
          seqs, seen, \* projection -> the rows it selected, of how many
          pending,    \* staged stamps, by the content of the act they are of
          past        \* the rows that were written past the gate

vars == <<rec, generation, subsetGen, memo, seqs, seen, pending, past>>

Nothing == [x \in {} |-> None]

Get(e, field) == IF field \in DOMAIN e THEN e[field] ELSE None
AllRows == [s \in 1..Len(rec) |-> s]
Rows(P(_)) == SelectSeq(AllRows, LAMBDA s : P(rec[s]))
ByAction(a) == Rows(LAMBDA e : e.action = a)
Latest(rows, Id(_), Keep(_)) ==
  FoldLeft(LAMBDA m, s : IF Keep(rec[s]) THEN (Id(rec[s]) :> s) @@ m ELSE m, Nothing, rows)

-----------------------------------------------------------------------------
(* The folds that declare their rows.                                       *)

PerAct == {"op_definitions", "active_rules", "category_packs"}

Selects(f, e) ==
  CASE f = "op_definitions" -> e.action \in {"CREATE-OP", "AMEND-OP", "RETIRE-OP"}
    [] f = "active_rules"   -> Get(e, "rule_id") # None
    [] f = "category_packs" -> Get(e, "kind") = "category_pack"

OpDefinitions(rows) ==
  FoldLeft(LAMBDA m, s :
             LET e == rec[s]
                 n == Get(e, "name")
             IN IF e.action \in {"CREATE-OP", "AMEND-OP"} /\ Get(e, "kind") = "op_definition"
                THEN (n :> s) @@ m
                ELSE IF e.action = "RETIRE-OP" /\ n \in DOMAIN m
                THEN [k \in DOMAIN m \ {n} |-> m[k]]
                ELSE m,
           Nothing, rows)

ActiveRules(rows) ==
  FoldLeft(LAMBDA m, s :
             LET r == Get(rec[s], "rule_id")
                 kept == /\ r \in DOMAIN m
                         /\ Get(rec[m[r]], "tier") = "constitutional"
                         /\ Get(rec[s], "tier") # "constitutional"
             IN IF r = None \/ kept THEN m ELSE (r :> s) @@ m,
           Nothing, rows)

CategoryPacks(rows) ==
  Latest(rows, LAMBDA e : e.name,
         LAMBDA e : /\ Get(e, "kind") = "category_pack"
                    /\ Get(e, "name") # None /\ Get(e, "levels") # None)

ClassCapabilities(rows) ==
  FoldLeft(LAMBDA c, s : IF /\ Get(rec[s], "kind") = "category_pack"
                            /\ Get(rec[s], "name") = "actor-classes"
                            /\ Get(rec[s], "capabilities") # None
                         THEN rec[s].capabilities ELSE c, Nothing, rows)

PerActFold(f, rows) ==
  CASE f = "op_definitions" -> OpDefinitions(rows)
    [] f = "active_rules"   -> ActiveRules(rows)
    [] f = "category_packs" -> CategoryPacks(rows)

(* Those that do not: what is no longer in force, and the acts by effect.   *)
OldRules(active) ==
  {s \in 1..Len(rec) : LET r == Get(rec[s], "rule_id")
                       IN r \in DOMAIN active /\ s # active[r]}

Superseded(rows, Id(_)) ==
  LET latest == Latest(rows, Id, LAMBDA e : TRUE)
  IN {s \in ToSet(rows) : s # latest[Id(rec[s])]}

ActorId(e) == IF Get(e, "actor_id") # None THEN e.actor_id ELSE Get(e, "object")
OldItems == Superseded(ByAction("CREATE-ACTOR"), ActorId)
            \cup Superseded(ByAction("CREATE-INFO"), LAMBDA e : Get(e, "object"))

Relation(e) == IF Get(e, "rel_id") # None THEN <<e.rel_id>>
               ELSE <<Get(e, "from"), Get(e, "to"), Get(e, "rel_kind")>>
Ended(e) == Get(e, "ended") = TRUE \/ Get(e, "state") \in {"ended", "withdrawn"}
OldRelationships ==
  LET rows == ByAction("CREATE-RELATIONSHIP")
  IN Superseded(rows, Relation) \cup {s \in ToSet(rows) : Ended(rec[s])}

EventsByEffect ==
  [changing |-> Rows(LAMBDA e : Get(e, "rule_id") # None),
   under    |-> Rows(LAMBDA e : Get(e, "rule_id") = None)]

Cause(e) == CASE Get(e, "kind") = "answer"  -> Get(e, "handout_seq")
              [] Get(e, "kind") = "handout" -> Get(e, "parent_handout_seq")
              [] OTHER -> None
Effects == {s \in 1..Len(rec) : Cause(rec[s]) # None}
Causes  == {Cause(rec[s]) : s \in Effects}
ChainsOfEffect ==
  LET walk[n \in 0..Len(rec)] ==   \* the chains on from the row n
        LET next == {s \in Effects : Cause(rec[s]) = n}
        IN IF next = {} THEN {<<n>>} ELSE {<<n>> \o c : c \in UNION {walk[s] : s \in next}}
  IN UNION {walk[n] : n \in Causes \ Effects}

(* The accounts of each class: the last row of an account gives its class.  *)
Actors == Latest(ByAction("CREATE-ACTOR"), LAMBDA e : e.actor_id,
                 LAMBDA e : Get(e, "actor_id") # None)
ActorsByClass == {[class |-> Get(rec[Actors[a]], "actor_class"), actor |-> a] : a \in DOMAIN Actors}

-----------------------------------------------------------------------------
(* What is kept, and when it is answered again.                             *)

Kept == PerAct \cup {"class_capabilities", "old_rules", "old_items", "old_relationships",
                     "events_by_effect", "chains_of_effect", "actors_by_class"}

Generation(f) ==
  CASE f \in PerAct -> subsetGen[f]
    [] f = "class_capabilities" -> subsetGen["category_packs"]
    [] OTHER -> generation

Current(f) == memo[f] # None /\ memo[f].gen = Generation(f)

(* A projection that is read first takes in the rows it has not seen.       *)
CaughtUp(p) ==
  seqs[p] \o SelectSeq(SubSeq(AllRows, seen[p] + 1, Len(rec)), LAMBDA s : Selects(p, rec[s]))

Prove(ps) ==
  /\ seqs' = [p \in PerAct |-> IF p \in ps THEN CaughtUp(p) ELSE seqs[p]]
  /\ seen' = [p \in PerAct |-> IF p \in ps THEN Len(rec) ELSE seen[p]]

ViewFold(f) == PerActFold(f, CaughtUp(f))
RulesInForce == IF Current("active_rules") THEN memo["active_rules"].val
                ELSE ViewFold("active_rules")

Answer(f) ==
  CASE f \in PerAct -> ViewFold(f)
    [] f = "class_capabilities" -> ClassCapabilities(CaughtUp("category_packs"))
    [] f = "old_rules"          -> OldRules(RulesInForce)
    [] f = "old_items"          -> OldItems
    [] f = "old_relationships"  -> OldRelationships
    [] f = "events_by_effect"   -> EventsByEffect
    [] f = "chains_of_effect"   -> ChainsOfEffect
    [] f = "actors_by_class"    -> ActorsByClass

(* The folds that answering f also keeps, and the projections it reads.     *)
Answered(f) == {g \in {f} \cup (IF f = "old_rules" THEN {"active_rules"} ELSE {}) : ~Current(g)}
Projected(f) == (Answered(f) \cap PerAct)
                \cup (IF f = "class_capabilities" THEN {"category_packs"} ELSE {})

Keep(fs) == memo' = [g \in Kept |-> IF g \in fs THEN [gen |-> Generation(g), val |-> Answer(g)]
                                    ELSE memo[g]]

Read(f) ==
  /\ ~Current(f)
  /\ Keep(Answered(f)) /\ Prove(Projected(f))
  /\ UNCHANGED <<rec, generation, subsetGen, pending, past>>

KillKeepsTheMark(p) ==
  /\ seen[p] > 0
  /\ seqs' = [seqs EXCEPT ![p] = << >>]
  /\ UNCHANGED <<seen, rec, generation, subsetGen, memo, pending, past>>

(* A projection can be thrown away at any time.                             *)
Kill(p) ==
  /\ seen[p] > 0
  /\ seqs' = [seqs EXCEPT ![p] = << >>] /\ seen' = [seen EXCEPT ![p] = 0]
  /\ UNCHANGED <<rec, generation, subsetGen, memo, pending, past>>

Bump(e) ==
  /\ generation' = generation + 1
  /\ subsetGen' = [f \in PerAct |-> IF Selects(f, e) THEN subsetGen[f] + 1 ELSE subsetGen[f]]

Fresh ==
  /\ generation' = 0 /\ subsetGen' = [f \in PerAct |-> 0]
  /\ memo' = [f \in Kept |-> None]
  /\ seqs' = [p \in PerAct |-> << >>] /\ seen' = [p \in PerAct |-> 0]
  /\ pending' = << >>

Restart == rec # << >> /\ memo # [f \in Kept |-> None] /\ Fresh /\ UNCHANGED <<rec, past>>

(* The row that comes back retires one staged copy with its content.        *)
Content(e) == [field \in DOMAIN e \ {"stamps"} |-> e[field]]
Retired(c, staged) == IF c \in ToSet(staged) THEN RemoveFirst(staged, c) ELSE staged

Append1(e, staged) ==
  /\ rec' = Append(rec, e) /\ Bump(e) /\ pending' = Retired(Content(e), staged)

WriteDirectly(e) ==
  /\ Len(rec) < MaxRec
  /\ Append1(e, pending) /\ past' = past \cup {Len(rec) + 1}
  /\ UNCHANGED <<memo, seqs, seen>>

-----------------------------------------------------------------------------
(* Stamps.  The law in force may bind a class of acts to carry them.        *)

Policy(active, key) ==
  LET of == {r \in DOMAIN active : Get(rec[active[r]], "policy_key") = key}
  IN IF of = {} THEN None
     ELSE Get(rec[CHOOSE s \in {active[r] : r \in of} : \A r \in of : active[r] <= s], "value")

Listed(policy, d) == policy # None /\ d.action \in DOMAIN policy
RequiredBy(policy, d) == IF Listed(policy, d) THEN policy[d.action] ELSE {}

RelevantFolds(d) == {f \in PerAct : Selects(f, d)}
StampOfFold(f) == [view |-> f, saw |-> ViewFold(f), version |-> Len(rec)]
BuildStamps(d) == {StampOfFold(f) : f \in RelevantFolds(d)}

Refusal == [action |-> "op-refused"]

(* The gate decides an act that no earlier step refused: it stages a stamp  *)
(* of every fold the act touches, and accepts it if the required ones are   *)
(* among them.  An act whose caller brings stamps is refused, once staged.  *)
GateAct(d, bringsStamps) ==
  LET policy   == Policy(RulesInForce, "required-stamps")
      stamps   == IF Listed(policy, d) THEN BuildStamps(d) ELSE {}
      staged   == IF stamps = {} THEN pending ELSE Append(pending, d)
      missing  == RequiredBy(policy, d) \ {st.view : st \in stamps}
      stamped  == IF RequiredBy(policy, d) = {} THEN d ELSE d @@ [stamps |-> stamps]
      ruling   == IF bringsStamps \/ missing # {} THEN Refusal ELSE stamped
      consulted == IF Current("active_rules") THEN {} ELSE {"active_rules"}
  IN /\ Len(rec) < MaxRec
     /\ Cause(d) \in {None} \cup 1..Len(rec)  \* a cause is a row that was recorded
     /\ Keep(consulted) /\ Prove(consulted \cup {st.view : st \in stamps})
     /\ Append1(ruling, staged)
     /\ UNCHANGED past

VersionsOf(s) == {st.version : st \in rec[s].stamps}
RowsWithStamps == {s \in 1..Len(rec) : Get(rec[s], "stamps") # None}
StampDivergences == {s \in RowsWithStamps : Cardinality(VersionsOf(s)) > 1}

UnseenRows ==
  LET policy == Policy(ActiveRules(AllRows), "required-stamps")
      carried(s) == IF s \in RowsWithStamps THEN {st.view : st \in rec[s].stamps} ELSE {}
  IN {s \in 1..Len(rec) : Listed(policy, rec[s]) /\ ~ RelevantFolds(rec[s]) \subseteq carried(s)}

-----------------------------------------------------------------------------
(* Views as rows: a filter, a fold by its name, or another view narrowed    *)
(* along one dimension.                                                     *)

FoldNames == {"active_rules", "rules"}   \* "rules" is in the library, and no read serves it
FilterDimensions == {"action", "actor", "object", "rule_cited", "refused", "payload_kind"}
DeriveDimensions == {"actor_class", "scope_class", "item_kind", "liveness", "tree_kind"}

ViewRows == Rows(LAMBDA e : /\ e.action = "CREATE-VIEW" /\ Get(e, "kind") = "view_definition"
                            /\ Get(e, "name") # None)
ViewDefinitions == Latest(ViewRows, LAMBDA e : e.name, LAMBDA e : TRUE)
ViewDerivations == Latest(ViewRows, LAMBDA e : e.name, LAMBDA e : Get(e, "derive") # None)

LawfulDerive(v) ==
  /\ v.bind = None /\ v.when = Nothing
  /\ Cardinality(DOMAIN v.derive.where) = 1 /\ DOMAIN v.derive.where \subseteq DeriveDimensions
  /\ v.derive.from \in DOMAIN ViewDefinitions

LawfulView(v) ==
  /\ v.bind \in FoldNames \cup {None}
  /\ DOMAIN v.when \subseteq FilterDimensions
  /\ v.derive # None => LawfulDerive(v)

ViewRow(v) ==
  [action |-> "CREATE-VIEW", kind |-> "view_definition", rule_id |-> v.name,
   name |-> v.name, when |-> v.when]
  @@ (IF v.bind = None THEN Nothing ELSE [bind |-> v.bind])
  @@ (IF v.derive = None THEN Nothing ELSE [derive |-> v.derive])

CreateView(v) ==
  /\ Len(rec) < MaxRec
  /\ Append1(IF LawfulView(v) THEN ViewRow(v) ELSE Refusal, pending)
  /\ UNCHANGED <<memo, seqs, seen, past>>

Matches(e, when) ==
  \A dim \in DOMAIN when :
    LET got == Get(e, IF dim = "payload_kind" THEN "kind" ELSE dim)
    IN (got = when[dim].want) # when[dim].negated

(* What is served is a set of rows, of one shape, or a refusal; a chain of  *)
(* views that comes back to itself is never served.                         *)
Refused == [shape |-> "refused", rows |-> {}]
Endless == [shape |-> "endless", rows |-> {}]

DeriveValue(dim, s) ==
  CASE dim = "scope_class" -> Get(rec[s], "scope")
    [] dim = "item_kind" -> IF Get(rec[s], "kind") = "actor" THEN "actor" ELSE "static"
    [] dim = "liveness" -> IF s \in OldRelationships THEN "old" ELSE "active"
Carries(shape, dim, s) ==
  \/ dim = "liveness"
  \/ shape = "rule" /\ dim = "scope_class"
  \/ shape = "rule" /\ dim = "item_kind" /\ "kind" \in DOMAIN rec[s]

Narrowed(out, where) ==
  LET dim == CHOOSE x \in DOMAIN where : TRUE
  IN IF \E s \in out.rows : ~Carries(out.shape, dim, s) THEN Refused
     ELSE [out EXCEPT !.rows = {s \in @ : DeriveValue(dim, s) = where[dim]}]

Plain(name) ==
  LET d == rec[ViewDefinitions[name]]
  IN [shape |-> "event", rows |-> {s \in 1..Len(rec) : Matches(rec[s], d.when)}]

Master(name) ==
  LET active == ActiveRules(AllRows)
  IN IF rec[ViewDefinitions[name]].bind = "active_rules"
     THEN [shape |-> "rule", rows |-> {active[r] : r \in DOMAIN active}]
     ELSE Refused

Underived(name) == IF Get(rec[ViewDefinitions[name]], "bind") # None THEN Master(name)
                   ELSE Plain(name)

(* After as many narrowings as there are views the chain has come back.     *)
ServedWithin ==
  LET of[k \in 0..Cardinality(DOMAIN ViewDefinitions)] ==
        [name \in DOMAIN ViewDefinitions |->
           IF name \notin DOMAIN ViewDerivations THEN Underived(name)
           ELSE IF k = 0 THEN Endless
           ELSE LET derive == rec[ViewDerivations[name]].derive
                    out == of[k - 1][derive.from]
                IN IF out \in {Refused, Endless} THEN out ELSE Narrowed(out, derive.where)]
  IN of[Cardinality(DOMAIN ViewDefinitions)]

ExecuteView(name) == IF name \in DOMAIN ViewDerivations THEN ServedWithin[name] ELSE Plain(name)

-----------------------------------------------------------------------------
Init ==
  /\ rec = << >> /\ past = {}
  /\ generation = 0 /\ subsetGen = [f \in PerAct |-> 0]
  /\ memo = [f \in Kept |-> None]
  /\ seqs = [p \in PerAct |-> << >>] /\ seen = [p \in PerAct |-> 0]
  /\ pending = << >>

Next ==
  \/ \E f \in Reads : Read(f)
  \/ \E p \in PerAct : Kill(p)
  \/ Restart
  \/ \E d \in Drafts, brings \in BOOLEAN : GateAct(d, brings)
  \/ \E e \in Direct : WriteDirectly(e)
  \/ \E v \in ViewForms : CreateView(v)

Spec == Init /\ [][Next]_vars

-----------------------------------------------------------------------------
(* A value kept at the current generation is what the fold answers from the *)
(* whole record now (Views.cached, Views._bump, RecordProjection.refresh).  *)
MemoIsFold ==
  \A f \in Kept : Current(f) =>
    memo[f].val = CASE f \in PerAct -> PerActFold(f, AllRows)
                    [] f = "class_capabilities" -> ClassCapabilities(AllRows)
                    [] f = "old_rules" -> OldRules(ActiveRules(AllRows))
                    [] OTHER -> Answer(f)

(* A constitutional row of a rule outlives every later row that is not, and *)
(* else the last row counts; every other row of the rule is an old one; an  *)
(* operation lives if its last row does not retire it.                      *)
LatestWins ==
  LET active == ActiveRules(AllRows)
      ops    == OpDefinitions(AllRows)
      of(r)  == {s \in 1..Len(rec) : Get(rec[s], "rule_id") = r}
      fixed(r) == {s \in of(r) : Get(rec[s], "tier") = "constitutional"}
      last(S) == CHOOSE s \in S : \A q \in S : q <= s
      named(n) == {s \in 1..Len(rec) : Selects("op_definitions", rec[s]) /\ rec[s].name = n}
  IN /\ \A r \in DOMAIN active :
          /\ active[r] = last(IF fixed(r) # {} THEN fixed(r) ELSE of(r))
          /\ of(r) \ {active[r]} = {s \in OldRules(active) : rec[s].rule_id = r}
     /\ {s \in 1..Len(rec) : Get(rec[s], "rule_id") # None}
          = OldRules(active) \cup {active[r] : r \in DOMAIN active}
     /\ \A s \in 1..Len(rec) : Selects("op_definitions", rec[s]) =>
          LET n == rec[s].name
          IN n \in DOMAIN ops <=> rec[last(named(n))].action # "RETIRE-OP"

(* Of one relation, and of one item, at most one row is in force.           *)
OneRowInForce ==
  /\ \A s, q \in ToSet(ByAction("CREATE-RELATIONSHIP")) \ OldRelationships :
       Relation(rec[s]) = Relation(rec[q]) => s = q
  /\ \A s, q \in ToSet(ByAction("CREATE-ACTOR")) \ OldItems :
       ActorId(rec[s]) = ActorId(rec[q]) => s = q

(* Every effect is on a chain that goes back to a row nothing recorded      *)
(* caused, and along a chain each row is caused by the one before it.       *)
ChainsCoverEffects ==
  /\ \A s \in Effects : \E c \in ChainsOfEffect : s \in ToSet(c)
  /\ \A c \in ChainsOfEffect : \A k \in 2..Len(c) : Cause(rec[c[k]]) = c[k - 1]

(* A stamp on a row is of the record just before it, the same for all of    *)
(* them, whatever the projections had seen (Views.build_stamps).            *)
StampsAreOfTheHead ==
  /\ StampDivergences = {}
  /\ \A s \in RowsWithStamps : \A st \in rec[s].stamps :
       /\ st.version = s - 1
       /\ st.saw = PerActFold(st.view, SubSeq(AllRows, 1, s - 1))

(* A row that lacks the stamps its class needs was written past the gate,   *)
(* or when the law asked for none; one that was is found by its lack; what  *)
(* was not carries every stamp that was asked for.                          *)
LackTellsWhoWroteIt ==
  LET required(s) == RequiredBy(Policy(ActiveRules(SubSeq(AllRows, 1, s - 1)), "required-stamps"),
                                rec[s])
      carried(s) == IF s \in RowsWithStamps THEN {st.view : st \in rec[s].stamps} ELSE {}
  IN /\ \A s \in (1..Len(rec)) \ past : required(s) \subseteq carried(s)
     /\ \A s \in UnseenRows : s \in past \/ required(s) = {}
     /\ \A s \in past : RelevantFolds(rec[s]) # {} /\ Listed(Policy(ActiveRules(AllRows), "required-stamps"), rec[s])
          => s \in UnseenRows

(* A view none of whose parents was ever defined again can be served: the   *)
(* parent had to be there first (create_view).                              *)
ViewsResolve ==
  LET once == {n \in DOMAIN ViewDefinitions : Cardinality({s \in ToSet(ViewRows) : rec[s].name = n}) = 1}
  IN once = DOMAIN ViewDefinitions => \A n \in once : ExecuteView(n) # Endless

(* The views mean the record, whatever was read, kept and killed before.    *)
ViewsAreTheRecord ==
  /\ MemoIsFold /\ LatestWins /\ OneRowInForce /\ ChainsCoverEffects
  /\ StampsAreOfTheHead /\ LackTellsWhoWroteIt /\ ViewsResolve
=============================================================================
