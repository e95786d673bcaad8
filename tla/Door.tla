-------------------------------- MODULE Door --------------------------------
(* One act at the gate (kernel/gate.py, Gate._decide): the call is held     *)
(* against its operation's parameters, the draft against the class of its   *)
(* actor, the tree of groups, what two bodies present when they meet, and   *)
(* the rules in force; the first that refuses is recorded as a refusal.     *)
(* What an actor may do at all is in Attenuation, the law about the law in  *)
(* Constitution.  Beside the door: the census of past acts, and the slice   *)
(* of the rules a session takes along (kernel/views.py).                    *)
EXTENDS Naturals, Sequences, FiniteSets, FiniteSetsExt

CONSTANTS None,
          Acts,      \* drafts, as an operation's handler makes them
          Calls,     \* the parameters a call may bring
          Required, Kind,   \* of the declared parameters
          Above,     \* space -> the spaces it is in, itself included
          Mother,    \* the space they are all in
          Anchors,   \* the accounts of the founding
          MaxRec     \* bound: length of the record

VARIABLES rec,
          broken,    \* the parameters that a write of the record failed on
          cut        \* the slice a session holds

vars == <<rec, broken, cut>>

Fold == INSTANCE Views WITH
  Drafts <- {}, Direct <- {}, ViewForms <- {}, Reads <- {}, generation <- 0, subsetGen <- None,
  memo <- None, seqs <- None, seen <- None, pending <- << >>, past <- {}

Get(e, field) == Fold!Get(e, field)
Prefix(n) == SubSeq(Fold!AllRows, 1, n)
Last(S) == IF S = {} THEN None ELSE rec[Max(S)]
Upto(n, action) == {s \in 1..n : rec[s].action = action}

-----------------------------------------------------------------------------
(* The call.  A value is what the door can tell of it; bytes that are not   *)
(* text, and an object, are what the record cannot be written with.         *)
Values == {"empty", "text", "count", "negative", "text bytes", "bytes", "tagged", "object"}
Raw == {"text bytes", "bytes"}
Recordable(v) == v \notin Raw \cup {"object"}
Encoded(v) == CASE v = "text bytes" -> "text" [] v = "bytes" -> "tagged" [] OTHER -> v

KindOf(p) == IF p \in DOMAIN Kind THEN Kind[p] ELSE "undeclared"
Carried(p, v) == IF KindOf(p) = "bytes" THEN Encoded(v) ELSE v

Malformed(p, v) ==
  \/ KindOf(p) = "quantity" /\ v # "count"
  \/ KindOf(p) = "text" /\ v \in Raw
  \/ KindOf(p) # "undeclared" /\ ~Recordable(Carried(p, v))

Nonconforming(call) ==
  \/ \E p \in Required : p \notin DOMAIN call \/ call[p] = "empty"
  \/ \E p \in DOMAIN call : Malformed(p, call[p])

Spoiled(call) == {p \in DOMAIN call : ~Recordable(Carried(p, call[p]))}

-----------------------------------------------------------------------------
(* Classes and cells.  Who may be the arm of an operation depends on the    *)
(* capabilities of the class and the cell the operation declares.           *)
Cells == {"S", "U", "U{s}", "S{u}"}
Recorders == {"SYSTEM"}
RequiredCapability(cell) == IF cell = "S" THEN "structured-arm" ELSE "unstructured-arm"

Capabilities(n) == Fold!ClassCapabilities(Prefix(n))
ClassDomain(n) ==
  LET packs == Fold!CategoryPacks(Prefix(n))
  IN IF "actor-classes" \in DOMAIN packs THEN rec[packs["actor-classes"]].levels ELSE {}
CellOf(n, op) == LET defs == Fold!OpDefinitions(Prefix(n))
                 IN IF op \in DOMAIN defs THEN Get(rec[defs[op]], "cell") ELSE None

LatestClassify(n, who) ==
  Last({s \in Upto(n, "VERIFY-ACCOUNT") : rec[s].account = who /\ rec[s].target # None})
Account(n, who) ==   \* no later account takes the place of an anchor
  IF who \in Anchors THEN Last({s \in Upto(n, "CREATE-ACTOR") : rec[s].actor_id = who})
  ELSE Last({s \in Upto(n, "CREATE-ACCOUNT") : rec[s].account_id = who})
ClassBand(n, who) ==
  LET classify == LatestClassify(n, who)
      band == IF classify # None THEN classify.target
              ELSE IF Account(n, who) # None THEN Get(Account(n, who), "actor_class") ELSE None
  IN IF band \in ClassDomain(n) THEN band ELSE None

Pair(n, class, cell) ==
  /\ cell \in Cells /\ class \in DOMAIN Capabilities(n)
  /\ RequiredCapability(cell) \in Capabilities(n)[class]

(* The door lets pass who has no band, and an operation with no cell.       *)
Paired(n, d) ==
  \/ d.actor \in Recorders \/ Get(d, "record_class") = "INPUT"
  \/ ClassBand(n, d.actor) = None \/ CellOf(n, d.action) \notin Cells
  \/ Pair(n, ClassBand(n, d.actor), CellOf(n, d.action))

(* No account is written with a class that is not declared.                 *)
UndeclaredClass(n, d) ==
  /\ d.action = "CREATE-ACCOUNT"
  /\ Get(d, "actor_class") \notin {None} \cup ClassDomain(n)

(* The census asks the same of every act of the record, by the law of now.  *)
PairingCensus ==
  LET n == Len(rec)
      considered == {s \in 1..n : /\ Get(rec[s], "actor") \notin Recorders
                                  /\ rec[s].action \in DOMAIN Fold!OpDefinitions(Prefix(n))}
  IN {s \in considered : ~Pair(n, ClassBand(n, rec[s].actor), CellOf(n, rec[s].action))}

-----------------------------------------------------------------------------
(* Groups.  A containment between two actors is an edge of the actor tree.  *)
Containments == {"NS", "EM"}
Established(n) ==
  {rec[s].actor_id : s \in Upto(n, "CREATE-ACTOR")}
  \cup {rec[s].account_id : s \in Upto(n, "CREATE-ACCOUNT")} \cup Anchors
EdgesAt(n, known) ==
  {<<rec[s].subject, rec[s].object>> :
     s \in {q \in Upto(n, "CREATE-RELATIONSHIP") :
              /\ rec[q].geometry \in Containments
              /\ {rec[q].subject, rec[q].object} \subseteq known}}
Edges(n) == EdgesAt(n, Established(n))

Nodes(edges) == {e[1] : e \in edges} \cup {e[2] : e \in edges}
(* What can be reached from a set of nodes by any number of edges.          *)
Reach(edges, from) ==
  LET on[k \in 0..Cardinality(edges)] ==
        IF k = 0 THEN from
        ELSE on[k - 1] \cup {e[2] : e \in {x \in edges : x[1] \in on[k - 1]}}
  IN on[Cardinality(edges)]
Ancestors(edges, who) == Reach(edges, {who})
Grounded(edges) == {x \in Nodes(edges) \cup Anchors : Ancestors(edges, x) \cap Anchors # {}}

TreeEdge(n, d) ==
  /\ Get(d, "geometry") \in Containments
  /\ {d.subject, d.object} \subseteq Established(n)
LoopsOnItself(n, d) == TreeEdge(n, d) /\ d.subject = d.object
Loops(n, d) == TreeEdge(n, d) /\ d.subject \in Ancestors(Edges(n), d.object)
Orphans(n, d) == TreeEdge(n, d) /\ d.object \notin Grounded(Edges(n))

-----------------------------------------------------------------------------
(* Two bodies meet: a receipt presents the stages the other holds, and the  *)
(* leaves it reveals at a level of disclosure.                              *)
Powers == {"decision", "enforcement", "monitoring"}
Levels == <<"HASHES-ONLY", "SHELLS", "FULL">>
Leaves(level) ==
  CASE level = "HASHES-ONLY" -> {"root"}
    [] level = "SHELLS" -> {"root", "members"}
    [] level = "FULL"   -> {"root", "members", "rows"}

HeldStages(n) ==
  LET live == Fold!ActiveRules(Prefix(n))
  IN {[actor |-> rec[s].text, stage |-> rec[s].value, scope |-> rec[s].scope] :
        s \in {q \in {live[r] : r \in DOMAIN live} :
                 rec[q].action = "CREATE-RULE" /\ Get(rec[q], "policy_key") = "held_stage"}}
StageScopes(held) == {<<h.stage, h.scope>> : h \in held}
DoubleClaims(here, there) == StageScopes(here) \cap StageScopes(there)
Concentrated(held) ==
  {h \in held : Powers \subseteq {g.stage : g \in {x \in held : x.actor = h.actor /\ x.scope = h.scope}}}

Presents(d, field) == d.action = "RECEIPT" /\ Get(d, field) # None
OverOrUnderDisclosed(d) == Presents(d, "leaves") /\ Get(d, "level") # None /\ d.leaves # Leaves(d.level)
ClaimsTwice(n, d) == Presents(d, "held") /\ DoubleClaims(HeldStages(n), d.held) # {}
Concentrates(n, d) == Presents(d, "held") /\ Concentrated(HeldStages(n) \cup d.held) # {}
LandsAsDecision(d) == Presents(d, "rule_class") /\ d.rule_class # "INPUT"

AdmittedLevel(passed, ceiling) ==   \* ceiling: a place in Levels
  IF passed = {} THEN None ELSE Min({Min({Cardinality(passed), Len(Levels)}), ceiling})

-----------------------------------------------------------------------------
(* The rules in force.  A must-not binds in its scope and below; it refuses *)
(* a draft that its patterns match, if one of its steps says so.            *)
Reaches(scope, space) == scope \in Above[space]
ScopeOf(r) == IF Get(r, "scope") # None THEN r.scope
              ELSE IF Get(r, "space") # None THEN r.space ELSE Mother
ActSpace(d) == IF Get(d, "scope") # None THEN d.scope
               ELSE IF Get(d, "space") # None THEN d.space ELSE Mother

Matches(d, when) == \A p \in when : ((p.action = d.action) = ~p.negated)
MustNot(r) == Get(r, "polarity") = "-" /\ Get(r, "when") \notin {None, {}}
Binding(n) == LET active == Fold!ActiveRules(Prefix(n)) IN {active[i] : i \in DOMAIN active}
ForbiddenBy(n, d) ==
  {s \in Binding(n) : /\ MustNot(rec[s]) /\ Matches(d, rec[s].when)
                      /\ Reaches(ScopeOf(rec[s]), ActSpace(d)) /\ "refuse" \in rec[s].then}

(* The slice: the must-nots that reach the session's space, and the head of *)
(* the record they were cut at.                                             *)
CutSlice(space) ==
  /\ cut' = [space |-> space, at |-> Len(rec),
             mustNots |-> {s \in Binding(Len(rec)) :
                             Get(rec[s], "polarity") = "-" /\ Reaches(ScopeOf(rec[s]), space)}]
  /\ UNCHANGED <<rec, broken>>

SliceStale == cut.at # Len(rec)

OfflineSpace(d) == IF Get(d, "scope") # None THEN d.scope
                   ELSE IF Get(d, "space") # None THEN d.space ELSE cut.space
RefusedOffline(d) ==
  \E s \in cut.mustNots : /\ MustNot(rec[s]) /\ Matches(d, rec[s].when)
                          /\ Reaches(ScopeOf(rec[s]), OfflineSpace(d))

-----------------------------------------------------------------------------
(* The steps of the decision, in their order.                               *)
Steps(n, d, call) ==
  << [cite |-> "AR-2",         refuses |-> Nonconforming(call)],
     [cite |-> "CAP-IS-LAW",   refuses |-> UndeclaredClass(n, d)],
     [cite |-> "CELL-LAW",     refuses |-> ~Paired(n, d)],
     [cite |-> "BOOT-INT",     refuses |-> Loops(n, d)],
     [cite |-> "CAP-IS-LAW",   refuses |-> Orphans(n, d)],
     [cite |-> "RECEIPT",      refuses |-> LandsAsDecision(d) \/ OverOrUnderDisclosed(d)],
     [cite |-> "I8",           refuses |-> ClaimsTwice(n, d)],
     [cite |-> "SOP",          refuses |-> Concentrates(n, d)],
     [cite |-> "law",          refuses |-> ForbiddenBy(n, d) # {}] >>

Cite(n, d, call) ==
  LET hits == {k \in DOMAIN Steps(n, d, call) : Steps(n, d, call)[k].refuses}
  IN IF hits = {} THEN None ELSE Steps(n, d, call)[Min(hits)].cite

(* A refusal of the call records no parameter, a later one the draft.  The  *)
(* record takes nothing any more once a write failed.                       *)
Decide(d, call) ==
  LET cite    == Cite(Len(rec), d, call)
      row     == IF cite = None THEN d ELSE [action |-> "op-refused", actor |-> "SYSTEM", cite |-> cite]
      spoiled == IF cite = "AR-2" THEN {} ELSE Spoiled(call)
  IN /\ broken = {} /\ Len(rec) < MaxRec
     /\ broken' = spoiled
     /\ rec' = IF spoiled = {} THEN Append(rec, row) ELSE rec
     /\ UNCHANGED cut

Init == rec = << >> /\ broken = {} /\ cut = None

Next ==
  \/ \E d \in Acts, call \in Calls : Decide(d, call)
  \/ \E space \in DOMAIN Above : CutSlice(space)

Spec == Init /\ [][Next]_vars

-----------------------------------------------------------------------------
(* A write of the record fails on no parameter with a declared kind (gate:  *)
(* "a malformed call is a refusal at the door, not a store poisoning").     *)
NoDeclaredPoison == \A p \in broken : KindOf(p) = "undeclared"

(* The edges whose two actors were there when the edge was made have no     *)
(* loop, and each of their groups goes back to an anchor: what is made      *)
(* later can be neither, whatever else was recorded in between.             *)
TimelyEdges ==
  {<<rec[s].subject, rec[s].object>> :
     s \in {q \in Upto(Len(rec), "CREATE-RELATIONSHIP") : TreeEdge(q - 1, rec[q])}}
GroupsAreGrounded ==
  /\ \A e \in TimelyEdges : e[1] \notin Ancestors(TimelyEdges, e[2])
  /\ \A e \in TimelyEdges : e[2] \in Grounded(Edges(Len(rec)))

(* An act the census would refuse by the law of now passed the door because *)
(* the class, the cell or the capabilities were others, or were not there.  *)
CensusFindsChange ==
  \A s \in PairingCensus :
    LET now == Len(rec)
        who == rec[s].actor
        op  == rec[s].action
    IN \/ ClassBand(s - 1, who) = None \/ ClassBand(s - 1, who) # ClassBand(now, who)
       \/ CellOf(s - 1, op) \notin Cells \/ CellOf(s - 1, op) # CellOf(now, op)
       \/ Capabilities(s - 1) # Capabilities(now)
       \/ Get(rec[s], "record_class") = "INPUT"

(* What a session refuses by a slice that is not stale, of an act that      *)
(* names its space, the gate would refuse too, if the rule has a step that  *)
(* refuses; and it defers no act of its space that the gate would refuse.   *)
SliceAgreesWithTheGate ==
  cut # None /\ ~SliceStale =>
    \A d \in Acts :
      /\ /\ RefusedOffline(d) /\ (Get(d, "scope") # None \/ Get(d, "space") # None)
         /\ \A s \in cut.mustNots : "refuse" \in Get(rec[s], "then")
         => ForbiddenBy(Len(rec), d) # {}
      /\ ActSpace(d) = cut.space /\ ForbiddenBy(Len(rec), d) # {} => RefusedOffline(d)

(* A meeting on the record left no stage of a scope with both bodies and no *)
(* actor with the three powers, as both then stood; and what it admits      *)
(* grows with the checks that passed and never above what was shown.        *)
MeetingsAreSeparate ==
  /\ \A s \in Upto(Len(rec), "RECEIPT") : Presents(rec[s], "held") =>
       /\ DoubleClaims(HeldStages(s - 1), rec[s].held) = {}
       /\ Concentrated(HeldStages(s - 1) \cup rec[s].held) = {}
  /\ \A p, q \in SUBSET {"who", "body", "memory_sane"}, c, e \in 1..Len(Levels) :
       /\ AdmittedLevel(p, c) = None <=> p = {}
       /\ p # {} /\ p \subseteq q /\ c <= e => AdmittedLevel(p, c) <= Min({c, AdmittedLevel(q, e)})

DoorIsSound ==
  /\ NoDeclaredPoison /\ GroupsAreGrounded /\ CensusFindsChange
  /\ SliceAgreesWithTheGate /\ MeetingsAreSeparate
=============================================================================
