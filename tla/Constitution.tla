---------------------------- MODULE Constitution ----------------------------
(* Law as data: operations, rules, views and packs are records that acts    *)
(* amend, through the gate (kernel/gate.py) and the operation definitions   *)
(* (kernel/opdefs.py).  The constitution guard refuses the amendments that  *)
(* would take a protection away.  Operations are held twice: by the record, *)
(* and as handlers in the gate's registry, which a listener keeps up and a  *)
(* replay rebuilds.                                                         *)
EXTENDS Naturals, FiniteSets, TLAPS

CONSTANTS Root, Other,  \* actors: the holder of root authority and another
          Ops,          \* names of definition-born operations
          OpTier,       \* the tier a name was founded with; None: not founded
          RuleIds, FixedRule,  \* ids of rules, and a constitutional one
          Levels, Floor,       \* of a protected pack, and those it was founded with
          MaxActs,      \* bound: number of acts
          None

VARIABLES defs,      \* name -> the live definition of the record
          registry,  \* name -> the handler the gate holds
          stores,    \* what this process has attached: blob store, vault
          rules,     \* id -> the rule in force
          master,    \* the tier and version of a master view
          pack,      \* levels of the pack
          acts       \* how many acts were recorded

vars == <<defs, registry, stores, rules, master, pack, acts>>

Actors == {Root, Other}
Lifecycle == {"CREATE-RULE", "CREATE-OP", "AMEND-OP", "RETIRE-OP", "AMEND-PACK", "CREATE-VIEW"}
CitedBy(action) == IF action \in {"CREATE-RULE", "CREATE-VIEW"} THEN "ROOT-NEG-6" ELSE "CAP-IS-LAW"

(* A trigger is one pattern over an act, negated or not; a dimension it     *)
(* does not name is None.                                                   *)
Patterns ==
  [negated : BOOLEAN, action : {"CREATE-RULE", None}, actor : {Other, None},
   cited : {"ROOT-NEG-6", None}]
NoTrigger == [negated |-> FALSE, action |-> None, actor |-> None, cited |-> None]

Matches(p, actor, action) ==
  LET hit == /\ p.action \in {None, action} /\ p.actor \in {None, actor}
             /\ p.cited \in {None, CitedBy(action)}
  IN  hit # p.negated

(* Does a don't block the rules' own surface for everybody?                 *)
IsBlanketRuleBlock(p) ==
  IF ~ p.negated /\ p.actor # None THEN FALSE
  ELSE IF p.action = None /\ p.actor = None /\ p.cited = None THEN TRUE
  ELSE p.action # None /\ ~ p.negated /\ p.action \in Lifecycle

(* The full-form pass: rules of the whole tree that match an act refuse it. *)
RefusedByLaw(actor, action) ==
  \E i \in RuleIds : rules[i].dont /\ rules[i].system /\ Matches(rules[i].when, actor, action)

(* What a definition needs, and what a replay of the record would register. *)
Needs(kind) == CASE kind = "content" -> {"blobs"} [] kind = "secret" -> {"vault"} [] OTHER -> {}
Registered(d, st) == IF d = None \/ ~ (Needs(d.kind) \subseteq st) THEN None ELSE d.kind
Replay(ds, st) == [n \in Ops |-> Registered(ds[n], st)]

Kinds == {"plain", "content", "secret"}
Def(kind, tier) == [kind |-> kind, tier |-> tier]

----------------------------------------------------------------------------
Init ==
  /\ stores \in SUBSET {"blobs"}
  /\ defs = [n \in Ops |-> IF OpTier[n] = None THEN None ELSE Def("content", OpTier[n])]
  /\ registry = Replay(defs, stores)
  /\ rules = [i \in RuleIds |-> [dont |-> FALSE, system |-> FALSE, when |-> NoTrigger]]
  /\ master = [tier |-> "owner", version |-> 0]
  /\ pack = Floor /\ acts = 0

(* An act: the law in force first, then what the guard says of it.          *)
Act(actor, action) == acts < MaxActs /\ acts' = acts + 1 /\ ~ RefusedByLaw(actor, action)

(* Tiers: claimed by nobody but the root superseding its own, and conserved.*)
TierConserved(actor, n, claimed) ==
  /\ claimed # "constitutional"
  /\ claimed = "owner" => defs[n] # None /\ defs[n].tier = "owner" /\ actor = Root
  /\ (defs[n] # None /\ defs[n].tier # "ordinary") => claimed = defs[n].tier

(* Mutant: an amended operation keeps its handler. *)
KeepsHandler(n, d) ==
  /\ defs' = [defs EXCEPT ![n] = d]
  /\ registry' = [registry EXCEPT ![n] =
       IF d # None /\ @ # None THEN @ ELSE Registered(d, stores)]

(* The listener, on a definition recorded or retired: the old handler goes  *)
(* and the new one is registered if what it needs is attached.              *)
OnRecord(n, d) ==
  /\ defs' = [defs EXCEPT ![n] = d]
  /\ registry' = [registry EXCEPT ![n] = Registered(d, stores)]

CreateOp ==
  \E actor \in Actors, n \in Ops, kind \in Kinds :
    /\ registry[n] = None
    /\ Act(actor, "CREATE-OP") /\ TierConserved(actor, n, "ordinary")
    /\ OnRecord(n, Def(kind, "ordinary"))
    /\ UNCHANGED <<stores, rules, master, pack>>

(* The amendment claims the tier its operation has.                         *)
AmendOp ==
  \E actor \in Actors, n \in Ops, kind \in Kinds :
    /\ defs[n] # None /\ (kind = "content" => "blobs" \in stores)
    /\ Act(actor, "AMEND-OP") /\ TierConserved(actor, n, defs[n].tier)
    /\ OnRecord(n, Def(kind, defs[n].tier))
    /\ UNCHANGED <<stores, rules, master, pack>>

RetireOp ==
  \E actor \in Actors, n \in Ops :
    /\ defs[n] # None /\ defs[n].tier = "ordinary"
    /\ Act(actor, "RETIRE-OP")
    /\ OnRecord(n, None)
    /\ UNCHANGED <<stores, rules, master, pack>>

(* A rule: a don't over a pattern, for the whole tree or a part of it, or   *)
(* one that says nothing and so retires what had its id.                    *)
CreateRule ==
  \E actor \in Actors, i \in RuleIds, p \in Patterns, dont \in BOOLEAN, system \in BOOLEAN :
    /\ Act(actor, "CREATE-RULE")
    /\ i # FixedRule
    /\ ~ (dont /\ system /\ IsBlanketRuleBlock(p))
    /\ ~ dont => p = NoTrigger
    /\ rules' = [rules EXCEPT ![i] = [dont |-> dont, system |-> system, when |-> p]]
    /\ UNCHANGED <<defs, registry, stores, master, pack>>

(* A view claims no tier; the fold carries a protected view's across.       *)
CarriedTier(before) == IF before \in {"owner", "constitutional"} THEN before ELSE "ordinary"

CreateView ==
  \E actor \in Actors :
    /\ Act(actor, "CREATE-VIEW")
    /\ master.tier \in {"owner", "constitutional"} => actor = Root
    /\ master' = [tier |-> CarriedTier(master.tier), version |-> master.version + 1]
    /\ UNCHANGED <<defs, registry, stores, rules, pack>>

AmendPack ==
  \E actor \in Actors, levels \in SUBSET Levels :
    /\ Act(actor, "AMEND-PACK")
    /\ Floor \subseteq levels
    /\ pack' = levels
    /\ UNCHANGED <<defs, registry, stores, rules, master>>

(* The full kernel attaches its vault and replays what was pending.         *)
AttachVault ==
  /\ "vault" \notin stores /\ stores' = stores \cup {"vault"}
  /\ registry' = [n \in Ops |-> IF registry[n] # None THEN registry[n]
                                ELSE Registered(defs[n], stores')]
  /\ UNCHANGED <<defs, rules, master, pack, acts>>

(* A new process: a registry from the record, with what it attaches first.  *)
Restart ==
  \E st \in SUBSET {"blobs"} :
    /\ stores' = st /\ registry' = Replay(defs, st)
    /\ UNCHANGED <<defs, rules, master, pack, acts>>

Next ==
  \/ CreateOp \/ AmendOp \/ RetireOp \/ CreateRule \/ CreateView \/ AmendPack
  \/ AttachVault \/ Restart

Spec == Init /\ [][Next]_vars

----------------------------------------------------------------------------
(* The registry a process has kept up is the one the record replays to:     *)
(* operations pending for want of a store, amended while they were, retired *)
(* or founded again included.                                               *)
RegistryIsTheRecord == registry = Replay(defs, stores)

(* What is protected is lost by no sequence of acts: an operation founded   *)
(* with a protected tier is there and keeps it, a constitutional one as it  *)
(* was founded; the master view keeps its tier, the fixed rule its form,    *)
(* the pack its floor.                                                      *)
ProtectionIsNeverLost ==
  /\ \A n \in Ops : OpTier[n] \in {"owner", "constitutional"}
                     => defs[n] # None /\ defs[n].tier = OpTier[n]
  /\ \A n \in Ops : OpTier[n] = "constitutional" => defs[n].kind = "content"
  /\ Floor \subseteq pack
  /\ ~ rules[FixedRule].dont /\ master.tier = "owner"

----------------------------------------------------------------------------
(* Why the registry replays, and why protection stands.                     *)

(* What is recorded under a name, and what the acts that record it claim.   *)
Tiers == {"ordinary", "owner", "constitutional"}
Definitions == [kind : Kinds, tier : Tiers]
Rules == [dont : BOOLEAN, system : BOOLEAN, when : Patterns]

(* A name is founded with a tier or not at all; no definition is None, and  *)
(* the fixed rule is one of the rules.                                      *)
Founded ==
  /\ \A n \in Ops : OpTier[n] \in Tiers \cup {None}
  /\ None \notin Definitions \cup Tiers /\ FixedRule \in RuleIds

Typed ==
  /\ defs \in [Ops -> Definitions \cup {None}]
  /\ rules \in [RuleIds -> Rules]

IInv == Typed /\ RegistryIsTheRecord /\ ProtectionIsNeverLost

LEMMA InitIInv == ASSUME Founded PROVE Init => IInv
<1> SUFFICES ASSUME Founded, Init PROVE IInv OBVIOUS
<1>1. \A n \in Ops : defs[n] = IF OpTier[n] = None THEN None ELSE Def("content", OpTier[n])
  BY DEF Init
<1>2. \A n \in Ops : defs[n] \in Definitions \cup {None}
  <2>1. \A t \in Tiers : Def("content", t) \in Definitions BY DEF Def, Definitions, Kinds
  <2> QED BY <1>1, <2>1 DEF Founded
<1>3. Typed
  <2>1. defs \in [Ops -> Definitions \cup {None}] BY <1>2 DEF Init
  <2>2. [dont |-> FALSE, system |-> FALSE, when |-> NoTrigger] \in Rules
    BY DEF Rules, Patterns, NoTrigger
  <2>3. rules \in [RuleIds -> Rules] BY <2>2 DEF Init
  <2> QED BY <2>1, <2>3 DEF Typed
<1>4. RegistryIsTheRecord BY DEF Init, RegistryIsTheRecord
<1>5. ProtectionIsNeverLost
  <2>1. \A n \in Ops : OpTier[n] \in {"owner", "constitutional"} =>
          /\ OpTier[n] # None /\ Def("content", OpTier[n]) # None
          /\ Def("content", OpTier[n]).tier = OpTier[n] /\ Def("content", OpTier[n]).kind = "content"
    BY DEF Founded, Def, Definitions, Kinds, Tiers
  <2>2. ~ rules[FixedRule].dont BY DEF Init, Founded
  <2> QED BY <1>1, <2>1, <2>2 DEF Init, ProtectionIsNeverLost
<1> QED BY <1>3, <1>4, <1>5 DEF IInv

(* A definition recorded under a name leaves the registry a replay.         *)
LEMMA ListenerReplays ==
  ASSUME Typed, RegistryIsTheRecord, NEW n \in Ops, NEW d \in Definitions \cup {None},
         OnRecord(n, d), UNCHANGED <<stores, rules>>
  PROVE  /\ Typed' /\ RegistryIsTheRecord' /\ defs'[n] = d
         /\ \A m \in Ops \ {n} : defs'[m] = defs[m]
<1>1. /\ defs' = [defs EXCEPT ![n] = d] /\ defs \in [Ops -> Definitions \cup {None}]
      /\ registry' = [registry EXCEPT ![n] = Registered(d, stores)]
      /\ registry = [m \in Ops |-> Registered(defs[m], stores)]
  BY DEF OnRecord, Typed, RegistryIsTheRecord, Replay
<1>2. defs' \in [Ops -> Definitions \cup {None}] BY <1>1
<1>3. Typed' BY <1>2 DEF Typed
<1>4. defs'[n] = d /\ \A m \in Ops \ {n} : defs'[m] = defs[m] BY <1>1
<1>5. registry' = [m \in Ops |-> Registered(defs'[m], stores)] BY <1>1, <1>4
<1>6. RegistryIsTheRecord' BY <1>5 DEF RegistryIsTheRecord, Replay, Registered
<1> QED BY <1>3, <1>4, <1>6

LEMMA NextIInv == ASSUME Founded PROVE IInv /\ [Next]_vars => IInv'
<1> SUFFICES ASSUME Founded, IInv, [Next]_vars PROVE IInv' OBVIOUS
<1> USE DEF IInv
<1>1. /\ defs \in [Ops -> Definitions \cup {None}] /\ None \notin Definitions
      /\ FixedRule \in RuleIds
  BY DEF Typed, Founded
<1>2. ASSUME NEW n \in Ops, NEW d \in Definitions \cup {None}, OnRecord(n, d),
             UNCHANGED <<stores, rules, master, pack>>,
             OpTier[n] \in {"owner", "constitutional"} =>
               /\ d # None /\ d.tier = OpTier[n]
               /\ OpTier[n] = "constitutional" => d.kind = "content"
      PROVE  IInv'
  <2>1. /\ Typed' /\ RegistryIsTheRecord' /\ defs'[n] = d
        /\ \A m \in Ops \ {n} : defs'[m] = defs[m]
    BY <1>2, ListenerReplays
  <2>2. ProtectionIsNeverLost' BY <1>2, <2>1 DEF ProtectionIsNeverLost
  <2> QED BY <2>1, <2>2
<1>3. CASE CreateOp
  <2>1. PICK actor \in Actors, n \in Ops, kind \in Kinds :
          /\ TierConserved(actor, n, "ordinary") /\ OnRecord(n, Def(kind, "ordinary"))
          /\ UNCHANGED <<stores, rules, master, pack>>
    BY <1>3 DEF CreateOp
  <2>2. OpTier[n] \notin {"owner", "constitutional"}
    BY <2>1 DEF TierConserved, ProtectionIsNeverLost
  <2>3. Def(kind, "ordinary") \in Definitions BY DEF Def, Definitions, Tiers
  <2> QED BY <1>2, <2>1, <2>2, <2>3
<1>4. CASE AmendOp
  <2>1. PICK actor \in Actors, n \in Ops, kind \in Kinds :
          /\ defs[n] # None /\ TierConserved(actor, n, defs[n].tier)
          /\ OnRecord(n, Def(kind, defs[n].tier)) /\ UNCHANGED <<stores, rules, master, pack>>
    BY <1>4 DEF AmendOp
  <2>2. defs[n].tier \in Tiers /\ defs[n].tier # "constitutional"
    BY <1>1, <2>1 DEF Definitions, TierConserved
  <2> DEFINE d == Def(kind, defs[n].tier)
  <2>3. d \in Definitions /\ d.tier = defs[n].tier BY <2>2 DEF Def, Definitions
  <2>4. OpTier[n] \in {"owner", "constitutional"}
          => d.tier = OpTier[n] /\ OpTier[n] # "constitutional"
    BY <2>2, <2>3 DEF ProtectionIsNeverLost
  <2>5. OnRecord(n, d) BY <2>1
  <2> HIDE DEF d
  <2> QED BY <1>1, <1>2, <2>1, <2>3, <2>4, <2>5
<1>5. CASE RetireOp
  <2>1. PICK n \in Ops : /\ defs[n] # None /\ defs[n].tier = "ordinary" /\ OnRecord(n, None)
                         /\ UNCHANGED <<stores, rules, master, pack>>
    BY <1>5 DEF RetireOp
  <2>2. OpTier[n] \notin {"owner", "constitutional"} BY <2>1 DEF ProtectionIsNeverLost
  <2> QED BY <1>2, <2>1, <2>2
<1>6. CASE CreateRule
  <2>1. PICK i \in RuleIds, p \in Patterns, dont \in BOOLEAN, system \in BOOLEAN :
          /\ rules' = [rules EXCEPT ![i] = [dont |-> dont, system |-> system, when |-> p]]
          /\ i # FixedRule /\ UNCHANGED <<defs, registry, stores, master, pack>>
    BY <1>6 DEF CreateRule
  <2>2. [dont |-> dont, system |-> system, when |-> p] \in Rules BY DEF Rules
  <2>3. rules' \in [RuleIds -> Rules] /\ rules'[FixedRule] = rules[FixedRule]
    BY <1>1, <2>1, <2>2 DEF Typed
  <2>4. Typed' BY <2>1, <2>3 DEF Typed
  <2>5. RegistryIsTheRecord' BY <2>1 DEF RegistryIsTheRecord, Replay, Registered
  <2>6. ProtectionIsNeverLost' BY <2>1, <2>3 DEF ProtectionIsNeverLost
  <2> QED BY <2>4, <2>5, <2>6
<1>7. CASE CreateView
  <2>1. UNCHANGED <<defs, registry, stores, rules, pack>> /\ master'.tier = CarriedTier(master.tier)
    BY <1>7 DEF CreateView
  <2>2. Typed' /\ RegistryIsTheRecord'
    BY <2>1 DEF Typed, RegistryIsTheRecord, Replay, Registered
  <2>3. ProtectionIsNeverLost' BY <2>1 DEF ProtectionIsNeverLost, CarriedTier
  <2> QED BY <2>2, <2>3
<1>8. CASE AmendPack
  <2>1. UNCHANGED <<defs, registry, stores, rules, master>> /\ Floor \subseteq pack'
    BY <1>8 DEF AmendPack
  <2>2. Typed' /\ RegistryIsTheRecord'
    BY <2>1 DEF Typed, RegistryIsTheRecord, Replay, Registered
  <2>3. ProtectionIsNeverLost' BY <2>1 DEF ProtectionIsNeverLost
  <2> QED BY <2>2, <2>3
<1>9. CASE AttachVault
  <2>1. /\ UNCHANGED <<defs, rules, master, pack>> /\ stores \subseteq stores'
        /\ registry' = [n \in Ops |-> IF registry[n] # None THEN registry[n]
                                      ELSE Registered(defs[n], stores')]
    BY <1>9 DEF AttachVault
  <2>2. \A n \in Ops : registry[n] = Registered(defs[n], stores) BY DEF RegistryIsTheRecord, Replay
  <2>3. \A n \in Ops : registry[n] # None => Registered(defs[n], stores') = registry[n]
    BY <2>1, <2>2 DEF Registered
  <2>4. registry' = [n \in Ops |-> Registered(defs[n], stores')] BY <2>1, <2>3
  <2>5. RegistryIsTheRecord' BY <2>1, <2>4 DEF RegistryIsTheRecord, Replay, Registered
  <2>6. Typed' /\ ProtectionIsNeverLost' BY <2>1 DEF Typed, ProtectionIsNeverLost
  <2> QED BY <2>5, <2>6
<1>10. CASE Restart
  <2>1. registry' = Replay(defs, stores') /\ UNCHANGED <<defs, rules, master, pack>>
    BY <1>10 DEF Restart
  <2>2. RegistryIsTheRecord' BY <2>1 DEF RegistryIsTheRecord, Replay, Registered
  <2>3. Typed' /\ ProtectionIsNeverLost' BY <2>1 DEF Typed, ProtectionIsNeverLost
  <2> QED BY <2>2, <2>3
<1>11. CASE UNCHANGED vars
  BY <1>11 DEF vars, Typed, RegistryIsTheRecord, Replay, Registered, ProtectionIsNeverLost
<1> QED
  BY <1>3, <1>4, <1>5, <1>6, <1>7, <1>8, <1>9, <1>10, <1>11 DEF Next

(* The handlers a process holds are those the record replays to, whatever   *)
(* was founded, amended while it was pending, retired and founded again,    *)
(* whenever a store was attached and however often the process restarted.   *)
THEOREM RegistryReplays == ASSUME Founded PROVE Spec => []RegistryIsTheRecord
<1>1. Init => IInv BY InitIInv
<1>2. IInv /\ [Next]_vars => IInv' BY NextIInv
<1>3. IInv => RegistryIsTheRecord BY DEF IInv
<1> QED BY <1>1, <1>2, <1>3, PTL DEF Spec

(* No sequence of acts, of the root's or of anybody's, takes a protection   *)
(* away: a protected operation, the master view's tier, the fixed rule and  *)
(* the pack's floor outlive every amendment the guard lets through.         *)
THEOREM ProtectionStands == ASSUME Founded PROVE Spec => []ProtectionIsNeverLost
<1>1. Init => IInv BY InitIInv
<1>2. IInv /\ [Next]_vars => IInv' BY NextIInv
<1>3. IInv => ProtectionIsNeverLost BY DEF IInv
<1> QED BY <1>1, <1>2, <1>3, PTL DEF Spec
=============================================================================
