---------------------------- MODULE MCAuthority ----------------------------
(* Who may do what, for TLC: the grants under the tree of spaces and, apart *)
(* from them, the sweep of a late law, the law about the law, the founding, *)
(* and one act at the door, a topic at a time.  A behaviour is one of these *)
(* parts.  The grants keep their initial state in the others, whose         *)
(* variables are v1..v7 in the order their modules declare them.            *)
EXTENDS Attenuation, Sequences, TLC

CONSTANTS alice, bob, clerk, doc, mother, a, b, open, g1, g2

VARIABLES part, v1, v2, v3, v4, v5, v6, v7

bank == <<v1, v2, v3, v4, v5, v6, v7>>
all  == <<part, vars, bank>>

Unused == << >>

(* Grants: two accounts and two inner spaces, which play the same role; the *)
(* role is there while one of the two spaces is not founded.                *)
ActionNames == {"CREATE-SPACE", "CREATE-ROLE", "hold", "read", AnyOther}
InfoNames   == {doc, clerk, AnyOther}

Reading  == [actions |-> {"read"}, info |-> {doc}]
Keeping  == [actions |-> {"hold", "CREATE-SPACE"}, info |-> {clerk, doc}]
Proposals == {Reading, Keeping}

Interchangeable == Permutations({alice, bob}) \cup Permutations({a, b})

(* The sweep: a founder and two accounts, laws that arrive late; and, each   *)
(* after its own opening, what became of an act refused because its actor   *)
(* was barred or the root was elsewhere, and two laws in a row, of which    *)
(* the second fells a grant decided after the first.                        *)
Seen(k)      == [kind |-> k]
SeenOf(k, of) == [kind |-> k, of |-> of]
Opening ==
  [sweep   |-> << >>,
   refusal |-> <<Seen("grant"), Seen("law"), Seen("refused")>>,
   handed  |-> <<Seen("handover"), Seen("refused"), Seen("handover"), Seen("handover"), Seen("law")>>,
   later   |-> <<SeenOf("grant", "a"), SeenOf("grant", "b"), SeenOf("do", "b"),
                 SeenOf("law", "c"), SeenOf("law", "a")>>]
Sweeps == DOMAIN Opening

OpensAs(topic, rec) ==
  \A n \in DOMAIN rec \cap DOMAIN Opening[topic] :
    \A f \in DOMAIN Opening[topic][n] : rec[n][f] = Opening[topic][n][f]

Sweep(topic) == INSTANCE Reconcile WITH
  rec <- v1, now <- v2, sweep <- v3, queue <- v4, crashed <- v5,
  Accounts <- {Root} \cup (IF topic = "later" THEN {"a", "b", "c"} ELSE {alice, bob}), Founder <- Root,
  Kinds <- {"do", "grant", "law"} \cup (IF topic \in {"sweep", "handed"} THEN {"handover"} ELSE {}),
  MaxRec <- IF topic = "sweep" THEN 4 ELSE 5, MaxTime <- IF topic = "later" THEN 2 ELSE 1,
  MaxQueue <- IF topic = "sweep" THEN 1 ELSE 0,
  MaxRefusals <- IF topic \in {"refusal", "handed"} THEN 1 ELSE 0,
  Crashes <- topic = "sweep"

(* The law: an operation made here, an owner's and a constitutional one.    *)
Law == INSTANCE Constitution WITH
  defs <- v1, registry <- v2, stores <- v3, rules <- v4, master <- v5, pack <- v6, acts <- v7,
  Other <- "other", Ops <- {"made", "owned", "fixed"},
  OpTier <- ("made" :> None) @@ ("owned" :> "owner") @@ ("fixed" :> "constitutional"),
  RuleIds <- {1, 2}, FixedRule <- 2, Levels <- {"a", "b"}, Floor <- {"a"}, MaxActs <- 3

(* The founding: a pack of nine records, with and without a version, and    *)
(* others that differ from it by one fault or one record.                   *)
FoundBy(act, obj, more) == more @@ [act |-> act, obj |-> obj]
Nothing == [x \in {} |-> None]
Designation == FoundBy("FOUND-STORE", "store", Nothing)
Recorder  == FoundBy("CREATE-ACTOR", "SYSTEM", [class |-> "system"])
OwnerRow  == FoundBy("CREATE-ACTOR", "owner", [class |-> "human"])
RobotRow  == FoundBy("CREATE-ACTOR", "robot", [class |-> "robot"])
AnnexRow  == FoundBy("CREATE-INFO", "annex", Nothing)
TunnelRow == FoundBy("CREATE-TUNNEL", "tunnel", [refs |-> {"owner", "SYSTEM"}])
SpaceRow  == FoundBy("CREATE-INFO", "space", Nothing)
ClassRow  == FoundBy("CLASSES", "classes", [classes |-> {"human", "ai"}])
LawRow    == FoundBy("CREATE-RULE", "CELL-LAW", [refs |-> {"space"}])
GrantRow  == FoundBy("GRANT", "grant", [refs |-> {"space"}])
OpRow(cell) == FoundBy("CREATE-OP", "op", [cell |-> cell])

PackOf(version, rows) == [version |-> version, recs |-> rows]
Head4 == <<Designation, Recorder, OwnerRow, TunnelRow>>
Tail3 == <<LawRow, OpRow("S"), GrantRow>>
FoundingPacks ==
  {PackOf(None, Head4 \o <<SpaceRow, ClassRow, GrantRow>>),
   PackOf(1, Head4 \o <<SpaceRow, ClassRow>> \o Tail3),
   PackOf(2, Head4 \o <<SpaceRow, ClassRow, OwnerRow>> \o Tail3),
   PackOf(3, <<Designation, Recorder, TunnelRow, OwnerRow, SpaceRow>> \o Tail3),
   PackOf(4, Head4 \o Tail3 \o <<SpaceRow>>),
   PackOf(5, <<Designation, OwnerRow, ClassRow, Recorder, SpaceRow>> \o Tail3),
   PackOf(6, Head4 \o <<SpaceRow, OpRow(None)>> \o Tail3),
   PackOf(7, Head4 \o <<SpaceRow, OpRow("T"), GrantRow>>),
   PackOf(8, <<Designation, Recorder, RobotRow, AnnexRow>>)}

Birth == INSTANCE Founding WITH
  store <- v1, pack <- v2, landed <- v3, at <- v4,
  Packs <- FoundingPacks, Cells <- {"S", "U"}, MaxLandings <- 2, MaxActs <- 1

ASSUME LawfulPacks == Birth!PacksAreFoundings

(* The door, one topic at a time: the acts of a topic and the calls that    *)
(* ask for them.                                                            *)
NoFields == [x \in {} |-> None]
Row(action, fields) == [action |-> action, actor |-> "SYSTEM"] @@ fields
By(who, action, fields) == [action |-> action, actor |-> who] @@ fields
Rule(id, fields) == By("u", "CREATE-RULE", [rule_id |-> id] @@ fields)
Op(action, fields) == Row(action, [name |-> "WRITE", kind |-> "op_definition"] @@ fields)
Pack(name, levels, caps) ==
  Row("AMEND-PACK", [kind |-> "category_pack", name |-> name, levels |-> levels, capabilities |-> caps])
Account(who, class) == Row("CREATE-ACCOUNT", [account_id |-> who, actor_class |-> class])
Nested(who, group) ==
  Row("CREATE-RELATIONSHIP", [geometry |-> "NS", subject |-> who, object |-> group])
MayNot(polarity, negated, then, scope) ==
  Rule("n", [polarity |-> polarity, when |-> {[action |-> "WRITE", negated |-> negated]},
             then |-> then, scope |-> scope])
Stage(id, stage) ==
  Rule(id, [policy_key |-> "held_stage", value |-> stage, scope |-> "a", text |-> "u"])
Receipt(fields) == Row("RECEIPT", fields)

Write == By("u", "WRITE", NoFields)
DoorActs ==
  [called |-> {Write},
   paired |-> {Write, Op("CREATE-OP", [cell |-> "S"]), Op("AMEND-OP", [cell |-> "U"]),
               Account("u", "ai"), Row("VERIFY-ACCOUNT", [account |-> "u", target |-> "human"]),
               Pack("actor-classes", {"ai", "human"},
                    [ai |-> {"structured-arm"}, human |-> {"structured-arm", "unstructured-arm"}])},
   grouped |-> {Row("CREATE-ACTOR", [actor_id |-> x]) : x \in {"u", "g"}}
               \cup {Nested("u", "g"), Nested("g", "u"), Nested("g", "g"), Nested("g", "root")},
   ruled |-> {MayNot("-", neg, {"refuse"}, sc) : neg \in BOOLEAN, sc \in {"mother", "a"}}
             \cup {MayNot("-", FALSE, {"refrain"}, sc) : sc \in {"mother", "a"}}
             \cup {MayNot("+", FALSE, {"refuse"}, "a")}
             \cup {Write, By("u", "WRITE", [space |-> "a"]), By("u", "WRITE", [space |-> "mother"])},
   met |-> {Stage("n", "decision"), Stage("n", "enforcement"), Stage("m", "enforcement"),
            Rule("n", NoFields), Receipt([rule_class |-> "DECISION"]),
            Receipt([held |-> {[actor |-> "u", stage |-> "monitoring", scope |-> "a"]}]),
            Receipt([held |-> {[actor |-> "v", stage |-> "decision", scope |-> "a"]}]),
            Receipt([leaves |-> {"root"}, level |-> "SHELLS"])}]
Longest == [called |-> 2, paired |-> 4, grouped |-> 5, ruled |-> 3, met |-> 4]

OfText == [name |-> "text"]
CallsOf(topic) ==
  IF topic # "called" THEN {OfText}
  ELSE LET values == {"empty", "text", "count", "negative", "text bytes", "bytes", "tagged", "object"}
       IN {NoFields} \cup {[name |-> v] : v \in values}
          \cup {OfText @@ (p :> v) : p \in {"size", "blob", "note", "ref"}, v \in values}

AtDoor(topic) == INSTANCE Door WITH
  rec <- v1, broken <- v2, cut <- v3,
  Acts <- DoorActs[topic], Calls <- CallsOf(topic), MaxRec <- Longest[topic],
  Required <- {"name"}, Anchors <- {"root"}, Mother <- "mother",
  Kind <- [name |-> "text", size |-> "quantity", blob |-> "bytes", note |-> "measurement"],
  Above <- [mother |-> {"mother"}, a |-> {"mother", "a"}]

Rest6 == <<v6, v7>>
Rest4 == <<v4, v5, Rest6>>

Late3 == v3 = Unused /\ v4 = Unused /\ v5 = Unused /\ v6 = Unused /\ v7 = Unused

MCInit ==
  /\ Init
  /\ \/ part = "grants" /\ v1 = Unused /\ v2 = Unused /\ Late3
     \/ \E topic \in Sweeps : part = topic /\ Sweep(topic)!Init /\ v6 = Unused /\ v7 = Unused
     \/ part = "law" /\ Law!Init
     \/ part = "founding" /\ Birth!Init /\ v5 = Unused /\ v6 = Unused /\ v7 = Unused
     \/ \E topic \in DOMAIN DoorActs : part = topic /\ AtDoor(topic)!Init /\ v4 = Unused
                                       /\ v5 = Unused /\ v6 = Unused /\ v7 = Unused

MCNext ==
  /\ UNCHANGED part
  /\ \/ /\ part = "grants" /\ Next /\ UNCHANGED bank
        /\ roles'[clerk] # None => None \in {parent'[a], parent'[b]}
     \/ UNCHANGED vars /\ \/ \E topic \in Sweeps :
                               /\ part = topic /\ Sweep(topic)!Next /\ UNCHANGED Rest6
                               /\ OpensAs(topic, v1')
                          \/ part = "law" /\ Law!Next
                          \/ part = "founding" /\ Birth!Next /\ UNCHANGED <<v5, Rest6>>
                          \/ \E topic \in DOMAIN DoorActs :
                               /\ part = topic /\ AtDoor(topic)!Next /\ UNCHANGED Rest4
                               /\ topic # "ruled" => UNCHANGED v3   \* no slice is cut

MCSpec == MCInit /\ [][MCNext]_all

-----------------------------------------------------------------------------
(* A late law's sweep lands whole, leaves no grant without a root, leaves   *)
(* nothing unlawful but what was refused, and every overturn says why.      *)
SweepIsExact ==
  \A topic \in Sweeps : part = topic => Sweep(topic)!SweepIsSound /\ Sweep(topic)!SweepIsComplete

(* The handlers a process holds are those the record replays to, and no     *)
(* sequence of amendments takes away what the founding protects; and the    *)
(* founding itself is whole, and not twice, however often it is cut short.  *)
LawIsWhatIsRecorded ==
  /\ part = "law" => Law!RegistryIsTheRecord /\ Law!ProtectionIsNeverLost
  /\ part = "founding" => Birth!FoundingIsWhole

(* What passed the door leaves the record writable, the groups grounded,    *)
(* the powers apart, and the slices and the census in agreement with it.    *)
DoorIsSound == \A topic \in DOMAIN DoorActs : part = topic => AtDoor(topic)!DoorIsSound
=============================================================================
