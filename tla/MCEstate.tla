------------------------------ MODULE MCEstate ------------------------------
(* The acts of the estate and its body, for TLC.  A behaviour is one part:  *)
(* the checks that founded operations share, seen through the channels,     *)
(* memory, wire, devices and run queue that are made of them; the shape of  *)
(* a definition; the standing push; questions to the outside, whose record  *)
(* is that of Crossing; what crosses the border and what is observed of the *)
(* world; the post; the board; the disk, the frames and the waking of the   *)
(* body; the views of the record, a topic at a time.  The questions keep    *)
(* their initial record in the others, whose variables are b1..b11 in the   *)
(* order the modules declare them.                                          *)
EXTENDS Crossing, TLC

CONSTANTS fa, fb, lk, file  \* the names of the disk

VARIABLES part, b1, b2, b3, b4, b5, b6, b7, b8, b9, b10, b11

bank == <<b1, b2, b3, b4, b5, b6, b7, b8, b9, b10, b11>>
all  == <<part, rec, bank>>

Unused == << >>

(* Two entities and two channels between them.                              *)
Channels == INSTANCE Comms WITH
  rec <- b1, Entities <- {"al", "bo"}, Channels <- {"c1", "c2"}, MaxRec <- 6

(* Two holders, two regions; one record may be overturned.                  *)
Granted == INSTANCE Memory WITH
  rec <- b1, overturned <- b2, Holders <- {"h1", "h2"}, Actors <- {"h1"},
  Regions <- {"g1", "g2"}, Sizes <- {1, 2}, MaxRec <- 4, MaxOverturned <- 1

(* Two entities on a socket that two peers call, and a filter rule.         *)
Net == INSTANCE Wire WITH
  rec <- b1, socketCache <- b2, filterCache <- b3, Entities <- {"e1", "e2"},
  Sockets <- {"s1"}, Peers <- {"x1", "x2"}, Rules <- {"l1"}, MaxRec <- 7

(* A driver, a device, a window and an intake that two entities want.       *)
Driven == INSTANCE Devices WITH
  rec <- b1, Actors <- {"al"}, Drivers <- {"v1"}, DeviceIds <- {"x1"}, Windows <- {"w1"},
  Intakes <- {"i1"}, Entities <- {"al", "bo"}, Handles <- {"h1"}, MaxRec <- 8

(* A process that two causes wake, one of which is recorded as an input.    *)
Schedule == INSTANCE Runqueue WITH
  rec <- b1, inputs <- b2, Procs <- {"p1"}, Causes <- {"t7", "fx"}, Audited <- {"t7"},
  Actors <- {"al"}, MaxRec <- 5

(* Definitions that mint identities, with every default, and definitions of *)
(* up to two rows, over the names r, k1 in r and k2 in k1.                  *)
Params == {"a", "b", "c"}

Silent == [target |-> None, time |-> None, stream |-> None, misspelt |-> FALSE, act |-> None,
           writesPower |-> FALSE, kinds |-> << >>, cell |-> None]

Def(params, defaults, written, mints, checks, governed) ==
  [params |-> params, defaults |-> defaults, written |-> written, mints |-> mints,
   copies |-> << >>, fromCoordinate |-> FALSE, checks |-> checks, governed |-> governed,
   structural |-> Params, contentHome |-> {}, says |-> Silent]

Fillings(p) == [param : {p}, kind : {"static", "actor"}, of : {None}]
               \cup [param : {p}, kind : {"other"}, of : Params \ {p}]

MintDefs ==
  {Def(ps, ds, {"a"}, {"a"}, << >>, FALSE) :
     ps \in [Params -> {"required", "optional", "untaken"}],
     ds \in {<< >>} \cup {<<v>> : v \in Fillings("a")}
              \cup {<<v, w>> : v \in Fillings("a"), w \in Fillings("b")}
              \cup {<<w, v>> : v \in Fillings("a"), w \in Fillings("b")}}

Rows == INSTANCE OpShape WITH
  d <- b1, rec <- b2, Keys <- {"r", "k1", "k2"}, Root <- "r", ContainerOf <- << >>,
  Definitions <- {}, MaxRec <- 0

KeyRow(check, key, of, require, forbid, effect, gift) ==
  Rows!KeyRow(check, key, of, require, forbid, effect, gift)

Gifts == {None, [source |-> "literal", value |-> "dir"], [source |-> "param", value |-> "b"],
          [source |-> "from_key", value |-> "b"]}
BindingRows ==
  {KeyRow("binding", k, None, q, None, e, g) : k \in {"a", "b"}, q \in {None, "bound", "unbound"},
     e \in {None, "bind", "unbind"}, g \in Gifts}
  \cup {KeyRow("binding", "a", "container", "bound", None, None, None)}
OtherKeyRows ==
  {KeyRow("kind", k, of, "dir", None, None, None) : k \in {"a", "b"}, of \in {None, "container"}}
  \cup {KeyRow("kind", "a", None, None, "dir", None, None),
        KeyRow("contains", "a", None, "empty", None, None, None),
        Rows!OtherRow("prior_value", {"action", "field", "param", "value_field", "require"}, {"b"}),
        Rows!OtherRow("bound_field", {"action", "field", "key_param", "value_field", "param"}, {"b"}),
        Rows!OtherRow("value_domain", {"param"}, {"a"}),
        Rows!OtherRow("live_slot", {"open_action", "close_action", "instance_param"}, {"a"}),
        Rows!OtherRow("live_present", {"open_action", "close_action", "key_params", "present"}, {"b"}),
        Rows!OtherRow("fold_threshold", {"add_action", "key_param"}, {"a"})}

RowDefs ==
  {Def(("a" :> "required") @@ ("b" :> t) @@ ("c" :> "untaken"), << >>, w, {}, s, TRUE) :
     t \in {"optional", "untaken"}, w \in {{"a"}, {"a", "b"}},
     s \in {<<x>> : x \in BindingRows} \cup {<<x, y>> : x \in BindingRows \cup OtherKeyRows,
                                                     y \in BindingRows \cup OtherKeyRows}}

(* Definitions of what their envelope says.                                 *)
Routing(longhand, param, absent, strange) ==
  [longhand |-> longhand, param |-> param, absent |-> absent, strange |-> strange]

SayingDefs ==
  {[Def(("a" :> t) @@ ("b" :> "optional") @@ ("c" :> "untaken"), ds, {"a", "b"}, {}, << >>, FALSE)
      EXCEPT !.says = [Silent EXCEPT !.time = time, !.target = target,
                                     !.stream = stream, !.misspelt = m]] :
     t \in {"required", "optional"}, ds \in {<< >>, <<[param |-> "a", kind |-> "static", of |-> None]>>},
     time \in {None, Routing(FALSE, "a", None, FALSE), Routing(TRUE, None, None, FALSE)}
                \cup {Routing(TRUE, "a", absent, s) :
                        absent \in {None, "required", "default", "defualt"}, s \in BOOLEAN},
     target \in {None, Routing(FALSE, "a", None, FALSE), Routing(TRUE, "b", "default", FALSE)},
     stream \in {None, "law", "nameless"}, m \in BOOLEAN}
  \cup {[Def(("a" :> "required") @@ ("b" :> "optional") @@ ("c" :> "untaken"), << >>, {"a"}, {},
             << >>, FALSE)
           EXCEPT !.says = [Silent EXCEPT !.act = act, !.writesPower = w, !.kinds = kinds, !.cell = cell]] :
         act \in {None, "release", "relase"}, w \in BOOLEAN, cell \in {None, "S", "s"},
         kinds \in {<< >>, "a" :> "text", "c" :> "text", "a" :> "number"}}

Shape == INSTANCE OpShape WITH
  d <- b1, rec <- b2, Keys <- {"r", "k1", "k2"}, Root <- "r",
  ContainerOf <- ("r" :> "r") @@ ("k1" :> "r") @@ ("k2" :> "k1"),
  Definitions <- MintDefs \cup RowDefs \cup SayingDefs, MaxRec <- 1

(* One topic, two sessions, and two budgets: with and without a reserve.    *)
Limit(c, r, d, f) == [cycle |-> c, reserve |-> r, depth |-> d, first |-> f]

Pushed == INSTANCE Push WITH
  rec <- b1, engine <- b2, move <- b3, intake <- b4, moved <- b5, Topics <- {1}, Sessions <- {1, 2},
  Budgets <- {Limit(1, 1, 9, "law"), Limit(1, 0, 1, "law")},
  MaxRec <- 4, MaxWaiting <- 1, Infinite <- 9

(* Two objects with two values; a question may be asked again, or it may    *)
(* claim a deciding time.                                                   *)
Claimed == INSTANCE Crossing WITH Claims <- {2, 3}, MaxRec <- 5

(* The border: two parents, the second of their rules cites the first.      *)
Outside == INSTANCE Border WITH
  rec <- b1, receiving <- b2,
  Entities <- {"e", "f"}, Parents <- {"p", "q"}, Rules <- {"r1", "r2"},
  CitedBy <- ("r1" :> None) @@ ("r2" :> "r1"), RuleIds <- {"i", "j"}, MaxRec <- 4

(* A board that the founding leaves with two starts on x and one on y; a    *)
(* later line refers to one of two rulings, names the start it ends, says   *)
(* which of a pair is meant, or glues two events together.                  *)
At(text, item, date, kind) ==
  [text |-> text, item |-> item, date |-> date, kind |-> kind, ref |-> None, ended |-> None, pair |-> None]
RefTo(date, kind, digest) == [date |-> date, kind |-> kind, digest |-> digest]
Line(e) == [events |-> <<e>>, pin |-> "none"]
FoundedLine(e, seed) == [seed |-> seed] @@ Line(e)
Meaning(digest, ended) ==
  Line([At("d", "x", 1, "DISAMBIGUATED") EXCEPT !.ref = RefTo(2, "RULED", digest), !.ended = ended])
Corrects(text, ref) == Line([At(text, "x", 1, "CORRECTED") EXCEPT !.ref = ref])
Glued(pin) == [events |-> <<At("r3", "x", 2, "RULED"), At("h3", "x", 1, "HELD")>>, pin |-> pin]

Minutes == INSTANCE Board WITH
  log <- b1, founded <- b2, MaxLines <- 3,
  Foundings <-
    << <<FoundedLine(At("h", "x", 1, "HELD"), TRUE), FoundedLine(At("o", "x", 1, "OWED"), TRUE)>>,
       <<FoundedLine(At("s", "y", 1, "STOPPED"), FALSE), FoundedLine(At("h", "x", 1, "HELD"), TRUE)>> >>,
  Lines <-
    {Line(At("r", "x", 2, "RULED")), Line(At("r2", "x", 2, "RULED")), Line(At("h2", "x", 1, "HELD")),
     Line(At("n", "x", 2, "NOTED")), Corrects("c", RefTo(1, "HELD", None)),
     Corrects("c2", RefTo(2, "RULED", None)), Glued("as it is"), Glued("none"),
     Line([At("p", "y", 1, "STOPPED") EXCEPT !.pair = [item |-> "x"] @@ RefTo(2, "RULED", None)])}
    \cup {Meaning(None, end) : end \in {"HELD", "OWED"}}
    \cup {Meaning({"r"}, "OWED"), Meaning({"r2"}, "HELD"), Meaning({"r", "r2"}, "HELD")}

(* Two plain names and a lock, three free entries, sectors of two bytes; an *)
(* exposed disk is not followed, nor the fourth act after a power cut or a  *)
(* failure that left the disk other than it was.                            *)
Platter == INSTANCE Disk WITH
  ram <- b1, disk <- b2, op <- b3, said <- b4, exposed <- b5, acts <- b6, crashes <- b7,
  firm <- b8, unheeded <- b9,
  Names <- {fa, fb, lk}, Locks <- {lk}, Slots <- 4, PerDir <- 2, Total <- 7,
  PerSector <- 2, Lengths <- {1, 2}, FixedRecord <- file, RecCap <- 1, MaxActs <- 4, MaxCrashes <- 1,
  MaxUnheeded <- 1

(* Ten frames, two enclosures.                                              *)
Paged == INSTANCE Frames WITH
  used <- b1, free <- b2, map <- b3, active <- b4, brk <- b5, nextMap <- b6, heap <- b7, acts <- b8,
  NFrames <- 10, Reserved <- {1}, BrkPages <- 3, MapPages <- 4, PerTable <- 3,
  Enclosures <- {"interp", "worker"}, UnmapsActive <- TRUE, HeapSize <- 6, MaxActs <- 5

(* Two bodies, each with an image: one world keeps the root key and seals   *)
(* while an engine or an image is damaged, the other binds, rotates and     *)
(* revokes system keys.                                                     *)
WakeDeeds == ("waking"  :> {"root-key", "anchor"}) @@
             ("marking" :> {"system-key", "system-rotate", "system-revoke"})
WakeRows == ("waking" :> 4) @@ ("marking" :> 6)
WakeDamages == ("waking" :> 1) @@ ("marking" :> 0)
Waking(topic) == INSTANCE Wake WITH
  rec <- b1, engine <- b2, wrong <- b3, running <- b4, signer <- b5, sealing <- b6, held <- b7,
  told <- b8, paired <- b9, damage <- b10,
  Bodies <- {"chip", "estate"}, Damages <- {"views"}, Deeds <- WakeDeeds[topic],
  MaxRec <- WakeRows[topic], MaxDamage <- WakeDamages[topic]

(* A seat that writes to two others, of which one has a session, under two  *)
(* configurations; behaviours with a round of wakes stop at one output,     *)
(* those with a crash at two.                                               *)
Open == [allowed |-> {<<"arc", "mgr">>, <<"arc", "ops">>}, sessions |-> {"mgr"}, enabled |-> TRUE]

Posted == INSTANCE Postman WITH
  transcript <- b1, log <- b2, saved <- b3, cfg <- b4, pc <- b5, st <- b6, todo <- b7, evs <- b8,
  queue <- b9, bell <- b10, crashes <- b11,
  Seats <- {"arc"}, Owner <- "owner", Oversized <- {}, Unended <- None, Unseen <- None,
  Outputs <- {None} \cup [to : {"mgr"}, body : {"x", "y"}] \cup [to : {"ops"}, body : {"x"}],
  Configs <- {Open, [Open EXCEPT !.allowed = {}, !.enabled = FALSE]},
  Cap <- 2, MaxOutputs <- 3, MaxWakes <- 1, MaxCrashes <- 1

SmallPost ==
  (b6.wakes > 0 \/ b3.wakes > 0 \/ \E n \in 1..Len(b2) : b2[n].seat = "postman")
    => Len(b1["arc"]) <= 1
FewOutputs == b11 > 0 => Len(b1["arc"]) <= 2

(* The views, a topic at a time, of folds that declare their rows and of    *)
(* those that do not: the rows of a topic and the folds it reads.           *)
NoFields == [x \in {} |-> None]
Row(action, fields) == [action |-> action, actor |-> "SYSTEM"] @@ fields
By(who, action, fields) == [action |-> action, actor |-> who] @@ fields
Rule(id, fields) == By("u", "CREATE-RULE", [rule_id |-> id] @@ fields)
OpRow(action, fields) == Row(action, [name |-> "WRITE", kind |-> "op_definition"] @@ fields)
Pack(name, levels, caps) ==
  Row("AMEND-PACK", [kind |-> "category_pack", name |-> name, levels |-> levels, capabilities |-> caps])
Relation(to) == Row("CREATE-RELATIONSHIP", [from |-> "u", to |-> to, rel_kind |-> "in"])
Stamped(class, folds) ==
  Rule("p", [policy_key |-> "required-stamps", value |-> [x \in class |-> folds]])
Caused(by, kind, n) == Row("EFFECT", [kind |-> kind] @@ (by :> n))
RuleAt(id, tier) == Rule(id, [tier |-> tier])
View(name, bind, when, derive) == [name |-> name, bind |-> bind, when |-> when, derive |-> derive]
Narrow(name, of, where) == View(name, None, NoFields, [from |-> of, where |-> where])
OnAction(a1) == [action |-> [want |-> a1, negated |-> FALSE]]
ViewActs ==
  [laws |-> {RuleAt("r", "ordinary"), RuleAt("r", "constitutional"), RuleAt("q", "ordinary"),
             OpRow("CREATE-OP", [rule_id |-> "WRITE"]), Row("RETIRE-OP", [name |-> "WRITE"])},
   packs |-> {Pack("actor-classes", {"a"}, [a |-> {"arm"}]), Pack("actor-classes", None, [a |-> {}]),
              Pack("other", {"b"}, None), By("u", "WRITE", NoFields)},
   items |-> {Row("CREATE-ACTOR", [actor_id |-> "u", actor_class |-> "human"]),
              Row("CREATE-ACTOR", [actor_id |-> "u", actor_class |-> "ai"]),
              Row("CREATE-ACTOR", [object |-> "u"]), Row("CREATE-INFO", [object |-> "i"]),
              Relation("g"), Relation("h"), [ended |-> TRUE] @@ Relation("g"),
              Row("CREATE-RELATIONSHIP", [rel_id |-> "x"])},
   effects |-> {Row("EFFECT", [kind |-> "handout"])}
               \cup {Caused("handout_seq", "answer", n) : n \in {1, 2}}
               \cup {Caused("parent_handout_seq", "handout", n) : n \in {1, 2}},
   stamps |-> {Stamped({"CREATE-OP"}, {"op_definitions"}),
               Stamped({"CREATE-OP", "CREATE-RULE"}, {"active_rules"}), Stamped({"CREATE-OP"}, {}),
               OpRow("CREATE-OP", NoFields)},
   forms |-> {Relation("g")}]
PastTheGate == {OpRow("CREATE-OP", NoFields), Row("RETIRE-OP", [name |-> "WRITE"])}
FormsOf(topic) ==
  IF topic # "forms" THEN {}
  ELSE UNION {{View(n, None, NoFields, None), View(n, None, OnAction("CREATE-RELATIONSHIP"), None),
               View(n, "active_rules", NoFields, None), View(n, "rules", NoFields, None)}
              \cup {Narrow(n, p, w) : p \in {"v", "w"}, w \in {[liveness |-> "old"], [scope_class |-> "all"]}}
                : n \in {"v", "w"}}
       \cup {View("v", "unknown", NoFields, None),
             View("v", None, [color |-> [want |-> "x", negated |-> FALSE]], None),
             Narrow("w", "v", [liveness |-> "old", scope_class |-> "all"]),
             Narrow("w", "v", [color |-> "old"])}
ReadsOf == [laws |-> {"active_rules", "old_rules", "op_definitions"},
            packs |-> {"category_packs", "class_capabilities"},
            items |-> {"old_items", "old_relationships"},
            effects |-> {"chains_of_effect"}, stamps |-> {"active_rules"}, forms |-> {}]

Folded(topic) == INSTANCE Views WITH
  rec <- b1, generation <- b2, subsetGen <- b3, memo <- b4, seqs <- b5, seen <- b6,
  pending <- b7, past <- b8,
  Drafts <- ViewActs[topic], Direct <- IF topic = "stamps" THEN PastTheGate ELSE {},
  ViewForms <- FormsOf(topic), Reads <- ReadsOf[topic],
  MaxRec <- IF topic \in {"effects", "stamps"} THEN 4 ELSE 3

(* The observer, with each kind of window; at most three changes elsewhere.  *)
Look(shown, rest) == [shown |-> shown, rest |-> rest]
WriteOf(kind, act) == [kind |-> kind, act |-> act, key |-> None, attrs |-> None, from |-> 0]
WindowsOf == [polled |-> <<"process", "device">>, mounted |-> <<"mount", "connection">>,
              watched |-> <<"file">>, reread |-> <<"record", "discovery">>]

Observed(topic) == INSTANCE Observe WITH
  world <- b1, events <- b2, memory <- b3, at <- b4, batch <- b5, rec <- b6, lost <- b7,
  again <- b8, moves <- b9, Windows <- WindowsOf[topic],
  Keys <- IF topic = "mounted" THEN {1} ELSE {1, 2},
  Looks <- [w \in {"process", "mount", "connection"} |-> {Look("x", "s"), Look("x", "t"), Look("y", "s")}]
           @@ [device |-> {Look("x", "s"), Look(None, "s")}],
  Elsewhere <- IF topic # "reread" THEN {}
               ELSE {WriteOf("act", "WRITE"), WriteOf("device-discovery", "present")},
  MaxRec <- IF topic = "reread" THEN 6 ELSE 4, MaxMoves <- IF topic = "watched" THEN 4 ELSE 3,
  Capacity <- 2

(* What plays the same role is named in an order: the object "o" first, and *)
(* with the value "v"; the entity "e", the parent "p" and the id "i" first; *)
(* the region "g1" first; "e1" first, after the founding; fa before fb.     *)
First(rows, kinds) ==
  {n \in 1..Len(rows) : rows[n].k \in kinds /\ \A m \in 1..(n - 1) : rows[m].k \notin kinds}
WritesInOrder(rows) == \A n \in First(rows, {"write"}) : rows[n].obj = "o" /\ rows[n].val = "v"
BorderInOrder(rows) ==
  /\ \A n \in First(rows, {"tunnel", "submit"}) :
       "e" = IF rows[n].k = "submit" THEN rows[n].of ELSE rows[n].id
  /\ \A n \in First(rows, {"declare", "withdraw"}) : rows[n].id = "p"
  /\ \A n \in First(rows, {"rule"}) : rows[n].id = "i"
RegionsInOrder(rows) ==
  LET Of(g) == {n \in 1..Len(rows) : "region" \in DOMAIN rows[n].payload /\ rows[n].payload.region = g}
  IN  \A n \in Of("g2") : \E m \in Of("g1") : m < n
OpensInOrder(rows) == Len(rows) > 3 => rows[4].actor = "e1"
FailsEarly(failures, cuts, sure, acts) == failures + cuts > 0 \/ ~sure => acts <= 3
NamesInOrder(table, acts) == acts <= 1 => \A i \in DOMAIN table : table[i].name # fb

Rest10 == <<b10, b11>>
Rest9 == <<b9, Rest10>>
Rest8 == <<b8, Rest9>>
Rest6 == <<b6, b7, Rest8>>
Rest4 == <<b4, b5, Rest6>>
Rest3 == <<b3, Rest4>>
Rest2 == <<b2, Rest3>>

Blank11 == b11 = Unused
Blank10 == b10 = Unused /\ Blank11
Blank9 == b9 = Unused /\ Blank10
Blank8 == b8 = Unused /\ Blank9
Blank6 == b6 = Unused /\ b7 = Unused /\ Blank8
Blank4 == b4 = Unused /\ b5 = Unused /\ Blank6
Blank3 == b3 = Unused /\ Blank4
Blank2 == b2 = Unused /\ Blank3
Blank  == b1 = Unused /\ Blank2

MCInit ==
  /\ Init
  /\ \/ part \in {"asked", "claimed"} /\ Blank
     \/ part = "channels" /\ Channels!Init /\ Blank2
     \/ part = "budget"   /\ Granted!Init /\ Blank3
     \/ part = "net"      /\ Net!Init /\ Blank4
     \/ part = "driven"   /\ Driven!Init /\ Blank2
     \/ part = "queue"    /\ Schedule!Init /\ Blank3
     \/ part = "shape"    /\ Shape!Init /\ Blank3
     \/ part = "pushed"   /\ Pushed!Init /\ Blank6
     \/ part = "border"   /\ Outside!Init /\ Blank3
     \/ part = "board"    /\ Minutes!Init /\ Blank3
     \/ part = "platter"  /\ Platter!Init /\ Blank10
     \/ part = "paged"    /\ Paged!Init /\ Blank9
     \/ \E topic \in DOMAIN WakeDeeds : part = topic /\ Waking(topic)!Init /\ Blank11
     \/ part = "posted"   /\ Posted!Init
     \/ \E topic \in DOMAIN ViewActs : part = topic /\ Folded(topic)!Init /\ Blank9
     \/ \E topic \in DOMAIN WindowsOf : part = topic /\ Observed(topic)!Init /\ b10 = Unused /\ Blank11

MCNext ==
  /\ UNCHANGED part
  /\ \/ part = "asked" /\ Next /\ UNCHANGED bank /\ WritesInOrder(rec')
     \/ part = "claimed" /\ Claimed!Next /\ UNCHANGED bank /\ WritesInOrder(rec')
     \/ /\ UNCHANGED rec
        /\ \/ part = "channels" /\ Channels!Next /\ UNCHANGED Rest2
           \/ part = "budget"   /\ Granted!Next /\ UNCHANGED Rest3 /\ RegionsInOrder(b1')
           \/ part = "net"      /\ Net!Next /\ UNCHANGED Rest4 /\ OpensInOrder(b1')
           \/ part = "driven"   /\ Driven!Next /\ UNCHANGED Rest2
           \/ part = "queue"    /\ Schedule!Next /\ UNCHANGED Rest3
           \/ part = "shape"    /\ Shape!Next /\ UNCHANGED Rest3
           \/ part = "pushed"   /\ Pushed!Next /\ UNCHANGED Rest6
           \/ part = "border"   /\ Outside!Next /\ UNCHANGED Rest3 /\ BorderInOrder(b1')
           \/ part = "board"    /\ Minutes!Next /\ UNCHANGED Rest3
           \/ part = "platter"  /\ Platter!Next /\ UNCHANGED Rest10 /\ ~b5'
                                 /\ NamesInOrder(b1'.dir, b6') /\ FailsEarly(b9', b7', b2' = b8', b6')
           \/ part = "paged"    /\ Paged!Next /\ UNCHANGED Rest9
           \/ \E topic \in DOMAIN WakeDeeds : part = topic /\ Waking(topic)!Next /\ UNCHANGED b11
           \/ part = "posted"   /\ SmallPost /\ Posted!Next /\ FewOutputs'
           \/ \E topic \in DOMAIN ViewActs : part = topic /\ Folded(topic)!Next /\ UNCHANGED Rest9
           \/ \E topic \in DOMAIN WindowsOf : part = topic /\ Observed(topic)!Next /\ UNCHANGED Rest10

MCSpec == MCInit /\ [][MCNext]_all

-----------------------------------------------------------------------------
(* The rows a subsystem shows mean what its record says: a slot taken is    *)
(* held by who opened it; grants stay under the ceiling; a row speaks of    *)
(* one opening; a device is driven under a live custody and handed over in  *)
(* a chain; no process of the run queue is lost.                            *)
RowsMeanTheRecord ==
  /\ part = "channels" => Channels!TakenSlotsAreHeld /\ Channels!LedgerIsHonest
  /\ part = "budget"   => Granted!GrantsStayUnderCeiling /\ Granted!SharesAreOfMappedRegions
  /\ part = "net"      => Net!RowsSpeakOfOneOpening /\ Net!TablesAreOfTheRecord
  /\ part = "driven"   => Driven!IoNeedsLiveCustody /\ Driven!HandoversChain
  /\ part = "queue"    => Schedule!NobodyIsLost

(* A definition the door admits runs as its rows say, in every call.        *)
RowsMeanWhatTheySay == part = "shape" => Shape!RowsMeanWhatTheySay

(* The worker's standing is what the record derives to.                     *)
StandingIsDerived == part = "pushed" => Pushed!StandingIsDerived

(* No step takes back what was settled: a closed question gets no late      *)
(* answer, no cycle takes the lane's reserve from what it is kept for, and  *)
(* a message with a receipt is not rung again.                              *)
SettledStaysSettled ==
  [][/\ ClosedStaysClosedStep
     /\ part = "posted" => Posted!NoSecondRing
     /\ part = "pushed" => Pushed!ReserveIsKeptStep]_all

(* What crossed the border stands on what this body then held; what it      *)
(* writes of the world is what it saw, each thing once and not itself; what *)
(* a seat writes is captured once, answered once, and never left lying.     *)
CrossingsAreGrounded ==
  /\ part = "border" => Outside!CrossingsAreGrounded
  /\ \A topic \in DOMAIN WindowsOf : part = topic => Observed(topic)!ObserverIsHonest
  /\ part = "posted" => Posted!PostIsKept

(* The board is what its log says: what is open was opened and not closed,  *)
(* nothing closed opens by itself, and the echo tells what a line changed.  *)
BoardIsItsLog == part = "board" => Minutes!BoardIsItsLog

(* The views mean the record, whatever was read, kept and killed before.    *)
ViewsAreTheRecord == \A topic \in DOMAIN ViewActs : part = topic => Folded(topic)!ViewsAreTheRecord

(* The disk keeps what it answered, across a power cut between any sectors  *)
(* that no unheeded failure came before; a frame has one owner and the      *)
(* allocator's count is its bitmap's.                                       *)
BodyKeepsItsOwn ==
  /\ part = "platter" => Platter!DiskIsSound
  /\ part = "paged" => Paged!FramesAreKept

(* A record is marked while a system key is bound, with a seed bound before *)
(* it; every wake is on the record; an agreement is between both bodies.    *)
BootIsHonest == \A topic \in DOMAIN WakeDeeds : part = topic => Waking(topic)!BootIsHonest
=============================================================================
