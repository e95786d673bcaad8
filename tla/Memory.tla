------------------------------- MODULE Memory -------------------------------
(* Memory regions under a budget: subsystems/memory.py and the MEM, budget  *)
(* and share operations of the founding pack.  The gate computes a holder's *)
(* total by the ceiling row; the view folds the mappings, and leaves out    *)
(* the rows a late law overturned.                                          *)
EXTENDS OpChecks, FiniteSets

CONSTANTS Holders, Actors, Regions, Sizes, MaxRec, MaxOverturned

VARIABLES rec, overturned     \* overturned: the seqs of overturned records
vars == <<rec, overturned>>

BudgetRow == [check |-> "ceiling", aggregate |-> "MEM-GRANT", remove |-> "MEM-EVICT",
              holder |-> "holder", key |-> "region", amount |-> "size"]

MemGrant ==
  [Plain("MEM-GRANT", {"region", "holder", "size", "prot"}) EXCEPT
     !.fromActor = {"holder"}, !.defaults = [prot |-> "rw"], !.checks = <<BudgetRow>>]
MemProtect  == Plain("MEM-PROTECT", {"region", "prot"})
MemEvict    == Plain("MEM-EVICT", {"region"})
AmendBudget == Plain("AMEND-BUDGET", {"holder", "ceiling"})

ShmGrant ==
  [Plain("SHM-GRANT", {"region"}) EXCEPT
     !.stamps = {"granter"},
     !.checks = <<[check |-> "require_prior", action |-> "MEM-GRANT", field |-> "region",
                   param |-> "region"],
                  [check |-> "live_present", open |-> "MEM-GRANT", close |-> "MEM-EVICT",
                   keys |-> {"region"}, closer |-> {}, present |-> {"region"}, self |-> {}]>>]

-----------------------------------------------------------------------------
(* The ceiling in force: the latest amendment of the holder's budget. *)
Ceiling(r) ==
  [h \in Holders |->
     LET named == Naming(r, "AMEND-BUDGET", "holder", h)
     IN  IF named = << >> THEN None ELSE Last(named).payload.ceiling]

(* The mapping table. *)
Mappings(r, gone) ==
  FoldLeft(LAMBDA m, n :
             LET e == r[n]
                 others == {x \in m : x.region # e.payload.region}
             IN  CASE e.action = "MEM-GRANT" ->
                        others \cup {[region |-> e.payload.region, holder |-> e.payload.holder,
                                      size |-> e.payload.size, prot |-> e.payload.prot]}
                   [] e.action = "MEM-PROTECT" ->
                        {IF x.region = e.payload.region THEN [x EXCEPT !.prot = e.payload.prot]
                         ELSE x : x \in m}
                   [] e.action = "MEM-EVICT" -> others
                   [] OTHER -> m,
           {}, SelectSeq([n \in DOMAIN r |-> n], LAMBDA n : n \notin gone))

ResidentSize(r, gone, h) ==
  FoldSet(LAMBDA x, n : n + x.size, 0, {x \in Mappings(r, gone) : x.holder = h})

-----------------------------------------------------------------------------
Do(op, d, actor, p) ==
  /\ Len(rec) < MaxRec
  /\ Admitted(rec, d, actor, p, Ceiling(rec))
  /\ rec' = Appended(rec, op, d, actor, p)
  /\ UNCHANGED overturned

Grant(a) ==
  \E g \in Regions, s \in Sizes :
     \/ Do("MEM-GRANT", MemGrant, a, [region |-> g, size |-> s])
     \/ \E h \in Holders : Do("MEM-GRANT", MemGrant, a, [region |-> g, size |-> s, holder |-> h])
Protect(a) == \E g \in Regions : Do("MEM-PROTECT", MemProtect, a, [region |-> g, prot |-> "r"])
Evict(a)   == \E g \in Regions : Do("MEM-EVICT", MemEvict, a, [region |-> g])
Amend(a)   == \E h \in Holders, s \in Sizes :
                Do("AMEND-BUDGET", AmendBudget, a, [holder |-> h, ceiling |-> s])
Share(a)   == \E g \in Regions : Do("SHM-GRANT", ShmGrant, a, [region |-> g])

(* A late law reaches an act: its row is overturned (module Reconcile). *)
Overturn ==
  /\ Cardinality(overturned) < MaxOverturned
  /\ \E n \in DOMAIN rec \ overturned :
       /\ rec[n].action \in {"MEM-GRANT", "MEM-EVICT"}
       /\ overturned' = overturned \cup {n}
  /\ UNCHANGED rec

Init == rec = << >> /\ overturned = {}
Next == \/ \E a \in Actors : Grant(a) \/ Protect(a) \/ Evict(a) \/ Amend(a) \/ Share(a)
        \/ Overturn
Spec == Init /\ [][Next]_vars

-----------------------------------------------------------------------------
(* While nothing was overturned, the two ways a holder's total is computed  *)
(* agree to the safe side, and a grant that is admitted leaves the holder's *)
(* resident total, as the view gives it, within the ceiling then in force,  *)
(* through grants over one another, evictions by others and new budgets.    *)
GrantsStayUnderCeiling ==
  overturned = {} =>
    /\ \A h \in Holders : ResidentSize(rec, {}, h) <= Total(Used(rec, BudgetRow, h))
    /\ \A n \in DOMAIN rec :
         LET upTo == SubSeq(rec, 1, n) IN
         rec[n].action = "MEM-GRANT" =>
           LET h == rec[n].payload.holder IN
           Ceiling(upTo)[h] # None => ResidentSize(upTo, {}, h) <= Ceiling(upTo)[h]

(* A share names a region that was mapped when it was shared, by the view.  *)
SharesAreOfMappedRegions ==
  overturned = {} =>
    \A n \in DOMAIN rec : rec[n].action = "SHM-GRANT" =>
      \E x \in Mappings(SubSeq(rec, 1, n - 1), {}) : x.region = rec[n].payload.region
=============================================================================
