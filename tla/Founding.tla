------------------------------- MODULE Founding ------------------------------
(* The founding (founding/install.py): a pack of records is read, validated *)
(* whole in its own order, and appended one by one to a store that is not   *)
(* founded yet.  The process may stop between any two of them; the next     *)
(* open decides by what it finds, and the engine may come with another pack *)
(* by then.                                                                 *)
EXTENDS Naturals, Sequences, FiniteSets

CONSTANTS Packs,   \* packs: [version, recs]
          Cells,   \* the cells an operation may have
          MaxLandings, \* bound: designations in the store
          MaxActs,     \* bound: acts of the open world
          None

VARIABLES store,   \* rows: a record of a pack and the version it stamps
          pack,    \* the engine's pack
          landed,  \* records of it appended by the install in hand
          at       \* "closed", "installing", "refused", "open"

vars == <<store, pack, landed, at>>

Init == store = << >> /\ pack \in Packs /\ landed = 0 /\ at = "closed"

(* What the records before the n-th have founded.                           *)
Founded(recs, act, n) == {recs[k].obj : k \in {j \in 1..(n - 1) : recs[j].act = act}}
Actors(recs, n) == Founded(recs, "CREATE-ACTOR", n)
Spaces(recs, n) == Founded(recs, "CREATE-INFO", n)

(* The classes an actor may have: those of the last pack of classes before. *)
Domain(recs, n) == {k \in 1..(n - 1) : recs[k].act = "CLASSES"}
InDomain(recs, n) ==
  \A k \in Domain(recs, n) :
    (\A j \in Domain(recs, n) : j <= k) => recs[n].class \in recs[k].classes

(* A tunnel's ends, a root law's scope and a grant's space are founded by   *)
(* earlier records.                                                         *)
ReferencesResolve(recs, n) ==
  CASE recs[n].act = "CREATE-TUNNEL" -> recs[n].refs \subseteq Actors(recs, n)
    [] recs[n].act \in {"CREATE-RULE", "GRANT"} -> recs[n].refs \subseteq Spaces(recs, n)
    [] OTHER -> TRUE

(* The cell of an operation is well formed, and there under the cell law,   *)
(* wherever in the pack that law stands.                                    *)
HasCell(recs, n) ==
  recs[n].act = "CREATE-OP" =>
    /\ recs[n].cell \in Cells \cup {None}
    /\ (\E k \in 1..Len(recs) : recs[k].obj = "CELL-LAW") => recs[n].cell # None

Validate(recs) ==
  \A n \in 1..Len(recs) :
    /\ ReferencesResolve(recs, n) /\ HasCell(recs, n)
    /\ recs[n].act = "CREATE-ACTOR" => InDomain(recs, n)

----------------------------------------------------------------------------
FoundStores == {n \in 1..Len(store) : store[n].act = "FOUND-STORE"}
WorldVersion ==
  IF FoundStores = {} THEN None
  ELSE store[CHOOSE n \in FoundStores : \A m \in FoundStores : n <= m].stamp

OlderWorld == WorldVersion # None /\ WorldVersion # pack.version

(* By the pack's last record, its action and its object.                    *)
AlreadyFounded ==
  LET last == pack.recs[Len(pack.recs)]
  IN  \E n \in 1..Len(store) : store[n].act = last.act /\ store[n].obj = last.obj

Install ==
  /\ at = "closed" /\ (AlreadyFounded \/ OlderWorld \/ Cardinality(FoundStores) < MaxLandings)
  /\ at' = IF OlderWorld \/ AlreadyFounded THEN "open"
           ELSE IF Validate(pack.recs) THEN "installing" ELSE "refused"
  /\ landed' = 0 /\ UNCHANGED <<store, pack>>

(* The designation is stamped with the pack's version.                      *)
Stamped(r, version) ==
  [f \in DOMAIN r \cup {"stamp"} |->
     IF f # "stamp" THEN r[f] ELSE IF r.act = "FOUND-STORE" THEN version ELSE None]

Land ==
  /\ at = "installing"
  /\ store' = Append(store, Stamped(pack.recs[landed + 1], pack.version))
  /\ landed' = landed + 1
  /\ at' = IF landed + 1 = Len(pack.recs) THEN "open" ELSE at
  /\ UNCHANGED pack

Act ==
  /\ at = "open" /\ Cardinality({n \in 1..Len(store) : store[n].act = "ACT"}) < MaxActs
  /\ store' = Append(store, [act |-> "ACT", obj |-> None, stamp |-> None])
  /\ UNCHANGED <<pack, landed, at>>

(* The process ends, of itself or not, and starts with this pack or another.*)
Stop ==
  /\ at # "closed" /\ at' = "closed" /\ landed' = 0
  /\ pack' \in Packs /\ UNCHANGED store

Next == Install \/ Land \/ Act \/ Stop
Spec == Init /\ [][Next]_vars

----------------------------------------------------------------------------
(* A pack founds one store, by its first record, and its last record is not *)
(* another; no two packs have one version.                                  *)
Fields(act) ==
  {"act", "obj"} \cup (CASE act \in {"CREATE-TUNNEL", "CREATE-RULE", "GRANT"} -> {"refs"}
                         [] act = "CREATE-ACTOR" -> {"class"}
                         [] act = "CLASSES" -> {"classes"}
                         [] OTHER -> {})
PacksAreFoundings ==
  /\ \A p \in Packs :
       /\ Len(p.recs) \in Nat \ {0} /\ DOMAIN p.recs = 1..Len(p.recs)
       /\ \A k \in 1..Len(p.recs) :
            LET r == p.recs[k]
            IN  /\ Fields(r.act) \subseteq DOMAIN r /\ "stamp" \notin DOMAIN r
                /\ r.act = "FOUND-STORE" <=> k = 1
                /\ r.act # "ACT"
                /\ (r.act = p.recs[Len(p.recs)].act /\ r.obj = p.recs[Len(p.recs)].obj)
                     => k = Len(p.recs)
  /\ \A p, q \in Packs : p.version = q.version /\ p.version # None => p = q

RowsOf(recs, act) == {n \in 1..Len(recs) : recs[n].act = act}

(* A landing of the pack from the n-th row, whole.                          *)
LandedWhole(p, n) ==
  /\ n + Len(p.recs) - 1 <= Len(store)
  /\ \A k \in 1..Len(p.recs) :
       store[n + k - 1].act = p.recs[k].act /\ store[n + k - 1].obj = p.recs[k].obj

(* A world is founded whole and once: one that is open under the pack that  *)
(* founded it has all of it; after a founding that landed whole another     *)
(* lands only in a world whose first names no version, and then of another  *)
(* pack; whatever the cuts, a row refers to what was founded before it, and *)
(* an actor founded under a domain of classes is of one of them, or was     *)
(* there before it, or is of a later founding of such a world.              *)
FoundingIsWhole ==
  /\ (at = "open" /\ WorldVersion = pack.version /\ pack.version # None) =>
       \E n \in FoundStores : LandedWhole(pack, n)
  /\ \A n, m \in FoundStores, p \in Packs :
       (n < m /\ store[n].stamp # None /\ p.version = store[n].stamp /\ LandedWhole(p, n)) =>
         WorldVersion = None /\ store[m].stamp # store[n].stamp
  /\ \A n \in RowsOf(store, "CREATE-TUNNEL") : store[n].refs \subseteq Actors(store, n)
  /\ \A n \in RowsOf(store, "CREATE-RULE") \cup RowsOf(store, "GRANT") :
       store[n].refs \subseteq Spaces(store, n)
  /\ \A n \in RowsOf(store, "CREATE-ACTOR") : \A d \in Domain(store, n) :
       (\A e \in Domain(store, n) : e <= d) =>
         \/ store[n].class \in store[d].classes \/ store[n].obj \in Actors(store, d)
         \/ WorldVersion = None /\ \E f \in FoundStores : d < f /\ f < n
=============================================================================
