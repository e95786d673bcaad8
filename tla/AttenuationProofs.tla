-------------------------- MODULE AttenuationProofs --------------------------
(* Attenuation for every set of accounts, spaces, grants and roles, and the *)
(* founding, for any packs.                                                 *)
EXTENDS Attenuation, Sequences, TLAPS

-----------------------------------------------------------------------------
(* The founding: each row of the store is an act's or a row of a landing,   *)
(* which stands there from the designation on; a landing in hand is the end *)
(* of the store, its last record is nowhere before it, and the world it     *)
(* lands in names its version or none.                                      *)
CONSTANTS Packs, Cells, MaxLandings, MaxActs
VARIABLES store, pack, landed, at

Birth == INSTANCE Founding

ActRow == [act |-> "ACT", obj |-> None, stamp |-> None]
Landable(p, k) == Birth!Stamped(p.recs[k], p.version)
Rows == {ActRow} \cup UNION {{Landable(p, k) : k \in 1..Len(p.recs)} : p \in Packs}

(* The first rows of a pack stand in the store after the b-th row.          *)
Stands(st, p, b, k) ==
  /\ b \in Nat /\ b + k <= Len(st)
  /\ \A j \in 1..k : st[b + j] = Landable(p, j)

(* Every row is an act's or a pack's, with what came before it in the pack. *)
LandedOf(st, n, p, k) ==
  /\ k \in 1..Len(p.recs) /\ k <= n /\ Stands(st, p, n - k, k) /\ Birth!Validate(p.recs)
RowsAreLanded(st) ==
  \A n \in 1..Len(st) : st[n].act # "ACT" => \E p \in Packs, k \in Nat : LandedOf(st, n, p, k)

HasLast(st, p, n) ==
  \E m \in 1..n : st[m].act = p.recs[Len(p.recs)].act /\ st[m].obj = p.recs[Len(p.recs)].obj

FoundsOnce ==
  /\ store \in Seq(Rows) /\ pack \in Packs
  /\ at \in {"closed", "installing", "refused", "open"}
  /\ landed \in Nat

InHand ==
  at = "installing" =>
    /\ landed < Len(pack.recs) /\ landed <= Len(store) /\ Birth!Validate(pack.recs)
    /\ Stands(store, pack, Len(store) - landed, landed)
    /\ Birth!WorldVersion \in {None, pack.version}
    /\ ~ HasLast(store, pack, Len(store) - landed)

Opened ==
  at = "open" =>
    /\ store # << >>
    /\ (Birth!WorldVersion = pack.version /\ pack.version # None) =>
         \E n \in Birth!FoundStores : Birth!LandedWhole(pack, n)

FirstFounds == store # << >> => store[1].act = "FOUND-STORE"
OneVersion ==
  Birth!WorldVersion # None => \A f \in Birth!FoundStores : store[f].stamp = Birth!WorldVersion

LandsOnce ==
  \A n, m \in Birth!FoundStores, p \in Packs :
    (n < m /\ store[n].stamp # None /\ p.version = store[n].stamp /\ Birth!LandedWhole(p, n)) =>
      Birth!WorldVersion = None /\ store[m].stamp # store[n].stamp

Whole ==
  /\ FoundsOnce /\ RowsAreLanded(store) /\ InHand /\ Opened /\ FirstFounds /\ OneVersion /\ LandsOnce

-----------------------------------------------------------------------------
LEMMA LandableIs ==
  ASSUME Birth!PacksAreFoundings, NEW p \in Packs, NEW k \in 1..Len(p.recs)
  PROVE  /\ Len(p.recs) \in Nat \ {0}
         /\ Landable(p, k).act = p.recs[k].act /\ Landable(p, k).obj = p.recs[k].obj
         /\ Landable(p, k).act # "ACT"
         /\ Landable(p, k).act = "FOUND-STORE" <=> k = 1
         /\ Landable(p, 1).stamp = p.version
         /\ Landable(p, k).act \in {"CREATE-TUNNEL", "CREATE-RULE", "GRANT"} =>
              Landable(p, k).refs = p.recs[k].refs
         /\ Landable(p, k).act = "CREATE-ACTOR" => Landable(p, k).class = p.recs[k].class
         /\ Landable(p, k).act = "CLASSES" => Landable(p, k).classes = p.recs[k].classes
<1> DEFINE r == p.recs[k]
<1>1. /\ Len(p.recs) \in Nat \ {0}
      /\ Birth!Fields(r.act) \subseteq DOMAIN r /\ "stamp" \notin DOMAIN r
      /\ r.act = "FOUND-STORE" <=> k = 1
      /\ r.act # "ACT"
  BY DEF Birth!PacksAreFoundings
<1>2. \A f \in DOMAIN r : f # "stamp" => Landable(p, k)[f] = r[f]
  BY DEF Landable, Birth!Stamped
<1>3. "act" \in DOMAIN r /\ "obj" \in DOMAIN r BY <1>1 DEF Birth!Fields
<1>4. Landable(p, k)["act"] = r["act"] /\ Landable(p, k)["obj"] = r["obj"] BY <1>2, <1>3
<1>5. Landable(p, 1).stamp = p.version
  <2>1. 1 \in 1..Len(p.recs) BY <1>1
  <2>2. p.recs[1].act = "FOUND-STORE" BY <2>1 DEF Birth!PacksAreFoundings
  <2> QED BY <2>2 DEF Landable, Birth!Stamped
<1>6. r.act \in {"CREATE-TUNNEL", "CREATE-RULE", "GRANT"} => Landable(p, k)["refs"] = r["refs"]
  BY <1>1, <1>2 DEF Birth!Fields
<1>7. r.act = "CREATE-ACTOR" => Landable(p, k)["class"] = r["class"]
  BY <1>1, <1>2 DEF Birth!Fields
<1>8. r.act = "CLASSES" => Landable(p, k)["classes"] = r["classes"]
  BY <1>1, <1>2 DEF Birth!Fields
<1> QED BY <1>1, <1>4, <1>5, <1>6, <1>7, <1>8

VersionOf(st) ==
  LET founds == {n \in 1..Len(st) : st[n].act = "FOUND-STORE"}
  IN  IF founds = {} THEN None
      ELSE st[CHOOSE n \in founds : \A m \in founds : n <= m].stamp

LEMMA VersionIs ==
  ASSUME NEW st \in Seq(Rows), st # << >> => st[1].act = "FOUND-STORE"
  PROVE  VersionOf(st) = IF st = << >> THEN None ELSE st[1].stamp
<1> DEFINE founds == {n \in 1..Len(st) : st[n].act = "FOUND-STORE"}
<1>1. CASE st = << >>
  BY <1>1 DEF VersionOf
<1>2. CASE st # << >>
  <2>1. 1 \in founds /\ \A n \in founds : n \in Nat /\ 1 <= n
    BY <1>2
  <2> DEFINE c == CHOOSE n \in founds : \A m \in founds : n <= m
  <2>2. c \in founds /\ c <= 1 BY <2>1
  <2>3. c = 1 BY <2>1, <2>2
  <2> QED BY <1>2, <2>1, <2>3 DEF VersionOf
<1> QED BY <1>1, <1>2

LEMMA VersionsAre ==
  /\ Birth!WorldVersion = VersionOf(store)
  /\ Birth!WorldVersion' = VersionOf(store')
BY DEF Birth!WorldVersion, Birth!FoundStores, VersionOf

LEMMA StandsLonger ==
  ASSUME NEW st \in Seq(Rows), NEW e \in Rows, NEW p, NEW b, NEW k \in Nat, Stands(st, p, b, k)
  PROVE  Stands(Append(st, e), p, b, k)
BY DEF Stands

LEMMA LandedLonger ==
  ASSUME NEW st \in Seq(Rows), NEW e \in Rows, RowsAreLanded(st),
         e.act # "ACT" => \E p \in Packs, k \in Nat : LandedOf(Append(st, e), Len(st) + 1, p, k)
  PROVE  RowsAreLanded(Append(st, e))
<1> SUFFICES ASSUME NEW n \in 1..Len(Append(st, e)), Append(st, e)[n].act # "ACT"
             PROVE  \E p \in Packs, k \in Nat : LandedOf(Append(st, e), n, p, k)
  BY DEF RowsAreLanded
<1>1. CASE n = Len(st) + 1 BY <1>1
<1>2. CASE n # Len(st) + 1
  <2>1. n \in 1..Len(st) /\ Append(st, e)[n] = st[n] BY <1>2
  <2>2. PICK p \in Packs, k \in Nat : LandedOf(st, n, p, k) BY <2>1 DEF RowsAreLanded
  <2>3. LandedOf(Append(st, e), n, p, k) BY <2>2, StandsLonger DEF LandedOf
  <2> QED BY <2>3
<1> QED BY <1>1, <1>2

(* A row with the act and object of the pack's last is the end of a landing.*)
LEMMA LastIsWhole ==
  ASSUME Birth!PacksAreFoundings, NEW st \in Seq(Rows), NEW p \in Packs, NEW n \in 1..Len(st),
         NEW k \in Nat, LandedOf(st, n, p, k),
         st[n].act = p.recs[Len(p.recs)].act, st[n].obj = p.recs[Len(p.recs)].obj
  PROVE  k = Len(p.recs)
<1>1. k \in 1..Len(p.recs) /\ st[n - k + k] = Landable(p, k) /\ n - k + k = n
  <2>1. k \in 1..Len(p.recs) /\ n - k \in Nat /\ n \in Nat BY DEF LandedOf, Stands
  <2> QED BY <2>1 DEF LandedOf, Stands
<1>2. p.recs[k].act = st[n].act /\ p.recs[k].obj = st[n].obj BY <1>1, LandableIs
<1> QED BY <1>1, <1>2 DEF Birth!PacksAreFoundings

(* What stands begins with a designation of its version. *)
LEMMA StandsFounds ==
  ASSUME Birth!PacksAreFoundings, NEW st \in Seq(Rows), NEW p \in Packs, NEW b,
         NEW k \in 1..Len(p.recs), Stands(st, p, b, k)
  PROVE  /\ b + 1 \in 1..Len(st) /\ st[b + 1].act = "FOUND-STORE" /\ st[b + 1].stamp = p.version
         /\ \A j \in 2..k : st[b + j].act # "FOUND-STORE"
<1>1. Len(p.recs) \in Nat \ {0} /\ b \in Nat /\ k \in Nat /\ k >= 1 /\ Len(st) \in Nat
  BY LandableIs DEF Stands
<1>2. b + 1 \in 1..Len(st) /\ 1 \in 1..k BY <1>1 DEF Stands
<1>3. st[b + 1] = Landable(p, 1) BY <1>2 DEF Stands
<1>4. ASSUME NEW j \in 2..k PROVE st[b + j].act # "FOUND-STORE"
  <2>1. j \in 1..k /\ j \in 1..Len(p.recs) /\ j # 1 BY <1>1
  <2>2. st[b + j] = Landable(p, j) BY <2>1 DEF Stands
  <2> QED BY <2>1, <2>2, LandableIs
<1> QED BY <1>1, <1>2, <1>3, <1>4, LandableIs

LEMMA StandsWhole ==
  ASSUME Birth!PacksAreFoundings, store \in Seq(Rows), NEW p \in Packs, NEW b,
         Stands(store, p, b, Len(p.recs))
  PROVE  b + 1 \in Birth!FoundStores /\ Birth!LandedWhole(p, b + 1)
<1>1. Len(p.recs) \in Nat \ {0} /\ b \in Nat BY DEF Stands, Birth!PacksAreFoundings
<1>2. Len(p.recs) \in 1..Len(p.recs) BY <1>1
<1>3. b + 1 \in Birth!FoundStores BY <1>2, StandsFounds DEF Birth!FoundStores
<1>4. ASSUME NEW k \in 1..Len(p.recs)
      PROVE  store[b + 1 + k - 1].act = p.recs[k].act /\ store[b + 1 + k - 1].obj = p.recs[k].obj
  <2>1. b + 1 + k - 1 = b + k BY <1>1
  <2>2. store[b + k] = Landable(p, k) BY DEF Stands
  <2> QED BY <2>1, <2>2, LandableIs
<1>5. b + 1 + Len(p.recs) - 1 <= Len(store)
  <2>1. Len(store) \in Nat /\ b + Len(p.recs) <= Len(store) BY DEF Stands
  <2>2. \A l \in Nat : b + 1 + l - 1 = b + l BY <1>1
  <2>3. b + 1 + Len(p.recs) - 1 = b + Len(p.recs) BY <1>1, <2>2
  <2> QED BY <2>1, <2>3
<1> QED BY <1>3, <1>4, <1>5 DEF Birth!LandedWhole

(* A world open again under its own pack has it whole. *)
LEMMA FoundAgain ==
  ASSUME Birth!PacksAreFoundings, Whole, Birth!AlreadyFounded,
         Birth!WorldVersion = pack.version, pack.version # None
  PROVE  \E n \in Birth!FoundStores : Birth!LandedWhole(pack, n)
<1>1. PICK n \in 1..Len(store) : /\ store[n].act = pack.recs[Len(pack.recs)].act
                                 /\ store[n].obj = pack.recs[Len(pack.recs)].obj
  BY DEF Birth!AlreadyFounded
<1>2. pack \in Packs /\ store \in Seq(Rows) BY DEF Whole, FoundsOnce
<1>3. Len(pack.recs) \in 1..Len(pack.recs) BY <1>2 DEF Birth!PacksAreFoundings
<1>4. store[n].act # "ACT" BY <1>1, <1>2, <1>3 DEF Birth!PacksAreFoundings
<1>5. PICK p \in Packs, k \in Nat : LandedOf(store, n, p, k) BY <1>4 DEF Whole, RowsAreLanded
<1>6. k \in 1..Len(p.recs) /\ Stands(store, p, n - k, k) BY <1>5 DEF LandedOf
<1>7. n - k + 1 \in 1..Len(store) /\ store[n - k + 1].act = "FOUND-STORE"
      /\ store[n - k + 1].stamp = p.version
  BY <1>2, <1>6, StandsFounds
<1>8. p.version = pack.version BY <1>7 DEF Whole, OneVersion, Birth!FoundStores
<1>9. p = pack BY <1>2, <1>8 DEF Birth!PacksAreFoundings
<1>10. k = Len(pack.recs) BY <1>1, <1>2, <1>5, <1>9, LastIsWhole
<1> QED BY <1>2, <1>6, <1>9, <1>10, StandsWhole

LEMMA InitFounds == Birth!Init => Whole
BY DEF Birth!Init, Whole, FoundsOnce, RowsAreLanded, InHand, Opened, FirstFounds, OneVersion,
       LandsOnce, Birth!FoundStores

LEMMA InstallFounds == Birth!PacksAreFoundings /\ Whole /\ Birth!Install => Whole'
<1> SUFFICES ASSUME Birth!PacksAreFoundings, Whole, Birth!Install PROVE Whole'
  OBVIOUS
<1>1. store' = store /\ pack' = pack /\ landed' = 0 BY DEF Birth!Install
<1>2. Birth!WorldVersion' = Birth!WorldVersion /\ Birth!FoundStores' = Birth!FoundStores
  BY <1>1 DEF Birth!WorldVersion, Birth!FoundStores
<1>3. Len(pack.recs) \in Nat \ {0} /\ store \in Seq(Rows) /\ pack \in Packs
  BY DEF Whole, FoundsOnce, Birth!PacksAreFoundings
<1>4. FoundsOnce' BY <1>1 DEF Birth!Install, Whole, FoundsOnce
<1>5. RowsAreLanded(store)' BY <1>1 DEF Whole, RowsAreLanded, LandedOf, Stands
<1>6. InHand'
  <2> SUFFICES ASSUME at' = "installing" PROVE InHand'
    BY DEF InHand
  <2>1. ~ Birth!OlderWorld /\ ~ Birth!AlreadyFounded /\ Birth!Validate(pack.recs)
    BY DEF Birth!Install
  <2>2. Birth!WorldVersion \in {None, pack.version} BY <2>1 DEF Birth!OlderWorld
  <2>3. Stands(store, pack, Len(store), 0) BY <1>3 DEF Stands
  <2>4. ~ HasLast(store, pack, Len(store)) BY <2>1 DEF Birth!AlreadyFounded, HasLast
  <2>5. Len(store) - 0 = Len(store) /\ Len(store) \in Nat BY <1>3
  <2>6. Stands(store', pack', Len(store') - landed', landed') BY <1>1, <2>3, <2>5
  <2>7. ~ HasLast(store', pack', Len(store') - landed') BY <1>1, <2>4, <2>5
  <2>8. Birth!WorldVersion' \in {None, pack'.version} BY <1>1, <1>2, <2>2
  <2> QED BY <1>1, <1>3, <2>1, <2>5, <2>6, <2>7, <2>8 DEF InHand
<1>7. Opened'
  <2> SUFFICES ASSUME at' = "open"
               PROVE  /\ store # << >>
                      /\ (Birth!WorldVersion = pack.version /\ pack.version # None) =>
                           \E n \in Birth!FoundStores : Birth!LandedWhole(pack, n)
    BY <1>1, <1>2 DEF Opened, Birth!LandedWhole
  <2>1. Birth!OlderWorld \/ Birth!AlreadyFounded BY DEF Birth!Install
  <2>2. store # << >>
    <3>1. CASE Birth!OlderWorld
      BY <3>1 DEF Birth!OlderWorld, Birth!WorldVersion, Birth!FoundStores
    <3>2. CASE Birth!AlreadyFounded BY <3>2 DEF Birth!AlreadyFounded
    <3> QED BY <2>1, <3>1, <3>2
  <2>3. ASSUME Birth!WorldVersion = pack.version, pack.version # None
        PROVE  \E n \in Birth!FoundStores : Birth!LandedWhole(pack, n)
    <3>1. Birth!AlreadyFounded BY <2>1, <2>3 DEF Birth!OlderWorld
    <3> QED BY <2>3, <3>1, FoundAgain
  <2> QED BY <2>2, <2>3
<1>8. FirstFounds' /\ OneVersion' /\ LandsOnce'
  BY <1>1, <1>2 DEF Whole, FirstFounds, OneVersion, LandsOnce, Birth!LandedWhole
<1> QED BY <1>4, <1>5, <1>6, <1>7, <1>8 DEF Whole

LEMMA StopFounds == Birth!PacksAreFoundings /\ Whole /\ Birth!Stop => Whole'
<1> SUFFICES ASSUME Birth!PacksAreFoundings, Whole, Birth!Stop PROVE Whole'
  OBVIOUS
<1>1. store' = store /\ pack' \in Packs /\ landed' = 0 /\ at' = "closed" BY DEF Birth!Stop
<1>2. Birth!WorldVersion' = Birth!WorldVersion /\ Birth!FoundStores' = Birth!FoundStores
  BY <1>1 DEF Birth!WorldVersion, Birth!FoundStores
<1>3. RowsAreLanded(store)' BY <1>1 DEF Whole, RowsAreLanded, LandedOf, Stands
<1>4. FirstFounds' /\ OneVersion' /\ LandsOnce'
  BY <1>1, <1>2 DEF Whole, FirstFounds, OneVersion, LandsOnce, Birth!LandedWhole
<1>5. FoundsOnce' /\ InHand' /\ Opened' BY <1>1 DEF Whole, FoundsOnce, InHand, Opened
<1> QED BY <1>3, <1>4, <1>5 DEF Whole

LEMMA ActRowIs == ActRow \in Rows /\ ActRow.act = "ACT"
BY DEF ActRow, Rows

(* What an appended row changes of the designations. *)
LEMMA AppendFounds ==
  ASSUME Birth!PacksAreFoundings, Whole, NEW e \in Rows, store' = Append(store, e),
         store # << >>
  PROVE  /\ Birth!WorldVersion' = Birth!WorldVersion
         /\ FirstFounds'
         /\ Birth!FoundStores' =
              Birth!FoundStores \cup (IF e.act = "FOUND-STORE" THEN {Len(store) + 1} ELSE {})
         /\ store' \in Seq(Rows) /\ Len(store') = Len(store) + 1 /\ Len(store) \in Nat
         /\ \A n \in 1..Len(store) : store'[n] = store[n]
         /\ store'[Len(store) + 1] = e
<1>1. /\ store \in Seq(Rows) /\ store' \in Seq(Rows) /\ Len(store') = Len(store) + 1
      /\ Len(store) \in Nat
      /\ \A n \in 1..Len(store) : store'[n] = store[n]
      /\ store'[Len(store) + 1] = e
  BY DEF Whole, FoundsOnce
<1>2. store'[1] = store[1] /\ store[1].act = "FOUND-STORE" /\ store' # << >>
  BY <1>1 DEF Whole, FirstFounds
<1>3. FirstFounds' BY <1>2 DEF FirstFounds
<1>4. Birth!WorldVersion' = Birth!WorldVersion BY <1>1, <1>2, VersionIs, VersionsAre
<1>5. Birth!FoundStores' =
        Birth!FoundStores \cup (IF e.act = "FOUND-STORE" THEN {Len(store) + 1} ELSE {})
  BY <1>1 DEF Birth!FoundStores
<1> QED BY <1>1, <1>3, <1>4, <1>5

LEMMA WholeStays ==
  ASSUME Birth!PacksAreFoundings, store \in Seq(Rows), NEW e \in Rows,
         store' = Append(store, e), NEW p \in Packs, NEW n \in Nat \ {0}, Birth!LandedWhole(p, n)
  PROVE  Birth!LandedWhole(p, n)'
<1>1. Len(p.recs) \in Nat \ {0} /\ Len(store) \in Nat BY DEF Birth!PacksAreFoundings
<1>2. Len(store') = Len(store) + 1 /\ \A m \in 1..Len(store) : store'[m] = store[m]
  OBVIOUS
<1>3. n + Len(p.recs) - 1 <= Len(store) BY DEF Birth!LandedWhole
<1>4. ASSUME NEW k \in 1..Len(p.recs) PROVE n + k - 1 \in 1..Len(store)
  <2>1. k \in Nat /\ Len(p.recs) \in Nat BY <1>1
  <2>2. n + k - 1 <= n + Len(p.recs) - 1 /\ n + k - 1 >= 1 BY <1>1, <2>1
  <2> QED BY <1>1, <1>3, <2>1, <2>2
<1>5. n + Len(p.recs) - 1 <= Len(store') BY <1>1, <1>2, <1>3
<1>6. ASSUME NEW k \in 1..Len(p.recs)
      PROVE  store'[n + k - 1].act = p.recs[k].act /\ store'[n + k - 1].obj = p.recs[k].obj
  BY <1>2, <1>4 DEF Birth!LandedWhole
<1> QED BY <1>5, <1>6 DEF Birth!LandedWhole

(* A landing becomes whole by its last record only, and holds no other      *)
(* designation than its first.                                              *)
LEMMA WholeBefore ==
  ASSUME Birth!PacksAreFoundings, store \in Seq(Rows), NEW e \in Rows,
         store' = Append(store, e), NEW p \in Packs, NEW n \in 1..Len(store),
         Birth!LandedWhole(p, n)'
  PROVE  Birth!LandedWhole(p, n) \/
         /\ n + Len(p.recs) - 1 = Len(store) + 1 /\ e.act # "ACT"
         /\ \A m \in (n + 1)..(Len(store) + 1) : store'[m].act # "FOUND-STORE"
<1>1. Len(p.recs) \in Nat \ {0} /\ Len(store) \in Nat BY DEF Birth!PacksAreFoundings
<1>2. Len(store') = Len(store) + 1 /\ \A m \in 1..Len(store) : store'[m] = store[m]
      /\ store'[Len(store) + 1] = e
  OBVIOUS
<1>3. n + Len(p.recs) - 1 <= Len(store) + 1 BY <1>2 DEF Birth!LandedWhole
<1>4. ASSUME NEW k \in 1..Len(p.recs)
      PROVE  store'[n + k - 1].act = p.recs[k].act /\ store'[n + k - 1].obj = p.recs[k].obj
  BY DEF Birth!LandedWhole
<1>5. CASE n + Len(p.recs) - 1 <= Len(store)
  <2>1. ASSUME NEW k \in 1..Len(p.recs) PROVE n + k - 1 \in 1..Len(store)
    <3>1. k \in Nat /\ Len(p.recs) \in Nat BY <1>1
    <3>2. n + k - 1 <= n + Len(p.recs) - 1 /\ n + k - 1 >= 1 BY <1>1, <3>1
    <3> QED BY <1>1, <1>5, <3>1, <3>2
  <2> QED BY <1>2, <1>4, <1>5, <2>1 DEF Birth!LandedWhole
<1>6. CASE n + Len(p.recs) - 1 = Len(store) + 1
  <2>1. Len(p.recs) \in 1..Len(p.recs) BY <1>1
  <2>2. store'[Len(store) + 1].act = p.recs[Len(p.recs)].act BY <1>4, <1>6, <2>1
  <2>3. e.act # "ACT" BY <1>2, <2>1, <2>2 DEF Birth!PacksAreFoundings
  <2>4. ASSUME NEW m \in (n + 1)..(Len(store) + 1) PROVE store'[m].act # "FOUND-STORE"
    <3> DEFINE k == m - n + 1
    <3>1. m \in Nat /\ n \in Nat /\ n + 1 <= m /\ m <= Len(store) + 1 BY <1>1
    <3>2. n + k - 1 = m BY <3>1
    <3>3. k \in Nat /\ k >= 2 BY <3>1
    <3>4. \A l \in Nat : n + l - 1 = Len(store) + 1 => k <= l BY <1>1, <3>1
    <3>5. k <= Len(p.recs) BY <1>1, <1>6, <3>4
    <3>6. k \in 1..Len(p.recs) /\ k # 1 BY <1>1, <3>3, <3>5
    <3>7. p.recs[k].act # "FOUND-STORE" BY <3>6 DEF Birth!PacksAreFoundings
    <3> QED BY <1>4, <3>2, <3>6, <3>7
  <2> QED BY <1>6, <2>3, <2>4
<1>7. \A l \in Nat : n + l - 1 <= Len(store) + 1 => n + l - 1 <= Len(store) \/ n + l - 1 = Len(store) + 1
  BY <1>1
<1>8. n + Len(p.recs) - 1 <= Len(store) \/ n + Len(p.recs) - 1 = Len(store) + 1
  BY <1>1, <1>3, <1>7
<1> QED BY <1>5, <1>6, <1>8

LEMMA ActFounds == Birth!PacksAreFoundings /\ Whole /\ Birth!Act => Whole'
<1> SUFFICES ASSUME Birth!PacksAreFoundings, Whole, Birth!Act PROVE Whole'
  OBVIOUS
<1>1. /\ at = "open" /\ at' = at /\ pack' = pack /\ landed' = landed
      /\ store' = Append(store, ActRow) /\ store # << >>
      /\ store \in Seq(Rows) /\ pack \in Packs
  BY DEF Birth!Act, ActRow, Whole, Opened, FoundsOnce
<1>2. /\ Birth!WorldVersion' = Birth!WorldVersion /\ FirstFounds'
      /\ Birth!FoundStores' = Birth!FoundStores
      /\ store' \in Seq(Rows) /\ Len(store') = Len(store) + 1 /\ Len(store) \in Nat
      /\ \A n \in 1..Len(store) : store'[n] = store[n]
      /\ store' # << >>
  <2>1. ActRow \in Rows /\ ActRow.act # "FOUND-STORE" BY ActRowIs
  <2> HIDE DEF ActRow
  <2>2. Birth!FoundStores \cup {} = Birth!FoundStores OBVIOUS
  <2>3. store' # << >> BY <1>1, <2>1
  <2> QED BY <1>1, <2>1, <2>2, <2>3, AppendFounds
<1>3. FoundsOnce' BY <1>1, <1>2 DEF Whole, FoundsOnce
<1>4. RowsAreLanded(store)' BY <1>1, ActRowIs, LandedLonger DEF Whole
<1>5. InHand' BY <1>1 DEF InHand
<1>6. Opened' BY <1>1, <1>2, ActRowIs, WholeStays DEF Whole, Opened, Birth!FoundStores
<1>7. OneVersion' BY <1>2 DEF Whole, OneVersion, Birth!FoundStores
<1>8. LandsOnce'
  <2> SUFFICES ASSUME NEW n \in Birth!FoundStores, NEW m \in Birth!FoundStores, NEW p \in Packs,
                      n < m, store[n].stamp # None, p.version = store[n].stamp,
                      Birth!LandedWhole(p, n)'
               PROVE  Birth!WorldVersion = None /\ store[m].stamp # store[n].stamp
    BY <1>2 DEF LandsOnce, Birth!FoundStores
  <2>1. n \in 1..Len(store) BY DEF Birth!FoundStores
  <2>2. Birth!LandedWhole(p, n) BY <1>1, <2>1, ActRowIs, WholeBefore
  <2> QED BY <2>2 DEF Whole, LandsOnce
<1> QED BY <1>2, <1>3, <1>4, <1>5, <1>6, <1>7, <1>8 DEF Whole

LEMMA LandFounds == Birth!PacksAreFoundings /\ Whole /\ Birth!Land => Whole'
<1> SUFFICES ASSUME Birth!PacksAreFoundings, Whole, Birth!Land PROVE Whole'
  OBVIOUS
<1> DEFINE k == landed + 1
           b == Len(store) - landed
           e == Landable(pack, k)
<1>1. /\ store \in Seq(Rows) /\ pack \in Packs /\ landed \in Nat /\ Len(store) \in Nat
      /\ Len(pack.recs) \in Nat \ {0}
  BY DEF Whole, FoundsOnce, Birth!PacksAreFoundings
<1>2. /\ at = "installing" /\ store' = Append(store, e) /\ landed' = k /\ pack' = pack
      /\ at' = IF k = Len(pack.recs) THEN "open" ELSE at
  BY DEF Birth!Land, Landable
<1>3. /\ landed < Len(pack.recs) /\ landed <= Len(store) /\ Birth!Validate(pack.recs)
      /\ Stands(store, pack, b, landed)
      /\ Birth!WorldVersion \in {None, pack.version}
      /\ ~ HasLast(store, pack, b)
  BY <1>2 DEF Whole, InHand
<1>4. k \in 1..Len(pack.recs) /\ b \in Nat /\ b + k = Len(store) + 1 /\ k \in Nat
  BY <1>1, <1>3
<1>5. e \in Rows
  <2>1. e \in {Landable(pack, l) : l \in 1..Len(pack.recs)} BY <1>4
  <2> QED BY <1>1, <2>1 DEF Rows
<1>6. /\ e.act # "ACT" /\ (e.act = "FOUND-STORE" <=> k = 1)
      /\ e.act = pack.recs[k].act /\ e.obj = pack.recs[k].obj
      /\ k = 1 => e.stamp = pack.version
  BY <1>1, <1>4, LandableIs
<1> HIDE DEF e, k, b
<1>7. /\ store' \in Seq(Rows) /\ Len(store') = Len(store) + 1
      /\ \A n \in 1..Len(store) : store'[n] = store[n]
      /\ store'[Len(store) + 1] = e /\ store' # << >>
  BY <1>1, <1>2, <1>5
<1>8. Stands(store', pack, b, k)
  <2>1. ASSUME NEW j \in 1..k PROVE store'[b + j] = Landable(pack, j)
    <3>1. CASE j = k BY <1>4, <1>7, <3>1 DEF e
    <3>2. CASE j # k
      <4>1. j \in 1..landed /\ b + j \in 1..Len(store) BY <1>1, <1>4, <3>2 DEF k, b
      <4> QED BY <1>3, <1>7, <4>1 DEF Stands
    <3> QED BY <3>1, <3>2
  <2> QED BY <1>4, <1>7, <2>1 DEF Stands
<1>9. FoundsOnce'
  BY <1>1, <1>2, <1>4, <1>7 DEF Whole, FoundsOnce
<1>10. RowsAreLanded(store)'
  <2>1. LandedOf(store', Len(store) + 1, pack, k)
    <3>1. Len(store) + 1 - k = b /\ k <= Len(store) + 1 BY <1>1, <1>4
    <3> QED BY <1>3, <1>4, <1>8, <3>1 DEF LandedOf
  <2> QED BY <1>1, <1>2, <1>4, <1>5, <2>1, LandedLonger DEF Whole
<1>11. FirstFounds'
  <2>1. CASE store = << >>
    <3>1. k = 1 /\ Len(store) = 0 BY <1>1, <1>3, <2>1 DEF k
    <3> QED BY <1>6, <1>7, <3>1 DEF FirstFounds
  <2>2. CASE store # << >> BY <1>2, <1>5, <2>2, AppendFounds
  <2> QED BY <2>1, <2>2
<1>12. Birth!WorldVersion' \in {None, pack.version}
       /\ (store # << >> => Birth!WorldVersion' = Birth!WorldVersion)
  <2>1. CASE store = << >>
    <3>1. k = 1 /\ Len(store) = 0 BY <1>1, <1>3, <2>1 DEF k
    <3>2. store'[1] = e /\ e.stamp = pack.version BY <1>6, <1>7, <3>1
    <3> QED BY <1>7, <1>11, <2>1, <3>2, VersionIs, VersionsAre DEF FirstFounds
  <2>2. CASE store # << >> BY <1>2, <1>3, <1>5, <2>2, AppendFounds
  <2> QED BY <2>1, <2>2
<1>13. ~ HasLast(store', pack, b)
  <2>1. \A m \in 1..b : m \in 1..Len(store) BY <1>1, <1>4 DEF b
  <2> QED BY <1>3, <1>7, <2>1 DEF HasLast
<1>14. InHand'
  <2> SUFFICES ASSUME at' = "installing" PROVE InHand'
    BY DEF InHand
  <2>1. k # Len(pack.recs) BY <1>2
  <2>2. k < Len(pack.recs) /\ k <= Len(store') /\ Len(store') - k = b BY <1>1, <1>4, <1>7, <2>1
  <2> QED BY <1>2, <1>3, <1>8, <1>12, <1>13, <2>2 DEF InHand
<1>15. Opened'
  <2> SUFFICES ASSUME at' = "open" PROVE Opened'
    BY DEF Opened
  <2>1. k = Len(pack.recs) BY <1>2
  <2>2. PICK n : n = b + 1 OBVIOUS
  <2>3. n \in Birth!FoundStores' /\ Birth!LandedWhole(pack, n)'
    <3>1. k \in 1..Len(pack.recs) BY <1>4
    <3>2. n \in 1..Len(store') /\ store'[n].act = "FOUND-STORE"
      BY <1>1, <1>7, <1>8, <2>2, <3>1, StandsFounds
    <3>3. ASSUME NEW l \in 1..Len(pack.recs)
          PROVE  /\ store'[n + l - 1].act = pack.recs[l].act
                 /\ store'[n + l - 1].obj = pack.recs[l].obj
      <4>1. n + l - 1 = b + l BY <1>4, <2>2
      <4>2. store'[b + l] = Landable(pack, l) BY <1>8, <2>1 DEF Stands
      <4> QED BY <1>1, <4>1, <4>2, LandableIs
    <3>4. n + k - 1 <= Len(store') BY <1>1, <1>4, <1>7, <2>2
    <3> QED BY <1>2, <2>1, <3>2, <3>3, <3>4 DEF Birth!LandedWhole, Birth!FoundStores
  <2> QED BY <1>2, <1>7, <2>3 DEF Opened
<1>16. OneVersion'
  <2> SUFFICES ASSUME Birth!WorldVersion' # None, NEW f \in Birth!FoundStores'
               PROVE  store'[f].stamp = Birth!WorldVersion'
    BY DEF OneVersion
  <2>1. f \in 1..(Len(store) + 1) /\ store'[f].act = "FOUND-STORE"
    BY <1>7 DEF Birth!FoundStores
  <2>2. CASE store = << >>
    <3>1. Len(store) = 0 /\ f = 1 BY <2>1, <2>2
    <3> QED BY <1>7, <1>11, <3>1, VersionIs, VersionsAre DEF FirstFounds
  <2>3. CASE store # << >> /\ f \in 1..Len(store)
    <3>1. f \in Birth!FoundStores BY <1>7, <2>1, <2>3 DEF Birth!FoundStores
    <3> QED BY <1>7, <1>12, <2>3, <3>1 DEF Whole, OneVersion
  <2>4. CASE store # << >> /\ f = Len(store) + 1
    <3>1. k = 1 /\ store'[f].stamp = pack.version BY <1>6, <1>7, <2>1, <2>4
    <3> QED BY <1>12, <3>1
  <2> QED BY <1>1, <2>1, <2>2, <2>3, <2>4
<1>17. LandsOnce'
  <2> SUFFICES ASSUME NEW n \in Birth!FoundStores', NEW m \in Birth!FoundStores', NEW p \in Packs,
                      n < m, store'[n].stamp # None, p.version = store'[n].stamp,
                      Birth!LandedWhole(p, n)'
               PROVE  Birth!WorldVersion' = None /\ store'[m].stamp # store'[n].stamp
    BY DEF LandsOnce
  <2>1. /\ m \in 1..(Len(store) + 1) /\ n \in 1..Len(store) /\ store'[n] = store[n]
        /\ store # << >> /\ store'[m].act = "FOUND-STORE" /\ n \in Birth!FoundStores
    BY <1>1, <1>7 DEF Birth!FoundStores
  <2>2. Birth!LandedWhole(p, n)
    <3>1. m \in (n + 1)..(Len(store) + 1) BY <1>1, <2>1
    <3> QED BY <1>1, <1>2, <1>5, <2>1, <3>1, WholeBefore
  <2>3. CASE m \in 1..Len(store)
    <3>1. m \in Birth!FoundStores BY <1>7, <2>1, <2>3 DEF Birth!FoundStores
    <3> QED BY <1>7, <1>12, <2>1, <2>2, <2>3, <3>1 DEF Whole, LandsOnce
  <2>4. CASE m = Len(store) + 1
    <3>1. k = 1 /\ store'[m].stamp = pack.version BY <1>6, <1>7, <2>1, <2>4
    <3>2. p # pack
      <4> SUFFICES ASSUME p = pack PROVE FALSE
        OBVIOUS
      <4> DEFINE l == Len(pack.recs)
      <4>1. l \in 1..l /\ n + l - 1 <= Len(store) /\ l \in Nat /\ n \in Nat /\ n >= 1
        BY <1>1, <2>1, <2>2 DEF Birth!LandedWhole
      <4>2. n + l - 1 \in 1..Len(store) BY <1>1, <4>1
      <4>3. store[n + l - 1].act = pack.recs[l].act /\ store[n + l - 1].obj = pack.recs[l].obj
        BY <2>2, <4>1 DEF Birth!LandedWhole
      <4>4. b = Len(store) BY <1>1, <1>4, <3>1
      <4> QED BY <1>3, <4>2, <4>3, <4>4 DEF HasLast
    <3>3. pack.version # store[n].stamp
      BY <1>1, <2>1, <3>2 DEF Birth!PacksAreFoundings
    <3>4. Birth!WorldVersion = None BY <1>3, <2>1, <3>3 DEF Whole, OneVersion
    <3> QED BY <1>12, <2>1, <3>1, <3>3, <3>4
  <2> QED BY <1>1, <2>1, <2>3, <2>4
<1> QED BY <1>9, <1>10, <1>11, <1>14, <1>15, <1>16, <1>17 DEF Whole

-----------------------------------------------------------------------------
(* What a validated pack says of a row it landed. *)
LEMMA RowRefers ==
  ASSUME Birth!PacksAreFoundings, Whole, NEW n \in 1..Len(store),
         store[n].act \in {"CREATE-TUNNEL", "CREATE-RULE", "GRANT"}
  PROVE  store[n].refs \subseteq (IF store[n].act = "CREATE-TUNNEL" THEN Birth!Actors(store, n)
                                  ELSE Birth!Spaces(store, n))
<1>1. PICK p \in Packs, k \in Nat : LandedOf(store, n, p, k) BY DEF Whole, RowsAreLanded
<1>2. /\ k \in 1..Len(p.recs) /\ k <= n /\ Birth!Validate(p.recs) /\ n - k \in Nat /\ n \in Nat
      /\ \A j \in 1..k : store[n - k + j] = Landable(p, j)
  BY <1>1 DEF LandedOf, Stands
<1>3. store[n] = Landable(p, k)
  <2>1. k \in 1..k /\ n - k + k = n BY <1>2
  <2> QED BY <1>2, <2>1
<1>4. store[n].refs = p.recs[k].refs /\ store[n].act = p.recs[k].act BY <1>2, <1>3, LandableIs
<1>5. Birth!ReferencesResolve(p.recs, k) BY <1>2 DEF Birth!Validate
<1>6. ASSUME NEW act PROVE Birth!Founded(p.recs, act, k) \subseteq Birth!Founded(store, act, n)
  <2> SUFFICES ASSUME NEW j \in 1..(k - 1), p.recs[j].act = act
               PROVE  p.recs[j].obj \in Birth!Founded(store, act, n)
    BY DEF Birth!Founded
  <2>1. j \in 1..Len(p.recs) /\ j \in 1..k /\ n - k + j \in 1..(n - 1)
    <3>1. Len(p.recs) \in Nat BY DEF Birth!PacksAreFoundings
    <3> QED BY <1>2, <3>1
  <2>2. store[n - k + j] = Landable(p, j) BY <1>2, <2>1
  <2>3. store[n - k + j].act = act /\ store[n - k + j].obj = p.recs[j].obj
    BY <2>1, <2>2, LandableIs
  <2> QED BY <2>1, <2>3 DEF Birth!Founded
<1>7. CASE store[n].act = "CREATE-TUNNEL"
  <2>1. p.recs[k].refs \subseteq Birth!Actors(p.recs, k) BY <1>4, <1>5, <1>7 DEF Birth!ReferencesResolve
  <2> QED BY <1>4, <1>6, <1>7, <2>1 DEF Birth!Actors
<1>8. CASE store[n].act # "CREATE-TUNNEL"
  <2>1. p.recs[k].refs \subseteq Birth!Spaces(p.recs, k) BY <1>4, <1>5, <1>8 DEF Birth!ReferencesResolve
  <2> QED BY <1>4, <1>6, <1>8, <2>1 DEF Birth!Spaces
<1> QED BY <1>7, <1>8

(* Between an actor and the last domain before it stands no designation, or *)
(* the same pack landed again and the domain came after the actor.          *)
LEMMA ActorIsOfItsDomain ==
  ASSUME Birth!PacksAreFoundings, Whole, NEW n \in Birth!RowsOf(store, "CREATE-ACTOR"),
         NEW d \in Birth!Domain(store, n), \A e \in Birth!Domain(store, n) : e <= d
  PROVE  \/ store[n].class \in store[d].classes \/ store[n].obj \in Birth!Actors(store, d)
         \/ Birth!WorldVersion = None /\ \E f \in Birth!FoundStores : d < f /\ f < n
<1>1. /\ n \in 1..Len(store) /\ store[n].act = "CREATE-ACTOR" /\ n \in Nat
      /\ d \in 1..(n - 1) /\ store[d].act = "CLASSES" /\ d \in 1..Len(store) /\ d \in Nat
      /\ store \in Seq(Rows) /\ Len(store) \in Nat
  BY DEF Birth!RowsOf, Birth!Domain, Whole, FoundsOnce
<1>2. PICK p \in Packs, k \in Nat : LandedOf(store, n, p, k) BY <1>1 DEF Whole, RowsAreLanded
<1> DEFINE b == n - k
<1>3. /\ k \in 1..Len(p.recs) /\ k <= n /\ Birth!Validate(p.recs) /\ b \in Nat
      /\ Stands(store, p, b, k) /\ \A j \in 1..k : store[b + j] = Landable(p, j)
  BY <1>2 DEF LandedOf, Stands
<1>4. Len(p.recs) \in Nat /\ b + k = n /\ k >= 1 BY <1>1, <1>3 DEF Birth!PacksAreFoundings
<1> HIDE DEF b
<1>5. store[n] = Landable(p, k)
  <2>1. k \in 1..k BY <1>4
  <2> QED BY <1>3, <1>4, <2>1
<1>6. p.recs[k].act = "CREATE-ACTOR" /\ p.recs[k].class = store[n].class
      /\ p.recs[k].obj = store[n].obj
  BY <1>1, <1>3, <1>5, LandableIs
<1>7. ASSUME NEW j \in 1..(k - 1)
      PROVE  /\ j \in 1..Len(p.recs) /\ b + j \in 1..(n - 1) /\ store[b + j] = Landable(p, j)
             /\ store[b + j].act = p.recs[j].act
             /\ p.recs[j].act = "CLASSES" =>
                  b + j \in Birth!Domain(store, n) /\ store[b + j].classes = p.recs[j].classes
  <2>1. j \in 1..k /\ j \in 1..Len(p.recs) /\ b + j \in 1..(n - 1) BY <1>3, <1>4
  <2>2. store[b + j] = Landable(p, j) BY <1>3, <2>1
  <2> QED BY <2>1, <2>2, LandableIs DEF Birth!Domain
<1>8. CASE d > b
  <2> DEFINE j == d - b
  <2>1. j \in 1..(k - 1) /\ b + j = d BY <1>1, <1>3, <1>4, <1>8
  <2> HIDE DEF j
  <2>2. j \in Birth!Domain(p.recs, k) BY <1>1, <1>7, <2>1 DEF Birth!Domain
  <2>3. ASSUME NEW i \in Birth!Domain(p.recs, k) PROVE i <= j
    <3>1. i \in 1..(k - 1) /\ p.recs[i].act = "CLASSES" BY DEF Birth!Domain
    <3>2. b + i \in Birth!Domain(store, n) BY <1>7, <3>1
    <3>3. b + i <= d BY <3>2
    <3>4. i \in Nat /\ j \in Nat /\ b \in Nat BY <1>3, <2>1, <3>1
    <3> QED BY <2>1, <3>3, <3>4
  <2>4. Birth!InDomain(p.recs, k) BY <1>3, <1>6 DEF Birth!Validate
  <2>5. p.recs[k].class \in p.recs[j].classes BY <2>2, <2>3, <2>4 DEF Birth!InDomain
  <2> QED BY <1>1, <1>6, <1>7, <2>1, <2>5
<1>9. CASE d <= b
  <2>1. b + 1 \in 1..Len(store) /\ store[b + 1].act = "FOUND-STORE"
        /\ store[b + 1].stamp = p.version
    BY <1>1, <1>3, StandsFounds
  <2>2. b + 1 # n BY <1>1, <2>1
  <2>3. d < b + 1 /\ b + 1 < n /\ b + 1 \in Birth!FoundStores
    BY <1>1, <1>3, <1>4, <1>9, <2>1, <2>2 DEF Birth!FoundStores
  <2> SUFFICES ASSUME Birth!WorldVersion # None PROVE store[n].obj \in Birth!Actors(store, d)
    BY <2>3
  <2>4. PICK q \in Packs, i \in Nat : LandedOf(store, d, q, i) BY <1>1 DEF Whole, RowsAreLanded
  <2>5. /\ i \in 1..Len(q.recs) /\ i <= d /\ d - i \in Nat /\ Stands(store, q, d - i, i)
        /\ \A j \in 1..i : store[d - i + j] = Landable(q, j)
    BY <2>4 DEF LandedOf, Stands
  <2>6. d - i + 1 \in Birth!FoundStores /\ store[d - i + 1].stamp = q.version
    BY <1>1, <2>5, StandsFounds DEF Birth!FoundStores
  <2>7. q = p
    <3>1. q.version = Birth!WorldVersion /\ p.version = Birth!WorldVersion
      BY <2>1, <2>3, <2>6 DEF Whole, OneVersion
    <3> QED BY <3>1 DEF Birth!PacksAreFoundings
  <2>8. p.recs[i].act = "CLASSES"
    <3>1. i \in 1..i /\ d - i + i = d BY <1>1, <2>5
    <3>2. store[d] = Landable(p, i) BY <2>5, <2>7, <3>1
    <3> QED BY <1>1, <2>5, <2>7, <3>2, LandableIs
  <2>9. k < i
    <3>1. k # i BY <1>6, <2>8
    <3>2. ~ (i < k)
      <4> SUFFICES ASSUME i < k PROVE FALSE
        OBVIOUS
      <4>1. i \in 1..(k - 1) BY <2>5
      <4>2. b + i \in Birth!Domain(store, n) BY <1>7, <2>8, <4>1
      <4>3. b + i <= d /\ i >= 1 BY <2>5, <4>2
      <4> QED BY <1>1, <1>3, <1>9, <4>3
    <3> QED BY <3>1, <3>2
  <2>10. k \in 1..i /\ d - i + k \in 1..(d - 1) /\ k \in 1..Len(p.recs)
    BY <1>1, <1>3, <1>4, <2>5, <2>9
  <2>11. store[d - i + k] = Landable(p, k) BY <2>5, <2>7, <2>10
  <2> QED BY <1>5, <1>1, <2>10, <2>11 DEF Birth!Actors, Birth!Founded
<1> QED BY <1>1, <1>3, <1>8, <1>9

LEMMA NextFounds == Birth!PacksAreFoundings /\ Whole /\ [Birth!Next]_(Birth!vars) => Whole'
<1> SUFFICES ASSUME Birth!PacksAreFoundings, Whole, [Birth!Next]_(Birth!vars) PROVE Whole'
  OBVIOUS
<1>1. CASE UNCHANGED Birth!vars
  <2>1. UNCHANGED <<store, pack, landed, at>> BY <1>1 DEF Birth!vars
  <2>2. Birth!WorldVersion' = Birth!WorldVersion /\ Birth!FoundStores' = Birth!FoundStores
    BY <2>1 DEF Birth!WorldVersion, Birth!FoundStores
  <2>3. RowsAreLanded(store)' BY <2>1 DEF Whole, RowsAreLanded, LandedOf, Stands
  <2>4. FoundsOnce' /\ FirstFounds' /\ OneVersion' BY <2>1, <2>2 DEF Whole, FoundsOnce, FirstFounds, OneVersion
  <2>5. InHand' /\ Opened' /\ LandsOnce'
    BY <2>1, <2>2 DEF Whole, InHand, Opened, LandsOnce, Stands, HasLast, Birth!LandedWhole
  <2> QED BY <2>3, <2>4, <2>5 DEF Whole
<1> QED BY <1>1, InstallFounds, LandFounds, ActFounds, StopFounds DEF Birth!Next

(* However often the founding is cut short, and whatever pack the engine    *)
(* comes with at the next open, a world has the whole of the pack it was    *)
(* founded by and refers to nothing that is not there (install, _validate). *)
THEOREM FoundingIsWhole ==
  Birth!PacksAreFoundings => (Birth!Spec => []Birth!FoundingIsWhole)
<1> SUFFICES ASSUME Birth!PacksAreFoundings PROVE Birth!Spec => []Birth!FoundingIsWhole
  OBVIOUS
<1>1. Whole => Birth!FoundingIsWhole
  <2> SUFFICES ASSUME Whole PROVE Birth!FoundingIsWhole
    OBVIOUS
  <2>1. (at = "open" /\ Birth!WorldVersion = pack.version /\ pack.version # None) =>
          \E n \in Birth!FoundStores : Birth!LandedWhole(pack, n)
    BY DEF Whole, Opened
  <2>2. \A n \in Birth!RowsOf(store, "CREATE-TUNNEL") : store[n].refs \subseteq Birth!Actors(store, n)
    BY RowRefers DEF Birth!RowsOf
  <2>3. \A n \in Birth!RowsOf(store, "CREATE-RULE") \cup Birth!RowsOf(store, "GRANT") :
          store[n].refs \subseteq Birth!Spaces(store, n)
    <3> SUFFICES ASSUME NEW n \in 1..Len(store), store[n].act \in {"CREATE-RULE", "GRANT"}
                 PROVE  store[n].refs \subseteq Birth!Spaces(store, n)
      BY DEF Birth!RowsOf
    <3> QED BY RowRefers
  <2> QED BY <2>1, <2>2, <2>3, ActorIsOfItsDomain DEF Whole, LandsOnce, Birth!FoundingIsWhole
<1>2. Birth!Init => Whole BY InitFounds
<1>3. Whole /\ [Birth!Next]_(Birth!vars) => Whole' BY NextFounds
<1> QED BY <1>1, <1>2, <1>3, PTL DEF Birth!Spec
-----------------------------------------------------------------------------
(* Attenuation *)
USE TreeAssumption, GrantsAssumption, NamesAssumption, CoversAssumption, GranteesAssumption,
    NoneAssumption

Actors == Accounts \cup {Root}

IInv == TypeOK /\ EveryChainEndsAtMother /\ GrantsDescend

-----------------------------------------------------------------------------
(* Reach in the space tree *)

(* A space reaches itself. *)
LEMMA ReachIsReflexive ==
  ASSUME NEW s \in SpaceIds
  PROVE  SpaceReaches(s, s)
BY DEF SpaceReaches

(* Reach composes (space_reaches walks the whole chain of parents). *)
LEMMA ReachIsTransitive ==
  ASSUME NEW x \in SpaceIds, NEW y \in SpaceIds, NEW z \in SpaceIds,
         SpaceReaches(x, y), SpaceReaches(y, z)
  PROVE  SpaceReaches(x, z)
BY DEF SpaceReaches

(* A space the mother space reaches is founded. *)
LEMMA ReachedIsFounded ==
  ASSUME NEW space \in SpaceIds, SpaceReaches(Mother, space)
  PROVE  space \in Founded
<1>1. CASE parent[space] = None
  <2>1. ClosedUnderParents({space})
      BY <1>1 DEF ClosedUnderParents
  <2> QED
      BY <2>1 DEF SpaceReaches, Founded
<1>2. CASE parent[space] # None
    BY <1>2 DEF Founded
<1> QED
    BY <1>1, <1>2

(* Founding a fresh space takes no reach away from anybody. *)
LEMMA FreshSpaceKeepsReach ==
  ASSUME TypeOK, NEW s \in SpaceIds, NEW p \in SpaceIds, s \notin Founded,
         parent' = [parent EXCEPT ![s] = p],
         NEW x \in SpaceIds, NEW y \in SpaceIds, SpaceReaches(x, y)
  PROVE  SpaceReaches(x, y)'
<1> SUFFICES ASSUME NEW S \in SUBSET SpaceIds, y \in S, ClosedUnderParents(S)'
             PROVE  x \in S
    BY DEF SpaceReaches
<1>1. parent[s] = None
    BY DEF Founded
<1>2. ClosedUnderParents(S)
    BY <1>1 DEF ClosedUnderParents, TypeOK
<1> QED
    BY <1>2 DEF SpaceReaches

(* A new parent that is not below the space keeps every chain ending at    *)
(* the mother space: the chain from the parent never needed the space.     *)
LEMMA ReparentKeepsChains ==
  ASSUME TypeOK, NEW s \in SpaceIds, NEW p \in SpaceIds, p \in Founded,
         \A x \in Founded : SpaceReaches(Mother, x),
         ~WouldCycle(s, p),
         parent' = [parent EXCEPT ![s] = p],
         NEW x \in Founded'
  PROVE  SpaceReaches(Mother, x)'
<1>1. x \in SpaceIds /\ (x = s \/ x \in Founded)
    BY DEF Founded, TypeOK
<1>2. PICK T \in SUBSET SpaceIds : p \in T /\ ClosedUnderParents(T) /\ s \notin T
    BY DEF WouldCycle, SpaceReaches
<1> SUFFICES ASSUME NEW S \in SUBSET SpaceIds, x \in S, ClosedUnderParents(S)'
             PROVE  Mother \in S
    BY DEF SpaceReaches
<1>3. CASE s \in S
  <2>1. p \in S
      BY <1>3 DEF ClosedUnderParents, TypeOK
  <2>2. ClosedUnderParents(S \cap T)
      BY <1>2 DEF ClosedUnderParents, TypeOK
  <2>3. SpaceReaches(Mother, p)
      OBVIOUS
  <2> QED
      BY <1>2, <2>1, <2>2, <2>3 DEF SpaceReaches
<1>4. CASE s \notin S
  <2>1. ClosedUnderParents(S)
      BY <1>4 DEF ClosedUnderParents, TypeOK
  <2> QED
      BY <1>1, <1>4, <2>1 DEF SpaceReaches
<1> QED
    BY <1>3, <1>4

-----------------------------------------------------------------------------
(* What the root leaves standing covers itself *)

LEMMA RootMeasures ==
  ASSUME grants' \in [GrantIds -> Grant \cup {None}], Measured(Root)
  PROVE  /\ standing' \subseteq Cover
         /\ GrantsDescend'
<1>1. standing' = {CoverOf(grants'[g]) : g \in {h \in GrantIds : grants'[h] # None}}
    BY DEF Measured
<1>2. \A g \in GrantIds : grants'[g] # None => grants'[g] \in Grant
    OBVIOUS
<1>3. standing' \subseteq Cover
    BY <1>1, <1>2 DEF CoverOf, Cover, Grant
<1>4. ASSUME NEW g \in Live'
      PROVE  (\E c \in standing :
                /\ grants[g].actions \subseteq c.actions /\ grants[g].info \subseteq c.info
                /\ ~moved => SpaceReaches(c.space, grants[g].space))'
  <2>1. g \in GrantIds /\ grants'[g] # None /\ grants'[g] \in Grant
      BY <1>2, <1>4 DEF Live
  <2>2. CoverOf(grants'[g]) \in standing'
      BY <1>1, <2>1
  <2>3. CoverOf(grants'[g]).actions = grants'[g].actions
        /\ CoverOf(grants'[g]).info = grants'[g].info
        /\ CoverOf(grants'[g]).space = grants'[g].space
      BY DEF CoverOf
  <2>4. grants'[g].space \in SpaceIds
      BY <2>1 DEF Grant
  <2>5. SpaceReaches(grants[g].space, grants[g].space)'
      BY <2>4 DEF SpaceReaches
  <2> QED
      BY <2>2, <2>3, <2>5
<1> QED
    BY <1>3, <1>4 DEF GrantsDescend
-----------------------------------------------------------------------------
(* The inductive invariant *)

(* The founding satisfies it. *)
LEMMA InitOK == Init => IInv
<1> SUFFICES ASSUME Init PROVE IInv
    OBVIOUS
<1> DEFINE open == [grantee |-> Everyone, actions |-> Actions, info |-> Infos, space |-> Mother]
<1>a. open \in Grant /\ open # None
    BY DEF Grant, Subjects
<1>b. grants = [g \in GrantIds |-> IF g = Openness THEN open ELSE None]
    BY DEF Init
<1>1. TypeOK
  <2>1. grants \in [GrantIds -> Grant \cup {None}]
      BY <1>a, <1>b
  <2>2. OpenCover \in Cover
      BY DEF OpenCover, Cover
  <2> QED
      BY <2>1, <2>2 DEF Init, TypeOK
<1>2. Founded = {Mother} /\ Live = {Openness} /\ FoundedRoles = {}
  <2>1. Founded = {Mother} /\ FoundedRoles = {}
      BY DEF Init, Founded, FoundedRoles
  <2>2. Live = {Openness}
      BY <1>a, <1>b DEF Live
  <2> QED
      BY <2>1, <2>2
<1>3. SpaceReaches(Mother, Mother)
    BY ReachIsReflexive
<1>4. EveryChainEndsAtMother
    BY <1>2, <1>3 DEF EveryChainEndsAtMother, Init
<1>5. GrantsDescend
    BY <1>2, <1>3 DEF GrantsDescend, Init, OpenCover
<1> QED
    BY <1>1, <1>4, <1>5 DEF IInv

(* GRANT: the new grant lies in one of the maker's, which lies in one the  *)
(* root left standing.                                                     *)
LEMMA GrantOK ==
  ASSUME IInv, NEW actor \in Actors, NEW id \in GrantIds, NEW grantee \in Grantees,
         NEW cover \in Covers, NEW space \in SpaceIds,
         GrantTo(actor, id, grantee, cover, space)
  PROVE  IInv'
<1> DEFINE new == [grantee |-> grantee, actions |-> cover.actions, info |-> cover.info,
                   space |-> space]
<1> DEFINE proposed == [actions |-> cover.actions, info |-> cover.info, space |-> space]
<1>1. new \in Grant /\ new # None
    BY DEF Grant
<1>2. grants' = [grants EXCEPT ![id] = new] /\ UNCHANGED <<parent, roles>>
    BY DEF GrantTo
<1>3. grants' \in [GrantIds -> Grant \cup {None}]
    BY <1>1, <1>2 DEF IInv, TypeOK
<1>4. moved' = (moved /\ actor # Root) /\ moved' \in BOOLEAN
    BY DEF GrantTo
<1>5. Founded' = Founded /\ FoundedRoles' = FoundedRoles
    BY <1>2 DEF Founded, FoundedRoles
<1>6. \A x, y : SpaceReaches(x, y)' = SpaceReaches(x, y)
    BY <1>2 DEF SpaceReaches, ClosedUnderParents
<1>7. space \in Founded
    BY ReachedIsFounded DEF GrantTo
<1>8. EveryChainEndsAtMother'
  <2>1. \A s \in Founded' : SpaceReaches(Mother, s)'
      BY <1>5, <1>6 DEF IInv, EveryChainEndsAtMother
  <2>2. \A g \in Live' : grants'[g].space \in Founded'
      BY <1>1, <1>2, <1>5, <1>7 DEF IInv, EveryChainEndsAtMother, TypeOK, Live
  <2>3. \A r \in FoundedRoles' : roles'[r] \in Founded'
      BY <1>2, <1>5 DEF IInv, EveryChainEndsAtMother
  <2> QED
      BY <2>1, <2>2, <2>3 DEF EveryChainEndsAtMother
<1>9. CASE actor = Root
  <2>1. Measured(Root)
      BY <1>9 DEF GrantTo
  <2>2. standing' \subseteq Cover /\ GrantsDescend'
      BY <1>3, <2>1, RootMeasures
  <2> QED
      BY <1>2, <1>3, <1>4, <1>8, <2>2 DEF IInv, TypeOK
<1>10. CASE actor # Root
  <2>1. standing' = standing /\ moved' = moved
      BY <1>4, <1>10 DEF GrantTo, Measured, IInv, TypeOK
  <2>2. PICK h \in CoveringGrants(actor) :
               /\ cover.actions \subseteq grants[h].actions
               /\ cover.info \subseteq grants[h].info
               /\ SpaceReaches(grants[h].space, space)
      BY <1>10 DEF GrantTo, WithinMakersReach
  <2>3. h \in Live /\ grants[h] \in Grant
      BY DEF CoveringGrants, Live, IInv, TypeOK
  <2>4. PICK c \in standing :
               /\ grants[h].actions \subseteq c.actions /\ grants[h].info \subseteq c.info
               /\ ~moved => SpaceReaches(c.space, grants[h].space)
      BY <2>3 DEF IInv, GrantsDescend
  <2>5. c.space \in SpaceIds /\ grants[h].space \in SpaceIds
      BY <2>3 DEF IInv, TypeOK, Cover, Grant
  <2>6. ~moved => SpaceReaches(c.space, space)
      BY <2>2, <2>4, <2>5, ReachIsTransitive
  <2>7. ASSUME NEW g \in Live'
        PROVE  (\E d \in standing :
                  /\ grants[g].actions \subseteq d.actions /\ grants[g].info \subseteq d.info
                  /\ ~moved => SpaceReaches(d.space, grants[g].space))'
    <3>1. CASE g = id
      <4>1. grants'[g] = new
          BY <1>2, <3>1 DEF IInv, TypeOK
      <4>2. SpaceReaches(c.space, grants[g].space)' = SpaceReaches(c.space, space)
          BY <1>2, <4>1 DEF SpaceReaches, ClosedUnderParents
      <4> QED
          BY <2>1, <2>2, <2>4, <2>6, <4>1, <4>2
    <3>2. CASE g # id
      <4>1. grants'[g] = grants[g] /\ g \in Live
          BY <1>2, <2>7, <3>2 DEF IInv, TypeOK, Live
      <4>2. PICK d \in standing :
                   /\ grants[g].actions \subseteq d.actions
                   /\ grants[g].info \subseteq d.info
                   /\ ~moved => SpaceReaches(d.space, grants[g].space)
          BY <4>1 DEF IInv, GrantsDescend
      <4>3. SpaceReaches(d.space, grants[g].space)' = SpaceReaches(d.space, grants[g].space)
          BY <1>2, <4>1 DEF SpaceReaches, ClosedUnderParents
      <4> QED
          BY <2>1, <4>1, <4>2, <4>3
    <3> QED
        BY <3>1, <3>2
  <2>8. GrantsDescend'
      BY <2>7 DEF GrantsDescend
  <2> QED
      BY <1>2, <1>3, <1>4, <1>8, <2>1, <2>8 DEF IInv, TypeOK
<1> QED
    BY <1>9, <1>10

(* REVOKE takes a grant away; what is left descends as before. *)
LEMMA RevokeOK ==
  ASSUME IInv, NEW actor \in Actors, NEW id \in GrantIds, Revoke(actor, id)
  PROVE  IInv'
<1>1. grants' = [grants EXCEPT ![id] = None] /\ UNCHANGED <<parent, roles>>
    BY DEF Revoke
<1>2. grants' \in [GrantIds -> Grant \cup {None}]
    BY <1>1 DEF IInv, TypeOK
<1>3. moved' = (moved /\ actor # Root) /\ moved' \in BOOLEAN
    BY DEF Revoke
<1>4. \A g \in Live' : g \in Live /\ grants'[g] = grants[g]
    BY <1>1 DEF IInv, TypeOK, Live
<1>5. EveryChainEndsAtMother'
    BY <1>1, <1>4 DEF IInv, EveryChainEndsAtMother, Founded, FoundedRoles, SpaceReaches,
                      ClosedUnderParents
<1>6. CASE actor = Root
  <2>1. standing' \subseteq Cover /\ GrantsDescend'
      BY <1>2, <1>6, RootMeasures DEF Revoke
  <2> QED
      BY <1>1, <1>2, <1>3, <1>5, <2>1 DEF IInv, TypeOK
<1>7. CASE actor # Root
  <2>1. standing' = standing /\ moved' = moved
      BY <1>3, <1>7 DEF Revoke, Measured, IInv, TypeOK
  <2>2. GrantsDescend'
      BY <1>1, <1>4, <2>1 DEF IInv, GrantsDescend, SpaceReaches, ClosedUnderParents
  <2> QED
      BY <1>1, <1>2, <1>3, <1>5, <2>1, <2>2 DEF IInv, TypeOK
<1> QED
    BY <1>6, <1>7

(* CREATE-SPACE: no chain loops, and a fresh space keeps every reach. *)
LEMMA CreateSpaceOK ==
  ASSUME IInv, NEW actor \in Actors, NEW s \in SpaceIds, NEW p \in SpaceIds,
         CreateSpace(actor, s, p)
  PROVE  IInv'
<1>1. parent' = [parent EXCEPT ![s] = p] /\ UNCHANGED <<grants, roles>>
    BY DEF CreateSpace
<1>2. moved' = (actor # Root /\ (moved \/ s \in Founded)) /\ moved' \in BOOLEAN
    BY DEF CreateSpace
<1>3. parent' \in [SpaceIds -> SpaceIds \cup {None}]
    BY <1>1 DEF IInv, TypeOK
<1>4. Founded \subseteq Founded'
    BY <1>1 DEF IInv, TypeOK, Founded
<1>5. EveryChainEndsAtMother'
  <2>1. \A x \in Founded' : SpaceReaches(Mother, x)'
      BY <1>1, ReparentKeepsChains DEF IInv, EveryChainEndsAtMother, CreateSpace
  <2>2. (\A g \in Live : grants[g].space \in Founded)'
      BY <1>1, <1>4 DEF IInv, EveryChainEndsAtMother, Live
  <2>3. (\A r \in FoundedRoles : roles[r] \in Founded)'
      BY <1>1, <1>4 DEF IInv, EveryChainEndsAtMother, FoundedRoles
  <2> QED
      BY <2>1, <2>2, <2>3 DEF EveryChainEndsAtMother
<1>6. CASE actor = Root
  <2>1. standing' \subseteq Cover /\ GrantsDescend'
      BY <1>1, <1>6, RootMeasures DEF CreateSpace, IInv, TypeOK
  <2> QED
      BY <1>1, <1>2, <1>3, <1>5, <2>1 DEF IInv, TypeOK
<1>7. CASE actor # Root
  <2>1. standing' = standing
      BY <1>7 DEF CreateSpace, Measured
  <2>2. ASSUME NEW g \in Live'
        PROVE  (\E d \in standing :
                  /\ grants[g].actions \subseteq d.actions /\ grants[g].info \subseteq d.info
                  /\ ~moved => SpaceReaches(d.space, grants[g].space))'
    <3>1. g \in Live /\ grants'[g] = grants[g] /\ grants[g] \in Grant
        BY <1>1, <2>2 DEF IInv, TypeOK, Live
    <3>2. PICK d \in standing :
                 /\ grants[g].actions \subseteq d.actions /\ grants[g].info \subseteq d.info
                 /\ ~moved => SpaceReaches(d.space, grants[g].space)
        BY <3>1 DEF IInv, GrantsDescend
    <3>3. d.space \in SpaceIds /\ grants[g].space \in SpaceIds
        BY <3>1 DEF IInv, TypeOK, Cover, Grant
    <3>4. ASSUME ~moved'
          PROVE  SpaceReaches(d.space, grants[g].space)'
      <4>1. ~moved /\ s \notin Founded
          BY <1>2, <1>7, <3>4
      <4> DEFINE there == grants[g].space
      <4>2. SpaceReaches(d.space, there)
          BY <3>2, <4>1
      <4>3. \A x, y \in SpaceIds : SpaceReaches(x, y) => SpaceReaches(x, y)'
          BY <1>1, <4>1, FreshSpaceKeepsReach DEF IInv
      <4>4. \A y : grants'[g].space = y => (SpaceReaches(d.space, grants[g].space)' = SpaceReaches(d.space, y)')
          BY DEF SpaceReaches
      <4> QED
          BY <3>1, <3>3, <4>2, <4>3, <4>4
    <3> QED
        BY <2>1, <3>1, <3>2, <3>4
  <2>3. GrantsDescend'
      BY <2>2 DEF GrantsDescend
  <2> QED
      BY <1>1, <1>2, <1>3, <1>5, <2>1, <2>3 DEF IInv, TypeOK
<1> QED
    BY <1>6, <1>7

(* CREATE-ROLE names a founded space and gives no power. *)
LEMMA CreateRoleOK ==
  ASSUME IInv, NEW actor \in Actors, NEW r \in RoleIds, NEW space \in SpaceIds,
         CreateRole(actor, r, space)
  PROVE  IInv'
<1>1. roles' = [roles EXCEPT ![r] = space] /\ UNCHANGED <<parent, grants>>
    BY DEF CreateRole
<1>2. moved' = (moved /\ actor # Root) /\ moved' \in BOOLEAN
    BY DEF CreateRole
<1>3. space \in Founded
    BY ReachedIsFounded DEF CreateRole
<1>4. EveryChainEndsAtMother'
    BY <1>1, <1>3 DEF IInv, TypeOK, EveryChainEndsAtMother, Founded, FoundedRoles, Live,
                      SpaceReaches, ClosedUnderParents
<1>5. CASE actor = Root
  <2>1. standing' \subseteq Cover /\ GrantsDescend'
      BY <1>1, <1>5, RootMeasures DEF CreateRole, IInv, TypeOK
  <2> QED
      BY <1>1, <1>2, <1>4, <2>1 DEF IInv, TypeOK
<1>6. CASE actor # Root
  <2>1. standing' = standing /\ moved' = moved
      BY <1>2, <1>6 DEF CreateRole, Measured, IInv, TypeOK
  <2>2. GrantsDescend'
      BY <1>1, <2>1 DEF IInv, GrantsDescend, SpaceReaches, ClosedUnderParents, Live
  <2> QED
      BY <1>1, <1>2, <1>4, <2>1, <2>2 DEF IInv, TypeOK
<1> QED
    BY <1>5, <1>6

(* Every step keeps it. *)
LEMMA Inductive == IInv /\ [Next]_vars => IInv'
<1> SUFFICES ASSUME IInv, [Next]_vars PROVE IInv'
    OBVIOUS
<1>1. CASE UNCHANGED vars
    BY <1>1 DEF vars, IInv, TypeOK, EveryChainEndsAtMother, GrantsDescend, Founded, FoundedRoles,
                Live, SpaceReaches, ClosedUnderParents
<1>2. ASSUME NEW actor \in Actors, Act(actor) PROVE IInv'
    BY <1>2, GrantOK, RevokeOK, CreateSpaceOK, CreateRoleOK DEF Act
<1> QED
    BY <1>1, <1>2 DEF Next, Actors

LEMMA Invariance == Spec => []IInv
BY InitOK, Inductive, PTL DEF Spec

-----------------------------------------------------------------------------
(* The folds of the power structure keep their types. *)
THEOREM AttenuationTypes == Spec => []TypeOK
<1>1. IInv => TypeOK
    BY DEF IInv
<1> QED
    BY <1>1, Invariance, PTL

(* Whatever spaces are founded and moved, every chain of parents ends at   *)
(* the mother space, and no grant or role names an orphan.                 *)
THEOREM SpaceTreeIsRooted == Spec => []EveryChainEndsAtMother
<1>1. IInv => EveryChainEndsAtMother
    BY DEF IInv
<1> QED
    BY <1>1, Invariance, PTL

(* However grants are passed on, directly or through roles, nobody may do  *)
(* what the root did not leave standing in a single grant.                 *)
THEOREM Attenuates == Spec => []PowerDescends
<1>1. ASSUME IInv, NEW g \in Live, NEW action, NEW info, NEW space \in Founded,
             GrantCovers(g, action, info, space)
      PROVE  \E c \in standing :
               /\ action \in c.actions /\ info \in c.info
               /\ ~moved => SpaceReaches(c.space, space)
  <2>1. PICK c \in standing :
               /\ grants[g].actions \subseteq c.actions /\ grants[g].info \subseteq c.info
               /\ ~moved => SpaceReaches(c.space, grants[g].space)
      BY <1>1 DEF IInv, GrantsDescend
  <2>2. c.space \in SpaceIds /\ grants[g].space \in SpaceIds /\ space \in SpaceIds
      BY <1>1 DEF IInv, TypeOK, Cover, Grant, Live, Founded
  <2>3. ~moved => SpaceReaches(c.space, space)
      BY <1>1, <2>1, <2>2, ReachIsTransitive DEF GrantCovers
  <2> QED
      BY <1>1, <2>1, <2>3 DEF GrantCovers
<1>2. IInv => PowerDescends
    BY <1>1 DEF PowerDescends, CoversAct, CoveringGrants
<1> QED
    BY <1>2, Invariance, PTL
=============================================================================
