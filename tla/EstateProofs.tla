---------------------------- MODULE EstateProofs ----------------------------
(* What is proved of the acts of the estate.                                *)
(*                                                                          *)
(* An outside answer is of the question as it was handed out, and a closed  *)
(* question stays closed: for any objects, values, views, budget and        *)
(* claims, and a record of any length.  The invariant keeps what the gate   *)
(* looked at when it let a record in: a hand-out seals the content of its   *)
(* pack as the record then was, and an answer finds that content in the     *)
(* record before it.  Freshness follows, since equal contents of a pack     *)
(* show every object of it alike.                                           *)
(*                                                                          *)
(* The push worker stands where the derivation over the whole record ends:  *)
(* for any topics, sessions and budgets.  The invariant says so of the      *)
(* whole engine, its sessions and its budget too, since the next step reads *)
(* them; a new definition, which replaces the engine by the derivation, the *)
(* policy in force and the live sessions, keeps it because the derivation   *)
(* has arrived at that policy and those sessions by itself.                 *)
(*                                                                          *)
(* Two bodies wake honestly: the invariant says of each image that a row    *)
(* has a mark exactly while the rows before it bind a system key, that the  *)
(* mark is of a seed whose public half is in a row before it, and that the  *)
(* seed in memory is such a seed: a revocation unbinds the key, not the     *)
(* row that once bound it.                                                  *)
(*                                                                          *)
(* A reader who was removed stays out: no account knows a key not drawn.    *)
(*                                                                          *)
(* What crossed the border is grounded: an answer follows a submit of its   *)
(* content, a receipt what it cites, and both were let in by a look at the  *)
(* record that later rows do not change.                                    *)
(*                                                                          *)
(* What is salvaged from a parent's children is the parent's: a segment     *)
(* brings its mark only over what the parent recorded.                      *)
EXTENDS Crossing, WellFoundedInduction, FiniteSetTheorems, TLAPS

CONSTANTS Topics, Sessions, Budgets, MaxWaiting, Infinite
VARIABLES log, engine, move, intake, moved

Standing == INSTANCE Push WITH rec <- log

CONSTANTS Bodies, Damages, Deeds, MaxDamage
VARIABLES images, builds, wrong, running, signer, sealing, held, told, paired, damage

Waking == INSTANCE Wake WITH rec <- images, engine <- builds

CONSTANTS Accounts, Contents, MaxPieces
VARIABLES pieces, knows, made

Sealed == INSTANCE Sealing

Names == Objects \cup {"pack", "guard", None}
Shows == Values \cup (SUBSET Objects) \cup Nat \cup {None}

Entries ==
  [k : {"write", "view", "handout", "answer", "credential"}, obj : Names, val : Shows,
   ref : Nat, parent : Nat, seal : (SUBSET [obj : Names, val : Shows]) \cup {None},
   guard : Nat, pass : BOOLEAN, claim : Nat]

-----------------------------------------------------------------------------
(* The newest of some records is one of them.                               *)
LEMMA NewestIsOne ==
  ASSUME NEW n \in Nat, NEW S \in SUBSET (1..n), S # {}
  PROVE  Max(S) \in S /\ \A y \in S : Max(S) >= y
<1> DEFINE R == OpToRel(<, Nat)
<1> DEFINE T == {n - x : x \in S}
<1>1. IsWellFoundedOn(R, Nat) BY NatLessThanWellFounded
<1>2. T \subseteq Nat OBVIOUS
<1>3. \A i, j \in Nat : <<i, j>> \in R <=> i < j BY DEF OpToRel
<1>4. T # {}
  <2>1. PICK x \in S : TRUE OBVIOUS
  <2>2. n - x \in T BY <2>1
  <2> QED BY <2>2
<1> HIDE DEF R, T
<1>5. PICK t \in T : \A y \in T : ~ <<y, t>> \in R BY <1>1, <1>2, <1>4, WFMin
<1>6. PICK m \in S : t = n - m BY DEF T
<1>7. ASSUME NEW y \in S PROVE m >= y
  <2>1. n - y \in T /\ n - y \in Nat /\ t \in Nat BY <1>2 DEF T
  <2>2. ~ (n - y < t) BY <2>1, <1>3, <1>5
  <2> QED BY <2>1, <2>2, <1>6
<1> QED BY <1>7 DEF Max

(* An appended record leaves those before it, and their prefixes.           *)
LEMMA AppendKeeps ==
  ASSUME NEW rc \in Seq(Entries), NEW e \in Entries
  PROVE  /\ Append(rc, e) \in Seq(Entries)
         /\ Len(Append(rc, e)) = Len(rc) + 1
         /\ \A n \in 1..Len(rc) : Append(rc, e)[n] = rc[n]
         /\ Append(rc, e)[Len(rc) + 1] = e
OBVIOUS

LEMMA PrefixOf ==
  ASSUME NEW rc \in Seq(Entries), NEW n \in 0..Len(rc)
  PROVE  /\ SubSeq(rc, 1, n) \in Seq(Entries) /\ Len(SubSeq(rc, 1, n)) = n
         /\ \A i \in 1..n : SubSeq(rc, 1, n)[i] = rc[i]
OBVIOUS

LEMMA PrefixOfAppend ==
  ASSUME NEW rc \in Seq(Entries), NEW e \in Entries, NEW n \in 0..Len(rc)
  PROVE  /\ SubSeq(Append(rc, e), 1, n) = SubSeq(rc, 1, n)
         /\ SubSeq(rc, 1, Len(rc)) = rc
OBVIOUS

-----------------------------------------------------------------------------
(* What a pack shows *)

(* The content of a pack that looks at some objects, and what each of them  *)
(* shows.                                                                   *)
ContentOver(rc, objs) ==
  LET hits == Matching(rc, objs)
  IN  {[obj |-> rc[n].obj, val |-> rc[n].val] :
         n \in {h \in hits : ~ \E later \in hits : later > h /\ rc[later].obj = rc[h].obj}}

Shown(rc, o) ==
  LET own == Matching(rc, {o}) IN IF own = {} THEN None ELSE rc[Max(own)].val

LEMMA ContentShows ==
  ASSUME NEW rc \in Seq(Entries), NEW objs, NEW o \in objs, Matching(rc, {o}) # {}
  PROVE  [obj |-> o, val |-> Shown(rc, o)] \in ContentOver(rc, objs)
<1> DEFINE m == Max(Matching(rc, {o}))
<1>1. Matching(rc, {o}) \in SUBSET (1..Len(rc)) /\ Len(rc) \in Nat BY DEF Matching
<1>2. m \in Matching(rc, {o}) /\ \A y \in Matching(rc, {o}) : m >= y BY <1>1, NewestIsOne
<1> HIDE DEF m
<1>3. m \in Matching(rc, objs) /\ rc[m].obj = o BY <1>2 DEF Matching
<1>4. ~ \E later \in Matching(rc, objs) : later > m /\ rc[later].obj = rc[m].obj
  <2> SUFFICES ASSUME NEW later \in Matching(rc, objs), later > m, rc[later].obj = o PROVE FALSE
    BY <1>3
  <2>1. later \in Matching(rc, {o}) BY DEF Matching
  <2>2. later \in Nat /\ m \in Nat BY <1>2, <2>1 DEF Matching
  <2> QED BY <2>1, <2>2, <1>2
<1>5. Shown(rc, o) = rc[m].val BY DEF Shown, m
<1> QED BY <1>3, <1>4, <1>5 DEF ContentOver

LEMMA ContentIsShown ==
  ASSUME NEW rc \in Seq(Entries), NEW objs, NEW o \in objs, NEW v,
         [obj |-> o, val |-> v] \in ContentOver(rc, objs)
  PROVE  Matching(rc, {o}) # {} /\ Shown(rc, o) = v
<1>1. PICK n \in Matching(rc, objs) :
        /\ [obj |-> o, val |-> v] = [obj |-> rc[n].obj, val |-> rc[n].val]
        /\ ~ \E later \in Matching(rc, objs) : later > n /\ rc[later].obj = rc[n].obj
  BY DEF ContentOver
<1>2. rc[n].obj = o /\ rc[n].val = v BY <1>1
<1>3. n \in Matching(rc, {o}) BY <1>2 DEF Matching
<1> DEFINE m == Max(Matching(rc, {o}))
<1>4. Matching(rc, {o}) \in SUBSET (1..Len(rc)) /\ Len(rc) \in Nat BY DEF Matching
<1>5. m \in Matching(rc, {o}) /\ \A y \in Matching(rc, {o}) : m >= y BY <1>3, <1>4, NewestIsOne
<1> HIDE DEF m
<1>6. m \in Matching(rc, objs) /\ rc[m].obj = o BY <1>5 DEF Matching
<1>7. m \in Nat /\ n \in Nat BY <1>3, <1>5 DEF Matching
<1>8. m >= n BY <1>3, <1>5
<1>9. m = n BY <1>1, <1>2, <1>6, <1>7, <1>8
<1> QED BY <1>2, <1>3, <1>9 DEF Shown, m

(* Equal contents show every object alike.                                  *)
LEMMA EqualContentsShowAlike ==
  ASSUME NEW rc \in Seq(Entries), NEW sc \in Seq(Entries), NEW objs, NEW o \in objs,
         ContentOver(rc, objs) = ContentOver(sc, objs)
  PROVE  Shown(rc, o) = Shown(sc, o)
<1>1. CASE Matching(rc, {o}) # {} BY <1>1, ContentShows, ContentIsShown
<1>2. CASE Matching(rc, {o}) = {}
  <2>1. Matching(sc, {o}) = {} BY <1>2, ContentShows, ContentIsShown
  <2> QED BY <1>2, <2>1 DEF Shown
<1> QED BY <1>1, <1>2

-----------------------------------------------------------------------------
(* What the gate looked at *)

(* A hand-out seals what its pack then showed, pins versions that were      *)
(* there, and claims a time by which the pack had shown it.                 *)
SealsItsWorld(rc, n) ==
  LET before(m) == ContentOver(SubSeq(rc, 1, m), rc[rc[n].val].val)
  IN  /\ rc[n].val \in 1..(n-1) /\ rc[rc[n].val].k = "view" /\ rc[rc[n].val].obj = "pack"
      /\ rc[n].guard \in 0..(n-1)
      /\ rc[n].guard # 0 => rc[rc[n].guard].k = "view" /\ rc[rc[n].guard].obj = "guard"
      /\ rc[n].seal = before(n-1)
      /\ rc[n].claim # 0 =>
           \E m \in rc[n].val..(n-1) : m <= rc[n].claim /\ before(m) = rc[n].seal

(* An answer found its hand-out's pack as sealed, and nothing its guard     *)
(* matches since.                                                           *)
FindsItsWorld(rc, n) ==
  LET h == rc[n].ref
  IN  /\ h \in 1..(n-1) /\ rc[h].k = "handout"
      /\ ContentOver(SubSeq(rc, 1, n-1), rc[rc[h].val].val) = rc[h].seal
      /\ rc[h].guard # 0 =>
           \A m \in Matching(SubSeq(rc, 1, n-1), rc[rc[h].guard].val) : m <= h

Looked(rc) ==
  /\ rc \in Seq(Entries)
  /\ \A n \in 1..Len(rc) : rc[n].k = "handout" => SealsItsWorld(rc, n)
  /\ \A n \in 1..Len(rc) : rc[n].k = "answer" => FindsItsWorld(rc, n)

LEMMA ContentOfPack ==
  ASSUME NEW rc, NEW v
  PROVE  PackContent(rc, v) = ContentOver(rc, rc[v].val)
BY DEF PackContent, ContentOver

(* A record let in on these terms keeps what was looked at before.          *)
LEMMA AppendKeepsLooked ==
  ASSUME NEW rc, Looked(rc), NEW e \in Entries,
         e.k = "handout" => SealsItsWorld(Append(rc, e), Len(rc) + 1),
         e.k = "answer" => FindsItsWorld(Append(rc, e), Len(rc) + 1)
  PROVE  Looked(Append(rc, e))
<1> DEFINE new == Append(rc, e)
<1>1. rc \in Seq(Entries) /\ Len(rc) \in Nat BY DEF Looked
<1>2. /\ new \in Seq(Entries) /\ Len(new) = Len(rc) + 1 /\ new[Len(rc) + 1] = e
      /\ \A n \in 1..Len(rc) : new[n] = rc[n]
  BY <1>1, AppendKeeps
<1>3. \A n \in 0..Len(rc) : SubSeq(new, 1, n) = SubSeq(rc, 1, n) BY <1>1, PrefixOfAppend
<1> HIDE DEF new
<1>4. ASSUME NEW n \in 1..Len(rc), rc[n].k = "handout" PROVE SealsItsWorld(new, n)
  <2>1. SealsItsWorld(rc, n) BY <1>4 DEF Looked
  <2>2. rc[n].val \in 1..Len(rc) /\ rc[n].guard \in 0..Len(rc) BY <1>1, <2>1 DEF SealsItsWorld
  <2>3. /\ new[n] = rc[n] /\ new[rc[n].val] = rc[rc[n].val]
        /\ rc[n].guard # 0 => new[rc[n].guard] = rc[rc[n].guard]
    BY <1>2, <2>2
  <2>4. \A m \in 0..(n-1) : SubSeq(new, 1, m) = SubSeq(rc, 1, m) BY <1>1, <1>3
  <2>5. n - 1 \in 0..(n-1) BY <1>1
  <2>6. SubSeq(new, 1, n-1) = SubSeq(rc, 1, n-1) BY <2>4, <2>5
  <2>7. \A m \in rc[n].val..(n-1) : SubSeq(new, 1, m) = SubSeq(rc, 1, m) BY <1>1, <2>4, <2>2
  <2> QED BY <2>1, <2>3, <2>6, <2>7 DEF SealsItsWorld
<1>5. ASSUME NEW n \in 1..Len(rc), rc[n].k = "answer" PROVE FindsItsWorld(new, n)
  <2>1. FindsItsWorld(rc, n) BY <1>5 DEF Looked
  <2> DEFINE h == rc[n].ref
  <2>2. h \in 1..(n-1) /\ h \in 1..Len(rc) /\ rc[h].k = "handout" BY <1>1, <2>1, SMTT(30) DEF FindsItsWorld
  <2>3. SealsItsWorld(rc, h) BY <2>2 DEF Looked
  <2>4. rc[h].val \in 1..Len(rc) /\ rc[h].guard \in 0..Len(rc) BY <1>1, <2>2, <2>3 DEF SealsItsWorld
  <2>5. new[n] = rc[n] /\ new[h] = rc[h] /\ new[rc[h].val] = rc[rc[h].val] BY <1>2, <2>2, <2>4
  <2>6. rc[h].guard # 0 => new[rc[h].guard] = rc[rc[h].guard] BY <1>2, <2>4
  <2>7. SubSeq(new, 1, n-1) = SubSeq(rc, 1, n-1) BY <1>1, <1>3
  <2> QED BY <2>1, <2>2, <2>5, <2>6, <2>7 DEF FindsItsWorld
<1>6. ASSUME NEW n \in 1..Len(new), n \notin 1..Len(rc) PROVE n = Len(rc) + 1 /\ new[n] = e
  BY <1>1, <1>2, <1>6
<1> QED BY <1>2, <1>4, <1>5, <1>6 DEF Looked, new

-----------------------------------------------------------------------------
(* Every step is let in on these terms *)

LEMMA CurrentIsThere ==
  ASSUME NEW rc \in Seq(Entries), NEW name, Versions(rc, name) # {}
  PROVE  Current(rc, name) \in 1..Len(rc) /\ rc[Current(rc, name)].k = "view" /\ rc[Current(rc, name)].obj = name
<1>1. Versions(rc, name) \in SUBSET (1..Len(rc)) /\ Len(rc) \in Nat BY DEF Versions
<1>2. Current(rc, name) \in Versions(rc, name) BY <1>1, NewestIsOne DEF Current
<1> QED BY <1>2 DEF Versions

LEMMA ContentIsTyped ==
  ASSUME NEW rc \in Seq(Entries), NEW v
  PROVE  PackContent(rc, v) \in SUBSET [obj : Names, val : Shows]
<1>0. \A n \in 1..Len(rc) : rc[n] \in Entries OBVIOUS
<1>1. \A n \in 1..Len(rc) : rc[n].obj \in Names /\ rc[n].val \in Shows BY <1>0 DEF Entries
<1>2. Matching(rc, rc[v].val) \subseteq 1..Len(rc) BY DEF Matching
<1> QED BY <1>1, <1>2 DEF PackContent

(* A hand-out that meets the seal bound seals its world.                    *)
LEMMA HandoutSeals ==
  ASSUME NEW rc \in Seq(Entries), NEW e \in Entries, Versions(rc, "pack") # {},
         e.k = "handout", e.val = Current(rc, "pack"), e.seal = PackContent(rc, e.val),
         e.guard \in {0} \cup Versions(rc, "guard"), SealBound(rc, e)
  PROVE  SealsItsWorld(Append(rc, e), Len(rc) + 1)
<1> DEFINE new == Append(rc, e)
<1>1. /\ Len(rc) \in Nat /\ e.val \in 1..Len(rc) /\ rc[e.val].k = "view" /\ rc[e.val].obj = "pack"
      /\ e.guard \in 0..Len(rc)
      /\ e.guard # 0 => rc[e.guard].k = "view" /\ rc[e.guard].obj = "guard"
  BY CurrentIsThere DEF Versions
<1>2. /\ new[Len(rc) + 1] = e /\ new[e.val] = rc[e.val]
      /\ e.guard # 0 => new[e.guard] = rc[e.guard]
  BY <1>1, AppendKeeps
<1>3. \A n \in 0..Len(rc) : SubSeq(new, 1, n) = SubSeq(rc, 1, n) BY PrefixOfAppend
<1>4. SubSeq(new, 1, Len(rc)) = rc
  <2>1. SubSeq(rc, 1, Len(rc)) = rc BY PrefixOfAppend
  <2> QED BY <1>1, <1>3, <2>1
<1> HIDE DEF new
<1>5. e.seal = ContentOver(SubSeq(new, 1, Len(rc)), new[e.val].val) BY <1>2, <1>4, ContentOfPack
<1>6. ASSUME e.claim # 0
      PROVE  \E m \in e.val..Len(rc) : m <= e.claim /\ ContentOver(SubSeq(new, 1, m), new[e.val].val) = e.seal
  <2>1. PICK m \in e.val..Len(rc) : m <= e.claim /\ PackContent(SubSeq(rc, 1, m), e.val) = e.seal
    BY <1>6 DEF SealBound
  <2>2. m \in 0..Len(rc) /\ e.val \in 1..m BY <1>1
  <2>3. SubSeq(rc, 1, m)[e.val] = rc[e.val] BY <2>2, PrefixOf
  <2>4. SubSeq(new, 1, m) = SubSeq(rc, 1, m) BY <1>3, <2>2
  <2>5. ContentOver(SubSeq(new, 1, m), new[e.val].val) = e.seal
    BY <1>2, <2>1, <2>3, <2>4, ContentOfPack
  <2> QED BY <2>1, <2>5
<1>7. Len(rc) + 1 - 1 = Len(rc) BY <1>1
<1> QED BY <1>1, <1>2, <1>5, <1>6, <1>7 DEF SealsItsWorld, new

LEMMA AnswerFinds ==
  ASSUME NEW rc \in Seq(Entries), NEW e \in Entries, NEW h \in Handouts(rc), e.ref = h,
         rc[h].val \in 1..Len(rc), rc[h].guard \in 0..Len(rc),
         Holds(rc, h), ~ IntervalMoved(rc, h)
  PROVE  FindsItsWorld(Append(rc, e), Len(rc) + 1)
<1> DEFINE new == Append(rc, e)
<1>1. Len(rc) \in Nat /\ h \in 1..Len(rc) /\ rc[h].k = "handout" BY DEF Handouts
<1>2. /\ new[Len(rc) + 1] = e /\ new[h] = rc[h] /\ new[rc[h].val] = rc[rc[h].val]
      /\ rc[h].guard # 0 => new[rc[h].guard] = rc[rc[h].guard]
  BY <1>1, AppendKeeps
<1>3. SubSeq(new, 1, Len(rc)) = rc
  <2>1. SubSeq(rc, 1, Len(rc)) = rc /\ SubSeq(new, 1, Len(rc)) = SubSeq(rc, 1, Len(rc))
    BY <1>1, PrefixOfAppend
  <2> QED BY <2>1
<1> HIDE DEF new
<1>4. ContentOver(rc, rc[rc[h].val].val) = rc[h].seal BY ContentOfPack DEF Holds
<1>5. rc[h].guard # 0 => \A m \in Matching(rc, rc[rc[h].guard].val) : m <= h
  BY <1>1 DEF IntervalMoved, Matching
<1>6. Len(rc) + 1 - 1 = Len(rc) BY <1>1
<1>7. new[Len(rc) + 1].ref = h BY <1>2
<1>8. ContentOver(SubSeq(new, 1, Len(rc) + 1 - 1), new[new[h].val].val) = new[h].seal
  BY <1>2, <1>3, <1>4, <1>6
<1>9. new[h].guard # 0 =>
        \A m \in Matching(SubSeq(new, 1, Len(rc) + 1 - 1), new[new[h].guard].val) : m <= h
  BY <1>2, <1>3, <1>5, <1>6
<1>10. h \in 1..(Len(rc) + 1 - 1) /\ new[h].k = "handout" BY <1>1, <1>2, <1>6
<1> HIDE DEF new
<1> QED BY <1>7, <1>8, <1>9, <1>10 DEF FindsItsWorld, new

LEMMA InitLooked == Init => Looked(rec)
<1> SUFFICES ASSUME Init PROVE Looked(rec) OBVIOUS
<1> DEFINE e == [Entry EXCEPT !.k = "view", !.obj = "pack", !.val = Objects]
<1>1. e \in Entries /\ e.k = "view" BY DEF Entry, Entries, Names, Shows
<1>2. rec = <<e>> BY DEF Init
<1> HIDE DEF e
<1>3. rec \in Seq(Entries) /\ Len(rec) = 1 /\ rec[1].k = "view" BY <1>1, <1>2
<1> QED BY <1>3 DEF Looked

LEMMA NextLooked == Looked(rec) /\ [Next]_rec => Looked(rec)'
<1> SUFFICES ASSUME Looked(rec), [Next]_rec PROVE Looked(rec)' OBVIOUS
<1>1. rec \in Seq(Entries) /\ Len(rec) \in Nat BY DEF Looked
<1>2. CASE Write
  <2>1. PICK o \in Objects, v \in Values : Record([Entry EXCEPT !.obj = o, !.val = v]) BY <1>2 DEF Write
  <2> DEFINE e == [Entry EXCEPT !.obj = o, !.val = v]
  <2>2. e \in Entries /\ e.k = "write" BY DEF Entry, Entries, Names, Shows
  <2>3. rec' = Append(rec, e) BY <2>1 DEF Record
  <2> QED BY <2>2, <2>3, AppendKeepsLooked
<1>3. CASE DefineView
  <2>1. PICK name \in {"pack", "guard"}, objs \in (SUBSET Objects) \ {{}} :
          Record([Entry EXCEPT !.k = "view", !.obj = name, !.val = objs])
    BY <1>3 DEF DefineView
  <2> DEFINE e == [Entry EXCEPT !.k = "view", !.obj = name, !.val = objs]
  <2>2. e \in Entries /\ e.k = "view" BY DEF Entry, Entries, Names, Shows
  <2>3. rec' = Append(rec, e) BY <2>1 DEF Record
  <2> QED BY <2>2, <2>3, AppendKeepsLooked
<1>4. ASSUME NEW guarded \in BOOLEAN, NEW parent \in Nat, NEW claim \in Nat, NEW e,
             e \in {Handout(guarded, parent), [Handout(guarded, parent) EXCEPT !.claim = claim]},
             Versions(rec, "pack") # {}, guarded => Versions(rec, "guard") # {}, SealBound(rec, e)
      PROVE  e \in Entries /\ e.k = "handout" /\ SealsItsWorld(Append(rec, e), Len(rec) + 1)
  <2> DEFINE pack == Current(rec, "pack")
  <2> DEFINE seal == PackContent(rec, Current(rec, "pack"))
  <2> DEFINE g == IF guarded THEN Current(rec, "guard") ELSE 0
  <2>1. pack \in Nat /\ seal \in SUBSET [obj : Names, val : Shows]
    BY <1>1, <1>4, CurrentIsThere, ContentIsTyped
  <2>2. g \in {0} \cup Versions(rec, "guard") /\ g \in Nat
    BY <1>1, <1>4, CurrentIsThere DEF Versions
  <2>3. Handout(guarded, parent) = [Entry EXCEPT !.k = "handout", !.val = pack, !.parent = parent,
                                                 !.seal = seal, !.guard = g]
    BY DEF Handout
  <2>4. seal = PackContent(rec, pack) OBVIOUS
  <2>5. pack = Current(rec, "pack") OBVIOUS
  <2> HIDE DEF pack, seal, g
  <2>6. e.k = "handout" /\ e.val = pack /\ e.seal = seal /\ e.guard = g BY <1>4, <2>3, ZenonT(60) DEF Entry
  <2>7. e \in Entries
    <3>1. pack \in Shows /\ None \in Names BY <2>1 DEF Shows, Names
    <3>2. [Entry EXCEPT !.k = "handout", !.val = pack, !.parent = parent, !.seal = seal, !.guard = g]
            \in Entries
      BY <2>1, <2>2, <3>1 DEF Entry, Entries
    <3>3. Handout(guarded, parent) \in Entries BY <2>3, <3>2
    <3>4. \A x \in Entries : [x EXCEPT !.claim = claim] \in Entries BY DEF Entries
    <3> QED BY <1>4, <3>3, <3>4
  <2>8. SealsItsWorld(Append(rec, e), Len(rec) + 1)
    BY <1>1, <1>4, <2>2, <2>4, <2>5, <2>6, <2>7, HandoutSeals
  <2> QED BY <2>6, <2>7, <2>8
<1>5. CASE HandOut
  <2>1. Versions(rec, "pack") # {} BY <1>5 DEF HandOut
  <2>2. PICK guarded \in BOOLEAN, parent \in {0} \cup Handouts(rec), claim \in {0} \cup (Claims \cap 1..Len(rec)) :
          LET e == [Handout(guarded, parent) EXCEPT !.claim = claim]
          IN  (guarded => Versions(rec, "guard") # {}) /\ SealBound(rec, e) /\ Record(e)
    BY <1>5 DEF HandOut
  <2> DEFINE e == [Handout(guarded, parent) EXCEPT !.claim = claim]
  <2>3. parent \in Nat /\ claim \in Nat BY <1>1 DEF Handouts
  <2>4. e \in Entries /\ e.k = "handout" /\ SealsItsWorld(Append(rec, e), Len(rec) + 1)
    BY <1>4, <2>1, <2>2, <2>3
  <2>5. rec' = Append(rec, e) BY <2>2 DEF Record
  <2>6. e.k # "answer" BY <2>4
  <2> HIDE DEF e
  <2> QED BY <2>4, <2>5, <2>6, AppendKeepsLooked
<1>6. CASE ReJudge
  <2>1. PICK h \in Handouts(rec) : Record(Handout(rec[h].guard # 0, h)) BY <1>6 DEF ReJudge
  <2>2. h \in 1..Len(rec) /\ rec[h].k = "handout" BY DEF Handouts
  <2>3. SealsItsWorld(rec, h) BY <2>2 DEF Looked
  <2>4. Versions(rec, "pack") # {} BY <1>1, <2>2, <2>3 DEF SealsItsWorld, Versions
  <2>5. rec[h].guard # 0 => Versions(rec, "guard") # {}
    BY <1>1, <2>2, <2>3 DEF SealsItsWorld, Versions
  <2> DEFINE e == Handout(rec[h].guard # 0, h)
  <2>6. h \in Nat /\ (rec[h].guard # 0) \in BOOLEAN BY <1>1, <2>2
  <2>7. SealBound(rec, e) BY DEF SealBound, Handout, Entry
  <2>8. e \in Entries /\ e.k = "handout" /\ SealsItsWorld(Append(rec, e), Len(rec) + 1)
    BY <1>4, <2>4, <2>5, <2>6, <2>7
  <2>9. rec' = Append(rec, e) BY <2>1 DEF Record
  <2>10. e.k # "answer" BY <2>8
  <2> HIDE DEF e
  <2> QED BY <2>8, <2>9, <2>10, AppendKeepsLooked
<1>7. CASE Answer
  <2>1. PICK h \in 1..Len(rec) :
          CheckFingerprint(h) /\ Record([Entry EXCEPT !.k = "answer", !.ref = h, !.pass = TRUE])
    BY <1>7 DEF Answer
  <2> DEFINE e == [Entry EXCEPT !.k = "answer", !.ref = h, !.pass = TRUE]
  <2>2. h \in Nat BY <1>1
  <2>3. e \in Entries /\ e.k = "answer" /\ e.ref = h BY <2>2 DEF Entry, Entries, Names, Shows
  <2>4. rec' = Append(rec, e) BY <2>1 DEF Record
  <2> HIDE DEF e
  <2>5. h \in Handouts(rec) /\ Holds(rec, h) /\ ~ IntervalMoved(rec, h)
    BY <2>1 DEF CheckFingerprint, Binds, StateOf
  <2>6. SealsItsWorld(rec, h) BY <2>5 DEF Looked, Handouts
  <2>7. rec[h].val \in 1..Len(rec) /\ rec[h].guard \in 0..Len(rec)
    BY <1>1, <2>1, <2>6 DEF SealsItsWorld
  <2>8. FindsItsWorld(Append(rec, e), Len(rec) + 1) BY <1>1, <2>3, <2>5, <2>7, AnswerFinds
  <2> QED BY <2>3, <2>4, <2>8, AppendKeepsLooked
<1>8. CASE CredentialOutcome
  <2>1. PICK h \in 1..Len(rec), match \in BOOLEAN :
          Record([Entry EXCEPT !.k = "credential", !.ref = h, !.pass = match])
    BY <1>8 DEF CredentialOutcome
  <2> DEFINE e == [Entry EXCEPT !.k = "credential", !.ref = h, !.pass = match]
  <2>2. h \in Nat BY <1>1
  <2>3. e \in Entries /\ e.k = "credential" BY <2>2 DEF Entry, Entries, Names, Shows
  <2>4. rec' = Append(rec, e) BY <2>1 DEF Record
  <2> QED BY <2>3, <2>4, AppendKeepsLooked
<1>9. CASE UNCHANGED rec BY <1>9
<1> QED BY <1>2, <1>3, <1>5, <1>6, <1>7, <1>8, <1>9 DEF Next

(* What the gate looked at holds of every record.                           *)
LEMMA EveryRecordIsLookedAt == Spec => []Looked(rec)
<1>1. Init => Looked(rec) BY InitLooked
<1>2. Looked(rec) /\ [Next]_rec => Looked(rec)' BY NextLooked
<1> QED BY <1>1, <1>2, PTL DEF Spec

-----------------------------------------------------------------------------
(* Freshness *)

(* A record that writes nothing changes nothing an object shows, and what   *)
(* was seen of a question is what its objects then showed.                  *)
LEMMA OthersShowNothing ==
  ASSUME NEW rc \in Seq(Entries), NEW n \in 1..Len(rc), rc[n].k # "write", NEW o
  PROVE  Shown(SubSeq(rc, 1, n), o) = Shown(SubSeq(rc, 1, n-1), o)
<1> DEFINE long == SubSeq(rc, 1, n)
<1> DEFINE short == SubSeq(rc, 1, n-1)
<1> DEFINE own == Matching(short, {o})
<1>1. /\ long \in Seq(Entries) /\ Len(long) = n /\ \A i \in 1..n : long[i] = rc[i]
      /\ short \in Seq(Entries) /\ Len(short) = n-1 /\ \A i \in 1..(n-1) : short[i] = rc[i]
  BY PrefixOf
<1> HIDE DEF long, short
<1>2. Matching(long, {o}) = own BY <1>1 DEF Matching
<1>3. own \in SUBSET (1..(n-1)) /\ n-1 \in Nat BY <1>1 DEF Matching
<1>4. own # {} => long[Max(own)] = short[Max(own)]
  <2> SUFFICES ASSUME own # {} PROVE long[Max(own)] = short[Max(own)] OBVIOUS
  <2>1. Max(own) \in 1..(n-1) BY <1>3, NewestIsOne
  <2> QED BY <1>1, <2>1
<1> HIDE DEF own
<1>5. Shown(long, o) = IF own = {} THEN None ELSE long[Max(own)].val BY <1>2 DEF Shown
<1>6. Shown(short, o) = IF own = {} THEN None ELSE short[Max(own)].val BY DEF Shown, own
<1>7. Shown(long, o) = Shown(short, o) BY <1>4, <1>5, <1>6
<1> QED BY <1>7 DEF long, short

LEMMA SeenIsShown ==
  ASSUME NEW h, NEW n \in 0..Len(rec), rec \in Seq(Entries)
  PROVE  Seen(h, n) = [o \in rec[rec[h].val].val |-> Shown(SubSeq(rec, 1, n), o)]
<1> DEFINE short == SubSeq(rec, 1, n)
<1>1. Len(short) = n /\ \A i \in 1..n : short[i] = rec[i] BY PrefixOf
<1> HIDE DEF short
<1>2. ASSUME NEW o
      PROVE  LET own == Matching(short, {o})
             IN  (IF own = {} THEN None ELSE rec[Max(own)].val) = Shown(short, o)
  <2> DEFINE own == Matching(short, {o})
  <2>1. own \in SUBSET (1..n) /\ n \in Nat BY <1>1 DEF Matching
  <2>2. own # {} => short[Max(own)] = rec[Max(own)]
    <3> SUFFICES ASSUME own # {} PROVE short[Max(own)] = rec[Max(own)] OBVIOUS
    <3>1. Max(own) \in 1..n BY <2>1, NewestIsOne
    <3> QED BY <1>1, <3>1
  <2>3. Shown(short, o) = IF own = {} THEN None ELSE short[Max(own)].val BY DEF Shown
  <2> HIDE DEF own
  <2> QED BY <2>2, <2>3 DEF own
<1> QED BY <1>2 DEF Seen, Prefix, short

LEMMA LookedIsFresh == Looked(rec) => AnswersAreFresh
<1> SUFFICES ASSUME Looked(rec), NEW n \in 1..Len(rec), rec[n].k = "answer"
             PROVE  /\ Seen(rec[n].ref, rec[n].ref) = Seen(rec[n].ref, n)
                    /\ rec[rec[n].ref].guard # 0 =>
                         \A m \in rec[n].ref..n :
                           rec[m].k = "write" => rec[m].obj \notin rec[rec[rec[n].ref].guard].val
                    /\ rec[rec[n].ref].claim # 0 =>
                         \E m \in rec[rec[n].ref].val..rec[rec[n].ref].claim :
                           Seen(rec[n].ref, m) = Seen(rec[n].ref, n)
  BY DEF AnswersAreFresh
<1> DEFINE h == rec[n].ref
<1> DEFINE objs == rec[rec[h].val].val
<1> DEFINE at(m) == SubSeq(rec, 1, m)
<1>1. rec \in Seq(Entries) /\ Len(rec) \in Nat BY DEF Looked
<1>2. FindsItsWorld(rec, n) BY DEF Looked
<1>3. h \in 1..(n-1) /\ h \in 1..Len(rec) /\ rec[h].k = "handout"
  BY <1>1, <1>2 DEF FindsItsWorld
<1>4. SealsItsWorld(rec, h) BY <1>3 DEF Looked
<1>5. /\ ContentOver(at(n-1), objs) = rec[h].seal /\ ContentOver(at(h-1), objs) = rec[h].seal
      /\ rec[h].val \in 1..(h-1)
  BY <1>2, <1>4 DEF FindsItsWorld, SealsItsWorld
<1>6. \A m \in 0..Len(rec) : at(m) \in Seq(Entries) BY <1>1, PrefixOf
<1>7. ASSUME NEW m \in 0..Len(rec) PROVE Seen(h, m) = [o \in objs |-> Shown(at(m), o)]
  BY <1>1, SeenIsShown
<1>8. \A o : Shown(at(n), o) = Shown(at(n-1), o) /\ Shown(at(h), o) = Shown(at(h-1), o)
  BY <1>1, <1>3, OthersShowNothing
<1>9. n \in 0..Len(rec) /\ h \in 0..Len(rec) /\ n-1 \in 0..Len(rec) /\ h-1 \in 0..Len(rec)
  BY <1>1, <1>3
<1>10. ASSUME NEW m \in 0..Len(rec), ContentOver(at(m), objs) = rec[h].seal
       PROVE  Seen(h, n) = [o \in objs |-> Shown(at(m), o)]
  <2>1. at(m) \in Seq(Entries) /\ at(n-1) \in Seq(Entries) BY <1>6, <1>9
  <2> HIDE DEF at, objs, h
  <2>2. \A o \in objs : Shown(at(n-1), o) = Shown(at(m), o)
    BY <2>1, <1>5, <1>10, EqualContentsShowAlike
  <2> QED BY <1>7, <1>8, <1>9, <2>2
<1>11. Seen(h, h) = Seen(h, n)
  <2> HIDE DEF at, objs, h
  <2> QED BY <1>5, <1>7, <1>8, <1>9, <1>10
<1>12. ASSUME rec[h].guard # 0, NEW m \in h..n, rec[m].k = "write"
       PROVE  rec[m].obj \notin rec[rec[h].guard].val
  <2> SUFFICES ASSUME rec[m].obj \in rec[rec[h].guard].val PROVE FALSE OBVIOUS
  <2>1. m # n /\ m # h BY <1>3, <1>12
  <2>2. m \in 1..(n-1) /\ m > h BY <1>1, <1>3, <2>1
  <2>3. Len(at(n-1)) = n-1 /\ at(n-1)[m] = rec[m] BY <1>1, <1>9, <2>2, PrefixOf
  <2>4. m \in Matching(at(n-1), rec[rec[h].guard].val) BY <1>12, <2>2, <2>3 DEF Matching
  <2>5. m <= h BY <1>2, <1>12, <2>4 DEF FindsItsWorld
  <2> QED BY <1>1, <1>3, <2>2, <2>5
<1>13. ASSUME rec[h].claim # 0
       PROVE  \E m \in rec[h].val..rec[h].claim : Seen(h, m) = Seen(h, n)
  <2>1. PICK m \in rec[h].val..(h-1) :
          m <= rec[h].claim /\ ContentOver(at(m), objs) = rec[h].seal
    BY <1>4, <1>13 DEF SealsItsWorld
  <2>2. m \in 0..Len(rec) /\ rec[h] \in Entries BY <1>1, <1>3, <1>5, <2>1
  <2>3. m \in rec[h].val..rec[h].claim
    <3>1. rec[h].claim \in Nat BY <2>2 DEF Entries
    <3> QED BY <1>3, <1>5, <2>1, <3>1
  <2>4. Seen(h, m) = Seen(h, n)
    <3> HIDE DEF at, objs, h
    <3> QED BY <1>7, <1>10, <2>1, <2>2
  <2> QED BY <2>3, <2>4
<1> QED BY <1>11, <1>12, <1>13

(* An answer is of the question as it was handed out, through any writes,   *)
(* redefinitions and re-asks in between, and past no guard; and a hand-out  *)
(* that claims an earlier deciding time showed, by that time, what it       *)
(* sealed.                                                                  *)
THEOREM AnswersAreOfTheirQuestion == Spec => []AnswersAreFresh
<1>1. Looked(rec) => AnswersAreFresh BY LookedIsFresh
<1> QED BY <1>1, EveryRecordIsLookedAt, PTL

-----------------------------------------------------------------------------
(* Closing *)

(* What a record that is not about a question leaves as it was.             *)
LEMMA AppendLeavesAnswers ==
  ASSUME NEW rc \in Seq(Entries), NEW e \in Entries, NEW h, ~ (e.k = "answer" /\ e.ref = h)
  PROVE  Answers(Append(rc, e), h) = Answers(rc, h)
<1> DEFINE new == Append(rc, e)
<1>1. /\ Len(rc) \in Nat /\ Len(new) = Len(rc) + 1 /\ new[Len(rc) + 1] = e
      /\ \A n \in 1..Len(rc) : new[n] = rc[n]
  BY AppendKeeps
<1> HIDE DEF new
<1>2. 1..Len(new) = (1..Len(rc)) \cup {Len(rc) + 1} BY <1>1
<1>3. Answers(new, h) = Answers(rc, h) BY <1>1, <1>2 DEF Answers
<1> QED BY <1>3 DEF new

LEMMA AppendLeavesCredential ==
  ASSUME NEW rc \in Seq(Entries), NEW e \in Entries, NEW h, ~ (e.k = "credential" /\ e.ref = h)
  PROVE  CredentialVerified(Append(rc, e), h) = CredentialVerified(rc, h)
<1> DEFINE new == Append(rc, e)
<1> DEFINE answered == {n \in 1..Len(rc) : rc[n].k = "credential" /\ rc[n].ref = h}
<1>1. /\ Len(rc) \in Nat /\ Len(new) = Len(rc) + 1 /\ new[Len(rc) + 1] = e
      /\ \A n \in 1..Len(rc) : new[n] = rc[n]
  BY AppendKeeps
<1> HIDE DEF new
<1>2. 1..Len(new) = (1..Len(rc)) \cup {Len(rc) + 1} BY <1>1
<1>3. {n \in 1..Len(new) : new[n].k = "credential" /\ new[n].ref = h} = answered BY <1>1, <1>2
<1>4. answered \in SUBSET (1..Len(rc)) OBVIOUS
<1>5. answered # {} => Max(answered) \in 1..Len(rc) BY <1>1, <1>4, NewestIsOne
<1>6. CredentialVerified(rc, h) = (answered # {} /\ rc[Max(answered)].pass) BY DEF CredentialVerified
<1> HIDE DEF answered
<1>7. CredentialVerified(new, h) = (answered # {} /\ new[Max(answered)].pass) BY <1>3 DEF CredentialVerified
<1>8. CredentialVerified(new, h) = CredentialVerified(rc, h) BY <1>1, <1>5, <1>6, <1>7
<1> QED BY <1>8 DEF new

LEMMA AppendLeavesClosed ==
  ASSUME NEW rc \in Seq(Entries), NEW e \in Entries, NEW h \in Handouts(rc),
         StateOf(rc, h) # "open", ~ (e.k = "answer" /\ e.ref = h)
  PROVE  StateOf(Append(rc, e), h) = StateOf(rc, h)
<1> DEFINE new == Append(rc, e)
<1>1. /\ Len(rc) \in Nat /\ Len(new) = Len(rc) + 1 /\ new[Len(rc) + 1] = e
      /\ \A n \in 1..Len(rc) : new[n] = rc[n]
  BY AppendKeeps
<1>2. Answers(new, h) = Answers(rc, h) BY AppendLeavesAnswers
<1> HIDE DEF new
<1>3. Handouts(rc) \subseteq Handouts(new) /\ Children(rc, h) \subseteq Children(new, h)
  BY <1>1 DEF Handouts, Children
<1>4. StateOf(new, h) = StateOf(rc, h) BY <1>2, <1>3 DEF StateOf
<1> QED BY <1>4 DEF new

(* A step leaves the record, or appends to it: an answer only to an open    *)
(* question whose pack still holds, and word of a credential only to an     *)
(* open one.                                                                *)
Appends(e) ==
  /\ e \in Entries /\ rec' = Append(rec, e)
  /\ e.k = "answer" => StateOf(rec, e.ref) = "open" /\ Holds(rec, e.ref)
  /\ e.k = "credential" => StateOf(rec, e.ref) = "open"

LEMMA NextAppends ==
  ASSUME Looked(rec), Looked(rec)', Next
  PROVE  \E e \in Entries : Appends(e)
<1>1. rec \in Seq(Entries) /\ rec' \in Seq(Entries) BY DEF Looked
<1>2. \A e : rec' = Append(rec, e) => e \in Entries
  <2> TAKE e
  <2> HAVE rec' = Append(rec, e)
  <2>1. Len(rec') = Len(rec) + 1 /\ rec'[Len(rec) + 1] = e BY <1>1
  <2> QED BY <1>1, <2>1
<1>3. CASE Write
  <2>1. PICK o \in Objects, v \in Values : Record([Entry EXCEPT !.obj = o, !.val = v]) BY <1>3 DEF Write
  <2>2. [Entry EXCEPT !.obj = o, !.val = v].k = "write" BY DEF Entry
  <2> QED BY <1>2, <2>1, <2>2 DEF Record, Appends
<1>4. CASE DefineView
  <2>1. PICK name, objs : Record([Entry EXCEPT !.k = "view", !.obj = name, !.val = objs])
    BY <1>4 DEF DefineView
  <2>2. [Entry EXCEPT !.k = "view", !.obj = name, !.val = objs].k = "view" BY DEF Entry
  <2> QED BY <1>2, <2>1, <2>2 DEF Record, Appends
<1>5. CASE HandOut
  <2>1. PICK guarded, parent, claim : Record([Handout(guarded, parent) EXCEPT !.claim = claim])
    BY <1>5 DEF HandOut
  <2>2. [Handout(guarded, parent) EXCEPT !.claim = claim].k = "handout" BY DEF Handout, Entry
  <2> QED BY <1>2, <2>1, <2>2 DEF Record, Appends
<1>6. CASE ReJudge
  <2>1. PICK h \in Handouts(rec) : Record(Handout(rec[h].guard # 0, h)) BY <1>6 DEF ReJudge
  <2>2. Handout(rec[h].guard # 0, h).k = "handout" BY DEF Handout, Entry
  <2> QED BY <1>2, <2>1, <2>2 DEF Record, Appends
<1>7. CASE Answer
  <2>1. PICK h \in 1..Len(rec) :
          CheckFingerprint(h) /\ Record([Entry EXCEPT !.k = "answer", !.ref = h, !.pass = TRUE])
    BY <1>7 DEF Answer
  <2> DEFINE e == [Entry EXCEPT !.k = "answer", !.ref = h, !.pass = TRUE]
  <2>2. e.k = "answer" /\ e.ref = h BY DEF Entry
  <2>3. rec' = Append(rec, e) BY <2>1 DEF Record
  <2> HIDE DEF e
  <2> QED BY <1>2, <2>1, <2>2, <2>3 DEF Appends, CheckFingerprint, Binds
<1>8. CASE CredentialOutcome
  <2>1. PICK h \in 1..Len(rec), match \in BOOLEAN :
          Binds(h) /\ Record([Entry EXCEPT !.k = "credential", !.ref = h, !.pass = match])
    BY <1>8 DEF CredentialOutcome
  <2> DEFINE e == [Entry EXCEPT !.k = "credential", !.ref = h, !.pass = match]
  <2>2. e.k = "credential" /\ e.ref = h BY DEF Entry
  <2>3. rec' = Append(rec, e) BY <2>1 DEF Record
  <2> HIDE DEF e
  <2> QED BY <1>2, <2>1, <2>2, <2>3 DEF Appends, Binds
<1> QED BY <1>3, <1>4, <1>5, <1>6, <1>7, <1>8 DEF Next

(* No step answers a question that is closed, or one whose ground has       *)
(* moved, or brings word of its credential, or reopens it.                  *)
LEMMA StepsKeepClosed == Looked(rec) /\ [Next]_rec => [ClosedStaysClosedStep]_rec
<1> SUFFICES ASSUME Looked(rec), Next PROVE ClosedStaysClosedStep OBVIOUS
<1>1. rec \in Seq(Entries) BY DEF Looked
<1>2. Looked(rec)' BY NextLooked
<1>3. PICK e \in Entries : Appends(e) BY <1>2, NextAppends
<1>4. rec' = Append(rec, e) BY <1>3 DEF Appends
<1>5. ASSUME NEW h \in StaleCrossings PROVE Answers(rec', h) = Answers(rec, h)
  <2>1. ~ (e.k = "answer" /\ e.ref = h) BY <1>3, <1>5 DEF Appends, StaleCrossings
  <2> QED BY <1>1, <1>4, <2>1, AppendLeavesAnswers
<1>6. ASSUME NEW h \in Handouts(rec), StateOf(rec, h) # "open"
      PROVE  /\ Answers(rec', h) = Answers(rec, h)
             /\ CredentialVerified(rec', h) = CredentialVerified(rec, h)
             /\ StateOf(rec', h) = StateOf(rec, h)
  <2>1. ~ (e.k = "answer" /\ e.ref = h) /\ ~ (e.k = "credential" /\ e.ref = h)
    BY <1>3, <1>6 DEF Appends
  <2>2. Answers(rec', h) = Answers(rec, h) BY <1>1, <1>4, <2>1, AppendLeavesAnswers
  <2>3. CredentialVerified(rec', h) = CredentialVerified(rec, h)
    BY <1>1, <1>4, <2>1, AppendLeavesCredential
  <2>4. StateOf(rec', h) = StateOf(rec, h) BY <1>1, <1>4, <1>6, <2>1, AppendLeavesClosed
  <2> QED BY <2>2, <2>3, <2>4
<1> QED BY <1>5, <1>6 DEF ClosedStaysClosedStep

(* A closed question stays closed: once answered it is not answered again,  *)
(* once asked anew it gets no late answer and no word of its credential,    *)
(* and an open one whose ground has moved gets no answer.                   *)
THEOREM ClosedStaysClosed == Spec => [][ClosedStaysClosedStep]_rec
<1>1. Looked(rec) /\ [Next]_rec => [ClosedStaysClosedStep]_rec BY StepsKeepClosed
<1> QED BY <1>1, EveryRecordIsLookedAt, PTL DEF Spec

-----------------------------------------------------------------------------
(* Some numbers have a least one, and numbers up to a bound a greatest.     *)
LEMMA LeastOf ==
  ASSUME NEW S \in SUBSET Nat, S # {}
  PROVE  \E m \in S : \A k \in S : m <= k
<1> DEFINE R == OpToRel(<, Nat)
<1>1. IsWellFoundedOn(R, Nat) BY NatLessThanWellFounded
<1>2. \A i, j \in Nat : <<i, j>> \in R <=> i < j BY DEF OpToRel
<1> HIDE DEF R
<1>3. PICK m \in S : \A k \in S : ~ <<k, m>> \in R BY <1>1, WFMin
<1>4. m \in Nat /\ \A k \in S : k \in Nat /\ ~ (k < m) BY <1>2, <1>3
<1>5. \A k \in S : m <= k BY <1>4
<1> QED BY <1>5

LEMMA LeastIs ==
  ASSUME NEW S \in SUBSET Nat, NEW m \in S, \A k \in S : m <= k
  PROVE  Standing!Min(S) = m
<1>1. \A x \in S : (\A y \in S : x <= y) => x = m OBVIOUS
<1> QED BY <1>1 DEF Standing!Min

LEMMA GreatestIs ==
  ASSUME NEW S \in SUBSET Nat, NEW m \in S, \A k \in S : k <= m
  PROVE  Standing!Max(S) = m
<1>1. \A x \in S : (\A y \in S : x >= y) => x = m OBVIOUS
<1>2. \A y \in S : m >= y OBVIOUS
<1> QED BY <1>1, <1>2 DEF Standing!Max

LEMMA GreatestOf ==
  ASSUME NEW n \in Nat, NEW S \in SUBSET (1..n), S # {}
  PROVE  Standing!Max(S) \in S /\ \A k \in S : k <= Standing!Max(S)
<1> DEFINE T == {k \in 0..n : n - k \in S}
<1>1. PICK x \in S : TRUE OBVIOUS
<1>2. n - x \in T
  <2>1. x \in 1..n /\ n - x \in 0..n /\ n - (n - x) = x OBVIOUS
  <2> QED BY <2>1
<1>3. PICK t \in T : \A k \in T : t <= k
  <2>1. T \subseteq Nat OBVIOUS
  <2>2. T # {} BY <1>2
  <2> HIDE DEF T
  <2> QED BY <2>1, <2>2, LeastOf
<1>4. ASSUME NEW k \in S PROVE k <= n - t
  <2>1. k \in 1..n /\ n - k \in 0..n /\ n - (n - k) = k OBVIOUS
  <2>3. n - k \in T BY <2>1
  <2>2. t <= n - k /\ t \in 0..n /\ k \in 1..n BY <2>1, <2>3, <1>3
  <2> QED BY <2>2
<1>5. n - t \in S /\ S \subseteq Nat BY <1>3
<1> QED BY <1>4, <1>5, GreatestIs

-----------------------------------------------------------------------------
(* An engine is a record of its parts, its sessions are numbered.           *)
IsEngine(eng) ==
  /\ eng = [budget |-> eng.budget, sessions |-> eng.sessions, channel |-> eng.channel,
            delivered |-> eng.delivered, dangling |-> eng.dangling, pending |-> eng.pending,
            shed |-> eng.shed, starved |-> eng.starved]
  /\ eng.sessions = [s \in Sessions |-> eng.sessions[s]]

Alike(eng, old) == IsEngine(eng) /\ eng.budget = old.budget /\ eng.sessions = old.sessions

LEMMA EnqueueIsAlike ==
  ASSUME NEW eng, IsEngine(eng), NEW item
  PROVE  Alike(Standing!Enqueue(eng, item), eng)
BY DEF IsEngine, Alike, Standing!Enqueue

LEMMA DrainIsAlike ==
  ASSUME NEW eng, IsEngine(eng)
  PROVE  Alike(Standing!Drain(eng), eng)
<1>1. ASSUME NEW p, NEW q, NEW c, NEW d
      PROVE  Alike([eng EXCEPT !.pending = p, !.starved = q, !.channel = c, !.delivered = d], eng)
  <2>1. [eng EXCEPT !.pending = p, !.starved = q, !.channel = c, !.delivered = d]
          = [budget |-> eng.budget, sessions |-> eng.sessions, channel |-> c, delivered |-> d,
             dangling |-> eng.dangling, pending |-> p, shed |-> eng.shed, starved |-> q]
    <3>1. DOMAIN eng = {"budget", "sessions", "channel", "delivered", "dangling", "pending", "shed", "starved"}
      BY DEF IsEngine
    <3> DEFINE new == [eng EXCEPT !.pending = p, !.starved = q, !.channel = c, !.delivered = d]
    <3>2. DOMAIN new = DOMAIN eng OBVIOUS
    <3>3. new.pending = p /\ new.starved = q /\ new.channel = c /\ new.delivered = d BY <3>1
    <3>4. new.budget = eng.budget /\ new.sessions = eng.sessions /\ new.dangling = eng.dangling /\ new.shed = eng.shed BY <3>1
    <3>5. new = [x \in DOMAIN new |-> new[x]] OBVIOUS
    <3> HIDE DEF new
    <3> QED BY <3>1, <3>2, <3>3, <3>4, <3>5
  <2> QED BY <2>1 DEF IsEngine, Alike
<1> QED BY <1>1 DEF Standing!Drain

LEMMA NewIsEngine ==
  ASSUME NEW b
  PROVE  IsEngine(Standing!NewEngine(b, Standing!NoSessions))
BY DEF IsEngine, Standing!NewEngine, Standing!NoSessions

(* What a step makes of the budget and of the sessions.                     *)
BudgetBy(e, b) == IF e.k = "budget" THEN e.value ELSE b
SessionsBy(e, n, ss) ==
  [s \in Sessions |->
     IF e.k = "open" /\ e.value = s THEN IF ss[s] = 0 THEN n ELSE ss[s]
     ELSE IF e.k = "close" /\ e.value = s THEN 0
     ELSE ss[s]]

LEMMA AbsorbIs ==
  ASSUME NEW eng, IsEngine(eng), NEW e, NEW n
  PROVE  /\ IsEngine(Standing!Absorb(eng, e, n))
         /\ Standing!Absorb(eng, e, n).budget = BudgetBy(e, eng.budget)
         /\ Standing!Absorb(eng, e, n).sessions = SessionsBy(e, n, eng.sessions)
<1>1. CASE e.k = "budget" BY <1>1 DEF IsEngine, BudgetBy, SessionsBy, Standing!Absorb
<1>2. CASE e.k = "open" BY <1>2 DEF IsEngine, BudgetBy, SessionsBy, Standing!Absorb
<1>3. CASE e.k = "close" BY <1>3 DEF IsEngine, BudgetBy, SessionsBy, Standing!Absorb
<1>4. CASE ~ e.k \in {"budget", "open", "close"}
  BY <1>4 DEF IsEngine, BudgetBy, SessionsBy, Standing!Absorb
<1> QED BY <1>1, <1>2, <1>3, <1>4

LEMMA TargetIsAlike ==
  ASSUME NEW eng, IsEngine(eng), NEW e, NEW n \in Nat, NEW view
  PROVE  Alike(Standing!TargetSessions(eng, e, n, view), eng)
<1> DEFINE at(i) == {s \in Sessions : eng.sessions[s] = i}
<1> DEFINE By(en, i) == IF at(i) = {} THEN en
                        ELSE Standing!Enqueue(en, Standing!Item(e, n, CHOOSE s \in at(i) : TRUE))
<1> DEFINE Is(f, m) == f = [i \in 0..m |-> IF i = 0 THEN eng ELSE By(f[i-1], i)]
<1>1. ASSUME NEW en, Alike(en, eng), NEW i PROVE Alike(By(en, i), eng)
  BY <1>1, EnqueueIsAlike DEF Alike
<1>2. \E f : Is(f, n)
  <2> HIDE DEF By
  <2> DEFINE Bad == {k \in Nat : ~ \E f : Is(f, k)}
  <2>1. SUFFICES ASSUME Bad # {} PROVE FALSE OBVIOUS
  <2>2. PICK k \in Bad : \A j \in Bad : k <= j
    <3>1. Bad \in SUBSET Nat OBVIOUS
    <3> HIDE DEF Bad
    <3> QED BY <2>1, <3>1, LeastOf
  <2>3. k # 0
    <3>1. Is([i \in 0..0 |-> eng], 0) OBVIOUS
    <3> QED BY <3>1
  <2>4. PICK f : Is(f, k - 1)
    <3>1. k \in Nat /\ k - 1 \in Nat /\ ~ (k <= k - 1) BY <2>3
    <3>2. ~ (k - 1 \in Bad) BY <2>2, <3>1
    <3> HIDE DEF Is
    <3> QED BY <3>1, <3>2
  <2> DEFINE g == [i \in 0..k |-> IF i = k THEN By(f[k-1], k) ELSE f[i]]
  <2>5. ASSUME NEW i \in 0..k PROVE g[i] = IF i = 0 THEN eng ELSE By(g[i-1], i)
    <3>1. CASE i = k BY <3>1, <2>3
    <3>2. CASE i # k
      <4>1. i \in 0..(k-1) /\ g[i] = f[i] /\ (i # 0 => g[i-1] = f[i-1]) BY <3>2, <2>3
      <4>2. f[i] = IF i = 0 THEN eng ELSE By(f[i-1], i) BY <4>1, <2>4
      <4> QED BY <4>1, <4>2
    <3> QED BY <3>1, <3>2
  <2>7. g = [i \in 0..k |-> g[i]] OBVIOUS
  <2> HIDE DEF g
  <2>8. Is(g, k) BY <2>5, <2>7
  <2> QED BY <2>2, <2>8
<1>3. CASE ~ Standing!IsLaw(e) BY <1>3 DEF Standing!TargetSessions, Alike
<1>4. CASE Standing!IsLaw(e) /\ view = None
  <2>1. ASSUME NEW d PROVE Alike([eng EXCEPT !.dangling = d], eng) BY DEF IsEngine, Alike
  <2> QED BY <2>1, <1>4 DEF Standing!TargetSessions
<1>5. CASE Standing!IsLaw(e) /\ view # None /\ e.topic # view.topic
  BY <1>5 DEF Standing!TargetSessions, Alike
<1>6. CASE Standing!IsLaw(e) /\ view # None /\ e.topic = view.topic
  <2> DEFINE served == CHOOSE f : Is(f, n)
  <2>1. Is(served, n) BY <1>2
  <2>2. Standing!TargetSessions(eng, e, n, view) = served[n]
    BY <1>6 DEF Standing!TargetSessions
  <2>3. ASSUME NEW i \in 0..n PROVE served[i] = IF i = 0 THEN eng ELSE By(served[i-1], i)
    BY <2>1
  <2> HIDE DEF served, By, Is
  <2> DEFINE Bad == {i \in 0..n : ~ Alike(served[i], eng)}
  <2>4. ASSUME Bad # {} PROVE FALSE
    <3>1. PICK i \in Bad : \A j \in Bad : i <= j
      <4>1. Bad \in SUBSET Nat OBVIOUS
      <4> HIDE DEF Bad
      <4> QED BY <2>4, <4>1, LeastOf
    <3>2. i # 0 BY <3>1, <2>3 DEF Alike
    <3>3. i - 1 \in 0..n /\ ~ (i <= i - 1) BY <3>2
    <3>4. Alike(served[i-1], eng) BY <3>1, <3>3
    <3> QED BY <1>1, <2>3, <3>2, <3>4
  <2>5. Alike(served[n], eng) BY <2>4
  <2> QED BY <2>2, <2>5
<1> QED BY <1>3, <1>4, <1>5, <1>6

LEMMA StepIs ==
  ASSUME NEW eng, IsEngine(eng), NEW e, NEW n \in Nat, NEW def, NEW view
  PROVE  /\ IsEngine(Standing!Step(eng, e, n, def, view))
         /\ Standing!Step(eng, e, n, def, view).budget = BudgetBy(e, eng.budget)
         /\ Standing!Step(eng, e, n, def, view).sessions = SessionsBy(e, n, eng.sessions)
<1> DEFINE absorbed == Standing!Absorb(eng, e, n)
<1> DEFINE moves == def # None /\ def.moves /\ n > def.seq /\ e.topic = def.topic
<1> DEFINE queued ==
      IF moves THEN Standing!Enqueue(absorbed, Standing!Item(e, n, Standing!Channel)) ELSE absorbed
<1> DEFINE served == Standing!TargetSessions(queued, e, n, view)
<1>1. Standing!Step(eng, e, n, def, view) = Standing!Drain(served) BY DEF Standing!Step
<1>2. /\ IsEngine(absorbed) /\ absorbed.budget = BudgetBy(e, eng.budget)
      /\ absorbed.sessions = SessionsBy(e, n, eng.sessions)
  BY AbsorbIs
<1> HIDE DEF absorbed, moves
<1>3. Alike(queued, absorbed) BY <1>2, EnqueueIsAlike DEF Alike
<1> HIDE DEF queued
<1>4. Alike(served, queued) BY <1>3, TargetIsAlike DEF Alike
<1> HIDE DEF served
<1>5. Alike(Standing!Drain(served), served) BY <1>4, DrainIsAlike DEF Alike
<1> QED BY <1>1, <1>2, <1>3, <1>4, <1>5 DEF Alike

-----------------------------------------------------------------------------
(* The derivation, record by record.                                        *)
Fresh == Standing!NewEngine(Standing!NoLimit, Standing!NoSessions)

Along(rc, f, m, def) ==
  f = [n \in 0..m |-> IF n = 0 THEN Fresh ELSE Standing!Step(f[n-1], rc[n], n, def, def)]

LEMMA SomeAlong ==
  ASSUME NEW rc, NEW m \in Nat, NEW def
  PROVE  \E f : Along(rc, f, m, def)
<1> DEFINE Bad == {k \in Nat : ~ \E f : Along(rc, f, k, def)}
<1>1. SUFFICES ASSUME Bad # {} PROVE FALSE OBVIOUS
<1>2. PICK k \in Bad : \A j \in Bad : k <= j
  <2>1. Bad \in SUBSET Nat OBVIOUS
  <2> HIDE DEF Bad
  <2> QED BY <1>1, <2>1, LeastOf
<1>3. k # 0
  <2>1. Along(rc, [n \in 0..0 |-> Fresh], 0, def) BY DEF Along
  <2> QED BY <2>1
<1>4. PICK f : Along(rc, f, k - 1, def)
  <2>1. k \in Nat /\ k - 1 \in Nat /\ ~ (k <= k - 1) BY <1>3
  <2> QED BY <1>2, <2>1
<1> DEFINE By(en, n) == Standing!Step(en, rc[n], n, def, def)
<1> DEFINE g == [n \in 0..k |-> IF n = k THEN By(f[k-1], k) ELSE f[n]]
<1>5. ASSUME NEW n \in 0..k PROVE g[n] = IF n = 0 THEN Fresh ELSE By(g[n-1], n)
  <2>1. CASE n = k BY <2>1, <1>3
  <2>2. CASE n # k
    <3>1. n \in 0..(k-1) /\ g[n] = f[n] /\ (n # 0 => g[n-1] = f[n-1]) BY <2>2, <1>3
    <3>2. f[n] = IF n = 0 THEN Fresh ELSE By(f[n-1], n) BY <3>1, <1>4 DEF Along
    <3> QED BY <3>1, <3>2
  <2> QED BY <2>1, <2>2
<1>6. g = [n \in 0..k |-> g[n]] OBVIOUS
<1> HIDE DEF g
<1>7. Along(rc, g, k, def) BY <1>5, <1>6 DEF Along
<1> QED BY <1>2, <1>7

LEMMA AlongIs ==
  ASSUME NEW rc, Len(rc) \in Nat
  PROVE  /\ Standing!Along(rc)[0] = Fresh
         /\ \A n \in 1..Len(rc) :
              Standing!Along(rc)[n] = Standing!Step(Standing!Along(rc)[n-1], rc[n], n,
                                                    Standing!ViewOf(rc), Standing!ViewOf(rc))
<1>1. \E f : Along(rc, f, Len(rc), Standing!ViewOf(rc)) BY SomeAlong
<1>2. Along(rc, Standing!Along(rc), Len(rc), Standing!ViewOf(rc))
  BY <1>1 DEF Standing!Along, Along, Fresh
<1> QED BY <1>2 DEF Along

(* Two records that begin alike, under one view, derive alike so far.       *)
LEMMA AlongIsOfItsPrefix ==
  ASSUME NEW rc, Len(rc) \in Nat, NEW ext, Len(ext) \in Nat, Len(rc) <= Len(ext),
         \A n \in 1..Len(rc) : ext[n] = rc[n],
         Standing!ViewOf(ext) = Standing!ViewOf(rc)
  PROVE  \A n \in 0..Len(rc) : Standing!Along(ext)[n] = Standing!Along(rc)[n]
<1> DEFINE Bad == {n \in 0..Len(rc) : Standing!Along(ext)[n] # Standing!Along(rc)[n]}
<1>1. SUFFICES ASSUME Bad # {} PROVE FALSE OBVIOUS
<1>2. PICK k \in Bad : \A j \in Bad : k <= j
  <2>1. Bad \in SUBSET Nat OBVIOUS
  <2> HIDE DEF Bad
  <2> QED BY <1>1, <2>1, LeastOf
<1>3. k # 0 BY AlongIs
<1>4. k \in 1..Len(rc) /\ k \in 1..Len(ext) /\ k - 1 \in 0..Len(rc) /\ ~ (k <= k - 1) BY <1>3
<1>5. Standing!Along(ext)[k-1] = Standing!Along(rc)[k-1] BY <1>2, <1>4
<1>6. Standing!Along(ext)[k] = Standing!Along(rc)[k] BY <1>4, <1>5, AlongIs
<1> QED BY <1>6

-----------------------------------------------------------------------------
(* Records, the budget and the sessions of a record up to a place of it.    *)
Kinds == {"traffic", "law", "budget", "view", "open", "close", "undo"}
Recs ==
  [k : Kinds, topic : Topics \cup {None},
   value : Budgets \cup Sessions \cup Nat \cup BOOLEAN \cup {None}]

LEMMA AppendIs ==
  ASSUME NEW rc \in Seq(Recs), NEW e \in Recs
  PROVE  /\ Append(rc, e) \in Seq(Recs)
         /\ Len(Append(rc, e)) = Len(rc) + 1
         /\ \A n \in 1..Len(rc) : Append(rc, e)[n] = rc[n]
         /\ Append(rc, e)[Len(rc) + 1] = e
         /\ Standing!Last(Append(rc, e)) = e
BY DEF Standing!Last

LEMMA ViewStays ==
  ASSUME NEW rc \in Seq(Recs), NEW e \in Recs, e.k # "view"
  PROVE  Standing!ViewOf(Append(rc, e)) = Standing!ViewOf(rc)
<1> DEFINE ext == Append(rc, e)
<1> DEFINE defs == {n \in 1..Len(rc) : rc[n].k = "view"}
<1>1. /\ Len(ext) = Len(rc) + 1 /\ Len(rc) \in Nat /\ ext[Len(rc) + 1] = e
      /\ \A n \in 1..Len(rc) : ext[n] = rc[n]
  BY AppendIs
<1> HIDE DEF ext
<1>2. {n \in 1..Len(ext) : ext[n].k = "view"} = defs
  <2>1. ASSUME NEW n \in 1..Len(ext) PROVE n \in 1..Len(rc) \/ n = Len(rc) + 1 BY <1>1
  <2> QED BY <1>1, <2>1
<1>3. CASE defs = {} BY <1>2, <1>3 DEF Standing!ViewOf
<1>4. CASE defs # {}
  <2>1. Standing!Max(defs) \in defs BY <1>1, <1>4, GreatestOf
  <2>2. ext[Standing!Max(defs)] = rc[Standing!Max(defs)] BY <1>1, <2>1
  <2>3. Standing!ViewOf(rc)
          = [topic |-> rc[Standing!Max(defs)].topic, moves |-> rc[Standing!Max(defs)].value,
             seq |-> Standing!Max(defs)]
    BY <1>4 DEF Standing!ViewOf
  <2> HIDE DEF defs
  <2>4. Standing!ViewOf(ext)
          = [topic |-> ext[Standing!Max(defs)].topic, moves |-> ext[Standing!Max(defs)].value,
             seq |-> Standing!Max(defs)]
    BY <1>2, <1>4 DEF Standing!ViewOf
  <2> QED BY <2>2, <2>3, <2>4 DEF ext
<1> QED BY <1>3, <1>4

BudgetAt(rc, n) ==
  LET live == {m \in 1..n : rc[m].k = "budget"}
  IN  IF live = {} THEN Standing!NoLimit ELSE rc[Standing!Max(live)].value

Own(rc, n, s) == {m \in 1..n : rc[m].k \in {"open", "close"} /\ rc[m].value = s}
Opens(rc, n, s) == {m \in Own(rc, n, s) : rc[m].k = "open"}
SessionsAt(rc, n) ==
  [s \in Sessions |->
     IF Own(rc, n, s) # {} /\ rc[Standing!Max(Own(rc, n, s))].k = "open"
     THEN Standing!Min(Opens(rc, n, s)) ELSE 0]

(* No session of the record returned after it was closed.                   *)
NoReturn(rc) ==
  \A l, m, n \in 1..Len(rc) :
    l < m /\ m < n /\ rc[l].k = "open" /\ rc[m].k = "close" /\ rc[n].k = "open"
    => ~ (rc[l].value = rc[n].value /\ rc[m].value = rc[n].value)

LEMMA BudgetIsAlong ==
  ASSUME NEW rc \in Seq(Recs)
  PROVE  \A n \in 0..Len(rc) : IsEngine(Standing!Along(rc)[n])
                              /\ Standing!Along(rc)[n].budget = BudgetAt(rc, n)
<1> DEFINE Good(n) == IsEngine(Standing!Along(rc)[n]) /\ Standing!Along(rc)[n].budget = BudgetAt(rc, n)
<1> DEFINE Bad == {n \in 0..Len(rc) : ~ Good(n)}
<1>1. SUFFICES ASSUME Bad # {} PROVE FALSE OBVIOUS
<1>2. PICK k \in Bad : \A j \in Bad : k <= j
  <2>1. Bad \in SUBSET Nat OBVIOUS
  <2> HIDE DEF Bad
  <2> QED BY <1>1, <2>1, LeastOf
<1> DEFINE live(n) == {m \in 1..n : rc[m].k = "budget"}
<1>3. k # 0
  <2>1. Standing!Along(rc)[0] = Fresh BY AlongIs
  <2>2. BudgetAt(rc, 0) = Standing!NoLimit
    <3>1. live(0) = {} OBVIOUS
    <3> QED BY <3>1 DEF BudgetAt
  <2>3. Fresh.budget = Standing!NoLimit BY DEF Fresh, Standing!NewEngine
  <2>4. IsEngine(Fresh) BY NewIsEngine DEF Fresh
  <2> QED BY <2>1, <2>2, <2>3, <2>4
<1>4. k \in 1..Len(rc) /\ k - 1 \in 0..Len(rc) /\ ~ (k <= k - 1) BY <1>3
<1>5. Good(k - 1) BY <1>2, <1>4
<1>6. /\ IsEngine(Standing!Along(rc)[k])
      /\ Standing!Along(rc)[k].budget = BudgetBy(rc[k], BudgetAt(rc, k - 1))
  BY <1>4, <1>5, AlongIs, StepIs
<1>7. BudgetBy(rc[k], BudgetAt(rc, k - 1)) = BudgetAt(rc, k)
  <2>1. CASE rc[k].k = "budget"
    <3>1. k \in live(k) /\ live(k) \subseteq Nat /\ \A j \in live(k) : j <= k BY <1>4, <2>1
    <3> HIDE DEF live
    <3>2. Standing!Max(live(k)) = k BY <3>1, GreatestIs
    <3> QED BY <2>1, <3>1, <3>2 DEF BudgetBy, BudgetAt, live
  <2>2. CASE rc[k].k # "budget"
    <3>1. live(k) = live(k - 1)
      <4>1. \A m \in 1..k : m \in 1..(k - 1) \/ m = k BY <1>4
      <4> QED BY <1>4, <2>2, <4>1
    <3> QED BY <2>2, <3>1 DEF BudgetBy, BudgetAt
  <2> QED BY <2>1, <2>2
<1> QED BY <1>6, <1>7

LEMMA SessionsStep ==
  ASSUME NEW rc \in Seq(Recs), NoReturn(rc), NEW k \in 1..Len(rc)
  PROVE  SessionsBy(rc[k], k, SessionsAt(rc, k - 1)) = SessionsAt(rc, k)
<1> SUFFICES ASSUME NEW s \in Sessions
             PROVE  SessionsBy(rc[k], k, SessionsAt(rc, k - 1))[s] = SessionsAt(rc, k)[s]
  BY DEF SessionsBy, SessionsAt
<1> DEFINE own == Own(rc, k - 1, s)
<1> DEFINE opens == Opens(rc, k - 1, s)
<1>1. k - 1 \in Nat /\ k \in Nat /\ \A m \in 1..k : m \in 1..(k-1) \/ m = k OBVIOUS
<1>2. CASE ~ (rc[k].k \in {"open", "close"} /\ rc[k].value = s)
  <2>1. Own(rc, k, s) = own BY <1>1, <1>2 DEF Own
  <2> QED BY <1>2, <2>1 DEF SessionsBy, SessionsAt, Opens
<1>3. CASE rc[k].k \in {"open", "close"} /\ rc[k].value = s
  <2>1. Own(rc, k, s) = own \cup {k} BY <1>1, <1>3 DEF Own
  <2>2. Standing!Max(Own(rc, k, s)) = k
    <3>1. Own(rc, k, s) \subseteq Nat /\ \A j \in Own(rc, k, s) : j <= k BY DEF Own
    <3> QED BY <2>1, <3>1, GreatestIs
  <2>3. CASE rc[k].k = "close" BY <1>3, <2>1, <2>2, <2>3 DEF SessionsBy, SessionsAt
  <2>4. CASE rc[k].k = "open"
    <3>1. Opens(rc, k, s) = opens \cup {k} BY <2>1, <2>4 DEF Opens
    <3>2. SessionsAt(rc, k)[s] = Standing!Min(opens \cup {k})
      BY <2>1, <2>2, <2>4, <3>1 DEF SessionsAt
    <3>3. SessionsBy(rc[k], k, SessionsAt(rc, k - 1))[s]
            = IF SessionsAt(rc, k - 1)[s] = 0 THEN k ELSE SessionsAt(rc, k - 1)[s]
      BY <1>3, <2>4 DEF SessionsBy
    <3>4. own \subseteq 1..(k-1) /\ opens \subseteq own /\ opens \subseteq Nat BY DEF Own, Opens
    <3>5. own # {} => Standing!Max(own) \in own /\ \A j \in own : j <= Standing!Max(own)
      BY <1>1, <3>4, GreatestOf
    <3>6. CASE opens = {}
      <4>1. SessionsAt(rc, k - 1)[s] = 0 BY <3>5, <3>6 DEF SessionsAt, Opens
      <4>2. Standing!Min({k}) = k BY LeastIs
      <4> QED BY <3>2, <3>3, <3>6, <4>1, <4>2
    <3>7. CASE opens # {}
      <4>1. PICK l \in opens : \A j \in opens : l <= j BY <3>4, <3>7, LeastOf
      <4>2. Standing!Min(opens) = l BY <3>4, <4>1, LeastIs
      <4>3. l <= k /\ l \in 1..(k-1) BY <3>4
      <4>4. Standing!Min(opens \cup {k}) = l
        <5>1. opens \cup {k} \in SUBSET Nat /\ l \in opens \cup {k} BY <3>4
        <5>2. \A j \in opens \cup {k} : l <= j BY <4>1, <4>3
        <5> QED BY <5>1, <5>2, LeastIs
      <4>5. rc[Standing!Max(own)].k = "open"
        <5> DEFINE c == Standing!Max(own)
        <5>1. c \in own /\ l <= c /\ c \in 1..(k-1) BY <3>4, <3>5
        <5> HIDE DEF c
        <5>2. SUFFICES ASSUME rc[c].k # "open" PROVE FALSE BY DEF c
        <5>3. rc[c].k = "close" /\ rc[c].value = s BY <5>1, <5>2 DEF Own
        <5>4. rc[l].k = "open" /\ rc[l].value = s BY DEF Opens, Own
        <5>5. l < c /\ c < k BY <5>1, <5>3, <5>4, <4>3
        <5>6. l \in 1..Len(rc) /\ c \in 1..Len(rc) BY <4>3, <5>1
        <5> QED BY <1>3, <2>4, <5>3, <5>4, <5>5, <5>6 DEF NoReturn
      <4>6. SessionsAt(rc, k - 1)[s] = l BY <3>4, <4>2, <4>5, <3>7 DEF SessionsAt
      <4> QED BY <3>2, <3>3, <4>3, <4>4, <4>6
    <3> QED BY <3>6, <3>7
  <2> QED BY <1>3, <2>3, <2>4
<1> QED BY <1>2, <1>3

LEMMA SessionsAreAlong ==
  ASSUME NEW rc \in Seq(Recs), NoReturn(rc)
  PROVE  \A n \in 0..Len(rc) : Standing!Along(rc)[n].sessions = SessionsAt(rc, n)
<1> DEFINE Bad == {n \in 0..Len(rc) : Standing!Along(rc)[n].sessions # SessionsAt(rc, n)}
<1>1. SUFFICES ASSUME Bad # {} PROVE FALSE OBVIOUS
<1>2. PICK k \in Bad : \A j \in Bad : k <= j
  <2>1. Bad \in SUBSET Nat OBVIOUS
  <2> HIDE DEF Bad
  <2> QED BY <1>1, <2>1, LeastOf
<1>3. k # 0
  <2>1. Standing!Along(rc)[0] = Fresh BY AlongIs
  <2>2. \A s \in Sessions : Own(rc, 0, s) = {} BY DEF Own
  <2>3. SessionsAt(rc, 0) = Standing!NoSessions BY <2>2 DEF SessionsAt, Standing!NoSessions
  <2>4. Fresh.sessions = Standing!NoSessions BY DEF Fresh, Standing!NewEngine
  <2> QED BY <2>1, <2>3, <2>4
<1>4. k \in 1..Len(rc) /\ k - 1 \in 0..Len(rc) /\ ~ (k <= k - 1) BY <1>3
<1>5. Standing!Along(rc)[k-1].sessions = SessionsAt(rc, k - 1) BY <1>2, <1>4
<1>6. IsEngine(Standing!Along(rc)[k-1]) BY <1>4, BudgetIsAlong
<1>7. Standing!Along(rc)[k].sessions = SessionsBy(rc[k], k, SessionsAt(rc, k - 1))
  BY <1>4, <1>5, <1>6, AlongIs, StepIs
<1> QED BY <1>4, <1>7, SessionsStep

-----------------------------------------------------------------------------
(* The invariant: a standing that was not moved is the derivation, its view *)
(* is the current one, and nothing of the record has moved it.              *)
Typed ==
  /\ log \in Seq(Recs) /\ moved \in BOOLEAN
  /\ intake \in Seq(Standing!Requests)

Unmoved(rc) == (\A n \in 1..Len(rc) : rc[n].k # "undo") /\ NoReturn(rc)

Derived ==
  ~ moved => engine = Standing!Derive(log) /\ move = Standing!ViewOf(log) /\ Unmoved(log)

(* The worker takes a record as the derivation does.                        *)
LEMMA AppendDerives ==
  ASSUME Typed, engine = Standing!Derive(log), move = Standing!ViewOf(log),
         NEW e \in Recs, Unmoved(Append(log, e)), Standing!OnAppend(Append(log, e))
  PROVE  engine' = Standing!Derive(Append(log, e)) /\ move' = Standing!ViewOf(Append(log, e))
<1> DEFINE ext == Append(log, e)
<1>1. /\ log \in Seq(Recs) /\ ext \in Seq(Recs) /\ Len(ext) = Len(log) + 1 /\ Len(log) \in Nat
      /\ ext[Len(ext)] = e /\ Standing!Last(ext) = e /\ \A n \in 1..Len(log) : ext[n] = log[n]
  BY AppendIs DEF Typed
<1>2. Standing!OnAppend(ext) /\ Unmoved(ext) OBVIOUS
<1>3. CASE e.k = "view"
  <2> DEFINE d == Standing!Derive(ext)
  <2>1. /\ engine' = [d EXCEPT !.budget = Standing!PolicyValue(ext),
                               !.sessions = Standing!LiveSessions(ext)]
        /\ move' = Standing!ViewOf(ext)
    BY <1>1, <1>2, <1>3 DEF Standing!OnAppend, Standing!Resync
  <2>2. IsEngine(d) /\ d.budget = BudgetAt(ext, Len(ext)) /\ d.sessions = SessionsAt(ext, Len(ext))
    <3> HIDE DEF ext
    <3>1. Len(ext) \in 0..Len(ext) BY <1>1
    <3> QED BY <1>1, <1>2, <3>1, BudgetIsAlong, SessionsAreAlong DEF Standing!Derive, Unmoved
  <2>3. Standing!PolicyValue(ext) = BudgetAt(ext, Len(ext))
    <3>1. {n \in 1..Len(ext) : /\ ext[n].k = "budget"
             /\ ~ \E u \in 1..Len(ext) : ext[u].k = "undo" /\ ext[u].value = n}
            = {n \in 1..Len(ext) : ext[n].k = "budget"}
      BY <1>2 DEF Unmoved
    <3> QED BY <3>1 DEF Standing!PolicyValue, BudgetAt
  <2>4. Standing!LiveSessions(ext) = SessionsAt(ext, Len(ext))
    BY DEF Standing!LiveSessions, SessionsAt, Own, Opens
  <2> HIDE DEF d
  <2>5. [d EXCEPT !.budget = d.budget, !.sessions = d.sessions] = d BY <2>2 DEF IsEngine
  <2> QED BY <2>1, <2>2, <2>3, <2>4, <2>5 DEF d
<1>4. CASE e.k # "view"
  <2>1. Standing!ViewOf(ext) = Standing!ViewOf(log) BY <1>1, <1>4, ViewStays
  <2>2. /\ engine' = Standing!Step(engine, e, Len(ext), move, Standing!ViewOf(ext))
        /\ move' = move
    BY <1>1, <1>2, <1>4 DEF Standing!OnAppend
  <2> HIDE DEF ext
  <2>3. Standing!Along(ext)[Len(log)] = Standing!Along(log)[Len(log)]
    BY <1>1, <2>1, AlongIsOfItsPrefix
  <2>4. Len(ext) \in 1..Len(ext) /\ Len(ext) - 1 = Len(log) BY <1>1
  <2>5. Standing!Along(ext)[Len(ext)]
          = Standing!Step(Standing!Along(ext)[Len(ext) - 1], ext[Len(ext)], Len(ext),
                          Standing!ViewOf(ext), Standing!ViewOf(ext))
    BY <1>1, <2>4, AlongIs
  <2>6. Standing!Derive(ext)
          = Standing!Step(Standing!Derive(log), e, Len(ext), Standing!ViewOf(ext), Standing!ViewOf(ext))
    BY <1>1, <2>3, <2>4, <2>5 DEF Standing!Derive
  <2> QED BY <2>1, <2>2, <2>6 DEF ext
<1> QED BY <1>3, <1>4

(* What appends a record and does not move the standing keeps it derived.   *)
LEMMA RecordKeeps ==
  ASSUME Typed, Derived, NEW e \in Recs, Standing!Record(e),
         ~ moved' => ~ moved /\ Unmoved(Append(log, e))
  PROVE  log' \in Seq(Recs) /\ Derived'
<1>1. log' = Append(log, e) /\ Standing!OnAppend(log') BY DEF Standing!Record
<1>2. log' \in Seq(Recs) BY <1>1, AppendIs DEF Typed
<1>3. ASSUME ~ moved'
      PROVE  engine' = Standing!Derive(log') /\ move' = Standing!ViewOf(log') /\ Unmoved(log')
  BY <1>1, <1>3, AppendDerives DEF Derived
<1> QED BY <1>2, <1>3 DEF Derived

(* Which records move nothing.                                              *)
LEMMA PlainKeeps ==
  ASSUME NEW rc \in Seq(Recs), Unmoved(rc), NEW e \in Recs, e.k # "undo",
         e.k = "open" => ~ Standing!Returns(rc, e.value)
  PROVE  Unmoved(Append(rc, e))
<1> DEFINE ext == Append(rc, e)
<1>1. /\ Len(ext) = Len(rc) + 1 /\ Len(rc) \in Nat /\ ext[Len(rc) + 1] = e
      /\ \A n \in 1..Len(rc) : ext[n] = rc[n]
  BY AppendIs
<1> HIDE DEF ext
<1>2. \A n \in 1..Len(ext) : n \in 1..Len(rc) \/ n = Len(rc) + 1 BY <1>1
<1>3. \A n \in 1..Len(ext) : ext[n].k # "undo" BY <1>1, <1>2 DEF Unmoved
<1>4. ASSUME NEW l \in 1..Len(ext), NEW m \in 1..Len(ext), NEW n \in 1..Len(ext), l < m, m < n,
             ext[l].k = "open", ext[m].k = "close", ext[n].k = "open",
             ext[l].value = ext[n].value, ext[m].value = ext[n].value
      PROVE  FALSE
  <2>1. l \in 1..Len(rc) /\ m \in 1..Len(rc) /\ ext[l] = rc[l] /\ ext[m] = rc[m] BY <1>1, <1>4
  <2>2. CASE n \in 1..Len(rc) BY <1>1, <1>4, <2>1, <2>2 DEF Unmoved, NoReturn
  <2>3. CASE n = Len(rc) + 1 BY <1>1, <1>4, <2>1, <2>3 DEF Standing!Returns
  <2> QED BY <1>2, <2>2, <2>3
<1>5. NoReturn(ext) BY <1>4 DEF NoReturn
<1> QED BY <1>3, <1>5 DEF Unmoved, ext

LEMMA InitDerived == Standing!Init => Typed /\ Derived
<1> SUFFICES ASSUME Standing!Init PROVE Typed /\ Derived OBVIOUS
<1>1. log = << >> /\ engine = Fresh /\ move = None /\ intake = << >> /\ moved = FALSE
  BY DEF Standing!Init, Fresh
<1>2. Typed
  <2>1. << >> \in Seq(Recs) /\ << >> \in Seq(Standing!Requests) OBVIOUS
  <2> QED BY <1>1, <2>1 DEF Typed
<1>3. Standing!Along(<< >>)[0] = Fresh BY AlongIs
<1>4. engine = Standing!Derive(log) BY <1>1, <1>3 DEF Standing!Derive
<1>5. Standing!ViewOf(<< >>) = None
  <2>1. {n \in 1..Len(<< >>) : << >>[n].k = "view"} = {} OBVIOUS
  <2> QED BY <2>1 DEF Standing!ViewOf
<1>6. Unmoved(log) BY <1>1 DEF Unmoved, NoReturn
<1> QED BY <1>1, <1>2, <1>4, <1>5, <1>6 DEF Derived

LEMMA NextDerived == Typed /\ Derived /\ [Standing!Next]_(Standing!vars) => (Typed /\ Derived)'
<1> SUFFICES ASSUME Typed, Derived, [Standing!Next]_(Standing!vars) PROVE (Typed /\ Derived)'
  OBVIOUS
<1>0. \A e \in Standing!Requests : e \in Recs /\ e.k \in {"traffic", "law"}
  BY DEF Standing!Requests, Standing!Entry, Recs, Kinds
<1>a. ASSUME log' \in Seq(Recs), Derived', UNCHANGED intake, moved' \in BOOLEAN
      PROVE  (Typed /\ Derived)'
  BY <1>a DEF Typed
<1>b. ASSUME NEW e \in Recs, Standing!Record(e), e.k \notin {"undo", "open"}, UNCHANGED moved
      PROVE  log' \in Seq(Recs) /\ Derived'
  <2>1. ~ moved => Unmoved(Append(log, e)) BY <1>b, PlainKeeps DEF Typed, Derived
  <2> QED BY <1>b, <2>1, RecordKeeps
<1>1. CASE Standing!Act
  <2>1. PICK e \in Recs : Standing!Record(e) /\ e.k \notin {"undo", "open"}
    <3>1. CASE \E e \in Standing!Requests : Standing!Record(e) BY <3>1, <1>0
    <3>2. CASE \E b \in Budgets : Standing!Record(Standing!Entry("budget", None, b))
      <4>1. \A b \in Budgets : /\ Standing!Entry("budget", None, b) \in Recs
                              /\ Standing!Entry("budget", None, b).k = "budget"
        BY DEF Standing!Entry, Recs, Kinds
      <4> QED BY <3>2, <4>1
    <3>3. CASE \E t \in Topics, m \in BOOLEAN : Standing!Record(Standing!Entry("view", t, m))
      <4>1. \A t \in Topics, m \in BOOLEAN : /\ Standing!Entry("view", t, m) \in Recs
                                           /\ Standing!Entry("view", t, m).k = "view"
        BY DEF Standing!Entry, Recs, Kinds
      <4> QED BY <3>3, <4>1
    <3>4. CASE \E s \in Sessions : Standing!Record(Standing!Entry("close", None, s))
      <4>1. \A s \in Sessions : /\ Standing!Entry("close", None, s) \in Recs
                               /\ Standing!Entry("close", None, s).k = "close"
        BY DEF Standing!Entry, Recs, Kinds
      <4> QED BY <3>4, <4>1
    <3> QED BY <1>1, <3>1, <3>2, <3>3, <3>4 DEF Standing!Act
  <2>2. UNCHANGED <<intake, moved>> BY <1>1 DEF Standing!Act
  <2> QED BY <2>1, <2>2, <1>a, <1>b DEF Typed
<1>2. CASE Standing!OpenSession
  <2>1. PICK s \in Sessions : /\ Standing!Record(Standing!Entry("open", None, s))
                             /\ moved' = (moved \/ Standing!Returns(log, s))
    BY <1>2 DEF Standing!OpenSession
  <2> DEFINE e == Standing!Entry("open", None, s)
  <2>2. e \in Recs /\ e.k = "open" /\ e.value = s BY DEF Standing!Entry, Recs, Kinds
  <2>3. Standing!Record(e) BY <2>1
  <2> HIDE DEF e
  <2>4. ~ moved' => ~ moved /\ Unmoved(Append(log, e))
    BY <2>1, <2>2, PlainKeeps DEF Typed, Derived
  <2>5. log' \in Seq(Recs) /\ Derived' BY <2>2, <2>3, <2>4, RecordKeeps
  <2>6. moved' \in BOOLEAN BY <2>1
  <2>7. UNCHANGED intake BY <1>2 DEF Standing!OpenSession
  <2> QED BY <2>5, <2>6, <2>7, <1>a
<1>3. CASE Standing!Undo
  <2>1. PICK n \in 1..Len(log) : Standing!Record(Standing!Entry("undo", None, n))
    BY <1>3 DEF Standing!Undo
  <2>2. moved' = TRUE /\ UNCHANGED intake BY <1>3 DEF Standing!Undo
  <2>3. Standing!Entry("undo", None, n) \in Recs BY DEF Standing!Entry, Recs, Kinds
  <2>4. log' \in Seq(Recs) /\ Derived' BY <2>1, <2>2, <2>3, RecordKeeps
  <2> QED BY <2>2, <2>4, <1>a
<1>4. CASE Standing!Restart BY <1>4 DEF Standing!Restart, Typed, Derived
<1>5. CASE Standing!Submit
  <2>1. PICK e \in Standing!Requests : intake' = Append(intake, e) BY <1>5 DEF Standing!Submit
  <2>2. UNCHANGED <<log, engine, move, moved>> BY <1>5 DEF Standing!Submit
  <2>3. intake' \in Seq(Standing!Requests) BY <2>1 DEF Typed
  <2> QED BY <2>2, <2>3 DEF Typed, Derived
<1>6. CASE Standing!LetThrough
  <2>1. PICK n \in 1..Len(intake) :
          Standing!Record(intake[n]) /\ intake' = Standing!RemoveAt(intake, n)
    BY <1>6 DEF Standing!LetThrough
  <2>2. UNCHANGED moved BY <1>6 DEF Standing!LetThrough
  <2>3. intake[n] \in Standing!Requests BY DEF Typed
  <2>4. log' \in Seq(Recs) /\ Derived' BY <1>0, <1>b, <2>1, <2>2, <2>3
  <2>5. intake' \in Seq(Standing!Requests)
    <3>1. intake \in Seq(Standing!Requests) BY DEF Typed
    <3>2. /\ SubSeq(intake, 1, n - 1) \in Seq(Standing!Requests)
          /\ SubSeq(intake, n + 1, Len(intake)) \in Seq(Standing!Requests)
      BY <3>1
    <3> QED BY <2>1, <3>2 DEF Standing!RemoveAt
  <2> QED BY <2>2, <2>4, <2>5 DEF Typed
<1>7. CASE UNCHANGED Standing!vars BY <1>7 DEF Standing!vars, Typed, Derived
<1> QED BY <1>1, <1>2, <1>3, <1>4, <1>5, <1>6, <1>7 DEF Standing!Next

(* The strengthened invariant holds in every reachable state.               *)
LEMMA AlwaysDerived == Standing!Spec => [](Typed /\ Derived)
<1> QED BY InitDerived, NextDerived, PTL DEF Standing!Spec

(* The worker, which steps its engine once per record, reports what the     *)
(* derivation over the whole record computes (StandingPush._on_append,      *)
(* _resync, derive), unless the worker was restarted, a budget was undone   *)
(* or a closed session was opened again.                                    *)
THEOREM StandingIsDerived == Standing!Spec => []Standing!StandingIsDerived
<1>1. Typed /\ Derived => Standing!StandingIsDerived BY DEF Derived, Standing!StandingIsDerived
<1> QED BY <1>1, AlwaysDerived, PTL

-----------------------------------------------------------------------------
(* The waking of two bodies.  Rows of an image, and what is kept of one     *)
(* image: its rows are marked while a key is bound, with a seed once bound. *)
Faults == Damages \cup {"body", "keys"}
Vals == Nat \cup BOOLEAN \cup (SUBSET Faults) \cup {None}
Acts == {"attest", "ceremony", "system-key", "system-rotate", "system-revoke", "root-key", "wake",
         "conforms", "pair", "anchor"}
Rows == [act : Acts, val : Vals, mark : Nat \cup {None}]

(* A row as it is offered, before the mark.                                 *)
LEMMA RowIs ==
  ASSUME NEW a \in Acts, NEW v \in Vals
  PROVE  /\ Waking!Row(a, v) \in Rows /\ Waking!Row(a, v).act = a
         /\ Waking!Row(a, v).val = v /\ Waking!Row(a, v).mark = None
BY DEF Rows, Waking!Row

KeyRow(r, n) == Waking!Binds(r[n])
Bound(r, m, seed) == \E n \in 1..m : KeyRow(r, n) /\ r[n].val = seed
Keyed(r, m) == \E n \in 1..m : KeyRow(r, n)
Exempt(x) == Waking!IsCeremonyBootstrap(x) \/ x.act = "attest"

MarkedAt(r, n) ==
  /\ r[n].mark # None => Bound(r, n - 1, r[n].mark)
  /\ r[n].mark # None <=> Waking!BoundAsOf(r, n - 1) /\ ~ Exempt(r[n])

Image(r) ==
  /\ r \in Seq(Rows)
  /\ \A n \in 1..Len(r) : MarkedAt(r, n)

(* A row joins an image with the mark of a bound seed or none of need.      *)
Joins(r, x) ==
  /\ x \in Rows
  /\ x.mark # None => Bound(r, Len(r), x.mark)
  /\ x.mark # None <=> Waking!BoundAsOf(r, Len(r)) /\ ~ Exempt(x)

LEMMA JoinedImage ==
  ASSUME NEW r, Image(r), NEW x, Joins(r, x)
  PROVE  /\ Image(Append(r, x))
         /\ \A seed : Bound(r, Len(r), seed) => Bound(Append(r, x), Len(r) + 1, seed)
         /\ Keyed(r, Len(r)) => Keyed(Append(r, x), Len(r) + 1)
         /\ Append(r, x)[Len(r) + 1] = x /\ Len(Append(r, x)) = Len(r) + 1
         /\ \A n \in 1..Len(r) : Append(r, x)[n] = r[n]
<1> DEFINE new == Append(r, x)
<1>1. /\ new \in Seq(Rows) /\ Len(r) \in Nat /\ Len(new) = Len(r) + 1 /\ new[Len(r) + 1] = x
      /\ \A n \in 1..Len(r) : new[n] = r[n]
  BY DEF Image, Joins
<1> HIDE DEF new
<1>2. ASSUME NEW m \in 0..Len(r)
      PROVE  /\ \A seed : Bound(new, m, seed) <=> Bound(r, m, seed)
             /\ Waking!BoundAsOf(new, m) <=> Waking!BoundAsOf(r, m)
  <2>1. \A n \in 1..m : new[n] = r[n] BY <1>1
  <2>2. \A k \in 1..m : \A l \in (k + 1)..m : l \in 1..m BY <1>1
  <2>3. Waking!BoundAsOf(new, m) <=> Waking!BoundAsOf(r, m) BY <2>1, <2>2 DEF Waking!BoundAsOf
  <2> QED BY <2>1, <2>3 DEF Bound, KeyRow
<1>3. ASSUME NEW n \in 1..Len(new) PROVE MarkedAt(new, n)
  <2>1. CASE n \in 1..Len(r)
    <3>1. new[n] = r[n] /\ n - 1 \in 0..Len(r) BY <1>1, <2>1
    <3>2. MarkedAt(r, n) BY <2>1 DEF Image
    <3> QED BY <3>1, <3>2, <1>2 DEF MarkedAt
  <2>2. CASE n = Len(r) + 1
    <3>1. new[n] = x /\ n - 1 = Len(r) /\ Len(r) \in 0..Len(r) BY <1>1, <2>2
    <3> QED BY <3>1, <1>2 DEF MarkedAt, Joins
  <2> QED BY <1>1, <2>1, <2>2
<1>4. \A n \in 1..Len(r) : n \in 1..(Len(r) + 1) BY <1>1
<1>5. \A seed : Bound(r, Len(r), seed) => Bound(new, Len(r) + 1, seed)
  BY <1>1, <1>4 DEF Bound, KeyRow
<1>6. Keyed(r, Len(r)) => Keyed(new, Len(r) + 1) BY <1>1, <1>4 DEF Keyed, KeyRow
<1> QED BY <1>1, <1>3, <1>5, <1>6 DEF new, Image

(* Who has a bound key has a row that binds it.                             *)
LEMMA BoundIsKeyed ==
  ASSUME NEW r, Waking!SystemKeyBound(r)
  PROVE  Keyed(r, Len(r))
BY DEF Waking!SystemKeyBound, Waking!BoundAsOf, Keyed, KeyRow

-----------------------------------------------------------------------------
Seeds == Nat \cup {None}

WakeTypes ==
  /\ images = [i \in Bodies |-> images[i]]
  /\ builds \in [Bodies -> Waking!Builds]
  /\ wrong \in [Bodies -> SUBSET Damages]
  /\ signer \in [Bodies -> Seeds]
  /\ sealing \in [Bodies -> [seed : Nat, bound : BOOLEAN] \cup {None}]
  /\ told = [i \in Bodies |-> told[i]]

(* The seed in memory and the one of a ceremony after its bind are bound.   *)
SeedsAreBound(r, i) ==
  /\ signer[i] # None => Bound(r, Len(r), signer[i])
  /\ sealing[i] # None /\ sealing[i].bound => Bound(r, Len(r), sealing[i].seed)

ToldIsRecorded(r, i) ==
  told[i] # None =>
    \/ \E n \in 1..Len(r) : r[n].act = "wake" /\ r[n].val = told[i].failed
    \/ ~ told[i].woke /\ ("views" \in wrong[i] \/ Keyed(r, Len(r)))

Sound(i) == Image(images[i]) /\ SeedsAreBound(images[i], i) /\ ToldIsRecorded(images[i], i)

Woken == WakeTypes /\ (\A i \in Bodies : Sound(i)) /\ Waking!AgreementIsOfBoth

LEMMA SoundIsHonest ==
  ASSUME Woken
  PROVE  Waking!BootIsHonest
<1>1. ASSUME NEW i \in Bodies
      PROVE  /\ images[i] \in Seq(Rows) /\ DOMAIN images[i] = 1..Len(images[i])
             /\ Len(images[i]) \in Nat
  BY DEF Woken, Sound, Image
<1>2. Waking!MarksAreOfBoundKeys
  <2> SUFFICES ASSUME NEW i \in Bodies, NEW n \in 1..Len(images[i])
               PROVE  LET x == images[i][n] IN
                      /\ x.mark # None =>
                           \E k \in 1..(n - 1) : Waking!Binds(images[i][k]) /\ images[i][k].val = x.mark
                      /\ x.mark # None <=>
                           Waking!BoundAsOf(images[i], n - 1) /\ ~ Waking!IsCeremonyBootstrap(x)
                           /\ x.act # "attest"
    BY <1>1 DEF Waking!MarksAreOfBoundKeys
  <2>1. MarkedAt(images[i], n) BY DEF Woken, Sound, Image
  <2> QED BY <2>1 DEF MarkedAt, Bound, KeyRow, Exempt
<1>3. Waking!WakesAreRecorded
  <2> SUFFICES ASSUME NEW i \in Bodies, told[i] # None
               PROVE  \/ \E n \in DOMAIN images[i] : images[i][n].act = "wake" /\ images[i][n].val = told[i].failed
                      \/ ~ told[i].woke
                         /\ ("views" \in wrong[i] \/ \E n \in DOMAIN images[i] : Waking!Binds(images[i][n]))
    BY DEF Waking!WakesAreRecorded
  <2>1. Image(images[i]) /\ ToldIsRecorded(images[i], i) BY DEF Woken, Sound
  <2> QED BY <1>1, <2>1 DEF ToldIsRecorded, Keyed, KeyRow
<1> QED BY <1>2, <1>3 DEF Waking!BootIsHonest, Woken

(* What the hook lets through joins the image.                              *)
LEMMA AdmittedJoins ==
  ASSUME Woken, NEW i \in Bodies, NEW x \in Rows, x.mark = None, x.act # "attest",
         ~ Waking!Refuses(i, x), Waking!Append1(i, x)
  PROVE  \E y : /\ Joins(images[i], y) /\ y.act = x.act /\ y.val = x.val
                /\ images' = [images EXCEPT ![i] = Append(@, y)]
<1>1. Image(images[i]) /\ SeedsAreBound(images[i], i) /\ signer[i] \in Seeds
  BY DEF Woken, WakeTypes, Sound
<1>2. Waking!SystemKeyBound(images[i]) <=> Waking!BoundAsOf(images[i], Len(images[i]))
  BY DEF Waking!SystemKeyBound
<1>3. CASE Waking!NeedsMark(i, x)
  <2> DEFINE y == [x EXCEPT !.mark = signer[i]]
  <2>1. images' = [images EXCEPT ![i] = Append(@, y)] BY <1>3 DEF Waking!Append1
  <2>2. signer[i] # None BY <1>3 DEF Waking!Refuses
  <2>3. y \in Rows /\ y.act = x.act /\ y.val = x.val /\ y.mark = signer[i]
    BY <1>1 DEF Rows, Seeds
  <2> HIDE DEF y
  <2>4. Waking!BoundAsOf(images[i], Len(images[i])) /\ ~ Exempt(y)
    BY <1>2, <1>3, <2>3 DEF Waking!NeedsMark, Exempt, Waking!IsCeremonyBootstrap
  <2>5. Joins(images[i], y) BY <1>1, <2>2, <2>3, <2>4 DEF Joins, SeedsAreBound
  <2> QED BY <2>1, <2>3, <2>5
<1>4. CASE ~ Waking!NeedsMark(i, x)
  <2>1. images' = [images EXCEPT ![i] = Append(@, x)] BY <1>4 DEF Waking!Append1
  <2>2. Joins(images[i], x) BY <1>2, <1>4 DEF Joins, Waking!NeedsMark, Exempt
  <2> QED BY <2>1, <2>2
<1> QED BY <1>3, <1>4

(* One image grows, the others and the damages stay.                        *)
Grows(i, y) ==
  /\ Joins(images[i], y)
  /\ images' = [images EXCEPT ![i] = Append(@, y)]
  /\ UNCHANGED wrong

LEMMA GrowthKeeps ==
  ASSUME Woken, NEW i \in Bodies, NEW y, Grows(i, y)
  PROVE  /\ images' = [j \in Bodies |-> images'[j]]
         /\ \A j \in Bodies : j # i => images'[j] = images[j]
         /\ images'[i] = Append(images[i], y) /\ Image(images'[i])
         /\ images'[i][Len(images[i]) + 1] = y /\ Len(images'[i]) = Len(images[i]) + 1
         /\ \A seed : Bound(images[i], Len(images[i]), seed) => Bound(images'[i], Len(images'[i]), seed)
         /\ \A j \in Bodies : UNCHANGED told[j] => ToldIsRecorded(images[j], j)'
<1>1. Image(images[i]) /\ images = [j \in Bodies |-> images[j]] BY DEF Woken, WakeTypes, Sound
<1>2. images'[i] = Append(images[i], y) /\ \A j \in Bodies : j # i => images'[j] = images[j]
  BY <1>1 DEF Grows
<1>3. images' = [j \in Bodies |-> images'[j]] BY <1>1 DEF Grows
<1>4. Joins(images[i], y) BY DEF Grows
<1>5. /\ Image(images'[i]) /\ Len(images'[i]) = Len(images[i]) + 1
      /\ images'[i][Len(images[i]) + 1] = y
      /\ \A seed : Bound(images[i], Len(images[i]), seed) => Bound(images'[i], Len(images'[i]), seed)
      /\ Keyed(images[i], Len(images[i])) => Keyed(images'[i], Len(images'[i]))
      /\ \A n \in 1..Len(images[i]) : images'[i][n] = images[i][n]
  BY <1>1, <1>2, <1>4, JoinedImage
<1>6. ASSUME NEW j \in Bodies, UNCHANGED told[j] PROVE ToldIsRecorded(images[j], j)'
  <2>1. ToldIsRecorded(images[j], j) BY DEF Woken, Sound
  <2>2. CASE j # i BY <1>2, <1>6, <2>1, <2>2 DEF ToldIsRecorded, Grows
  <2>3. CASE j = i
    <3>1. \A n \in 1..Len(images[i]) : n \in 1..(Len(images[i]) + 1) BY <1>1 DEF Image
    <3> QED BY <1>5, <1>6, <2>1, <2>3, <3>1 DEF ToldIsRecorded, Grows
  <2> QED BY <2>2, <2>3
<1> QED BY <1>2, <1>3, <1>5, <1>6

-----------------------------------------------------------------------------
TwoBodies == \E p, q : p # q /\ Bodies = {p, q}

LEMMA OtherIsOther ==
  ASSUME TwoBodies, NEW i \in Bodies
  PROVE  Waking!Others(i) \in Bodies /\ Waking!Others(i) # i
                /\ \A j \in Bodies : j # i => j = Waking!Others(i)
<1>1. \E j \in Bodies : j # i BY DEF TwoBodies
<1>2. Waking!Others(i) \in Bodies /\ Waking!Others(i) # i BY <1>1 DEF Waking!Others
<1> QED BY <1>2 DEF TwoBodies

LEMMA InitWoken == Waking!Init => Woken
<1> SUFFICES ASSUME Waking!Init PROVE Woken OBVIOUS
<1> DEFINE first == <<Waking!Row("attest", 1)>>
<1>1. first \in Seq(Rows) /\ Len(first) = 1 /\ first[1] = Waking!Row("attest", 1)
  <2>1. 1 \in Vals BY DEF Vals
  <2>2. Waking!Row("attest", 1) \in Rows BY <2>1, RowIs DEF Acts
  <2> QED BY <2>2
<1>2. first[1].mark = None /\ Exempt(first[1]) BY <1>1 DEF Waking!Row, Exempt
<1> HIDE DEF first
<1>3. Image(first)
  <2>1. \A n \in 1..1 : n = 1 OBVIOUS
  <2> QED BY <1>1, <1>2, <2>1 DEF Image, MarkedAt
<1>4. WakeTypes BY DEF Waking!Init, WakeTypes, Seeds, Waking!Builds
<1>5. \A i \in Bodies : images[i] = first BY DEF Waking!Init, first
<1>6. \A i \in Bodies : Sound(i)
  <2> SUFFICES ASSUME NEW i \in Bodies PROVE Sound(i) OBVIOUS
  <2>1. signer[i] = None /\ sealing[i] = None /\ told[i] = None BY DEF Waking!Init
  <2> QED BY <1>3, <1>5, <2>1 DEF Sound, SeedsAreBound, ToldIsRecorded
<1>7. Waking!AgreementIsOfBoth BY DEF Waking!Init, Waking!AgreementIsOfBoth
<1> QED BY <1>4, <1>6, <1>7 DEF Woken

(* An append that leaves the seeds and the answers keeps all.               *)
LEMMA AppendKeepsWoken ==
  ASSUME Woken, NEW i \in Bodies, NEW y, Grows(i, y),
         UNCHANGED <<builds, signer, sealing, told>>
  PROVE  WakeTypes' /\ \A j \in Bodies : Sound(j)'
<1>1. /\ images' = [j \in Bodies |-> images'[j]]
      /\ \A j \in Bodies : j # i => images'[j] = images[j]
      /\ Image(images'[i])
      /\ \A seed : Bound(images[i], Len(images[i]), seed) => Bound(images'[i], Len(images'[i]), seed)
      /\ \A j \in Bodies : ToldIsRecorded(images[j], j)'
  BY GrowthKeeps
<1>2. WakeTypes' BY <1>1 DEF Woken, WakeTypes, Grows
<1>3. ASSUME NEW j \in Bodies PROVE Sound(j)'
  <2>1. Sound(j) BY DEF Woken
  <2>2. CASE j # i BY <1>1, <2>1, <2>2 DEF Sound, SeedsAreBound
  <2>3. CASE j = i BY <1>1, <2>1, <2>3 DEF Sound, SeedsAreBound
  <2> QED BY <2>2, <2>3
<1> QED BY <1>2, <1>3

LEMMA ActKeeps ==
  ASSUME Woken, NEW i \in Bodies, NEW x \in Rows, x.mark = None,
         x.act # "attest", ~ Waking!Refuses(i, x), Waking!Append1(i, x),
         UNCHANGED <<builds, wrong, signer, sealing, told>>
  PROVE  WakeTypes' /\ \A j \in Bodies : Sound(j)'
<1>1. PICK y : /\ Joins(images[i], y) /\ y.act = x.act /\ y.val = x.val
               /\ images' = [images EXCEPT ![i] = Append(@, y)]
  BY AdmittedJoins
<1> QED BY <1>1, AppendKeepsWoken DEF Grows

-----------------------------------------------------------------------------
LEMMA BootKeeps ==
  ASSUME Woken, NEW i \in Bodies, Waking!Boot(i)
  PROVE  WakeTypes' /\ \A j \in Bodies : Sound(j)'
<1>0. builds[i] \in Vals BY DEF Woken, WakeTypes, Waking!Builds, Vals
<1> DEFINE row == Waking!Row("attest", builds[i])
<1>1. row \in Rows /\ row.act = "attest" /\ row.mark = None BY <1>0, RowIs DEF Acts
<1>2. Joins(images[i], row) BY <1>1 DEF Joins, Exempt
<1> HIDE DEF row
<1>3. /\ signer' = [signer EXCEPT ![i] = None] /\ sealing' = [sealing EXCEPT ![i] = None]
      /\ told' = [told EXCEPT ![i] = None] /\ UNCHANGED <<builds, wrong>>
  BY DEF Waking!Boot
<1>4. /\ signer' \in [Bodies -> Seeds]
      /\ sealing' \in [Bodies -> [seed : Nat, bound : BOOLEAN] \cup {None}]
      /\ told' = [j \in Bodies |-> told'[j]]
      /\ signer'[i] = None /\ sealing'[i] = None /\ told'[i] = None
      /\ \A j \in Bodies : j # i => UNCHANGED <<signer[j], sealing[j], told[j]>>
  BY <1>3 DEF Woken, WakeTypes, Seeds
<1>5. CASE UNCHANGED images
  <2>1. WakeTypes' BY <1>3, <1>4, <1>5 DEF Woken, WakeTypes
  <2>2. ASSUME NEW j \in Bodies PROVE Sound(j)'
    <3>1. Sound(j) BY DEF Woken
    <3>2. CASE j = i BY <1>4, <1>5, <3>1, <3>2 DEF Sound, SeedsAreBound, ToldIsRecorded
    <3>3. CASE j # i BY <1>3, <1>4, <1>5, <3>1, <3>3 DEF Sound, SeedsAreBound, ToldIsRecorded
    <3> QED BY <3>2, <3>3
  <2> QED BY <2>1, <2>2
<1>6. CASE images' = [images EXCEPT ![i] = Append(@, row)]
  <2>0. Grows(i, row) BY <1>2, <1>3, <1>6 DEF Grows
  <2>1. /\ images' = [j \in Bodies |-> images'[j]]
        /\ \A j \in Bodies : j # i => images'[j] = images[j]
        /\ Image(images'[i])
    BY <2>0, GrowthKeeps
  <2>2. WakeTypes' BY <2>1, <1>3, <1>4 DEF Woken, WakeTypes
  <2>3. ASSUME NEW j \in Bodies PROVE Sound(j)'
    <3>1. Sound(j) BY DEF Woken
    <3>2. CASE j = i BY <1>4, <2>1, <3>2 DEF Sound, SeedsAreBound, ToldIsRecorded
    <3>3. CASE j # i BY <1>3, <1>4, <2>1, <3>1, <3>3 DEF Sound, SeedsAreBound, ToldIsRecorded
    <3> QED BY <3>2, <3>3
  <2> QED BY <2>2, <2>3
<1> QED BY <1>5, <1>6 DEF Waking!Boot, row

LEMMA CeremonyRowKeeps ==
  ASSUME Woken, NEW i \in Bodies, Waking!CeremonyRow(i)
  PROVE  WakeTypes' /\ \A j \in Bodies : Sound(j)'
<1> DEFINE seed == Len(images[i]) + 1
<1> DEFINE row == Waking!Row("ceremony", seed)
<1>1. seed \in Nat /\ seed \in Vals
  <2>1. images[i] \in Seq(Rows) BY DEF Woken, Sound, Image
  <2> QED BY <2>1 DEF Vals
<1> HIDE DEF seed
<1>2. row \in Rows /\ row.act = "ceremony" /\ row.mark = None BY <1>1, RowIs DEF Acts
<1>3. /\ ~ Waking!Refuses(i, row) /\ Waking!Append1(i, row)
      /\ sealing' = [sealing EXCEPT ![i] = [seed |-> seed, bound |-> FALSE]]
      /\ UNCHANGED <<builds, wrong, signer, told>>
  BY DEF Waking!CeremonyRow, seed
<1> HIDE DEF row
<1>4. PICK y : Joins(images[i], y) /\ images' = [images EXCEPT ![i] = Append(@, y)]
  BY <1>2, <1>3, AdmittedJoins
<1>5. /\ images' = [j \in Bodies |-> images'[j]]
      /\ \A j \in Bodies : j # i => images'[j] = images[j]
      /\ Image(images'[i])
      /\ \A s : Bound(images[i], Len(images[i]), s) => Bound(images'[i], Len(images'[i]), s)
      /\ \A j \in Bodies : ToldIsRecorded(images[j], j)'
  <2>1. Grows(i, y) BY <1>3, <1>4 DEF Grows
  <2>2. /\ images' = [j \in Bodies |-> images'[j]]
        /\ \A j \in Bodies : j # i => images'[j] = images[j]
        /\ images'[i] = Append(images[i], y) /\ Image(images'[i])
        /\ images'[i][Len(images[i]) + 1] = y /\ Len(images'[i]) = Len(images[i]) + 1
    BY <2>1, GrowthKeeps
  <2>3. \A s : Bound(images[i], Len(images[i]), s) => Bound(images'[i], Len(images'[i]), s)
    BY <2>1, GrowthKeeps
  <2>4. \A j \in Bodies : ToldIsRecorded(images[j], j)'
    BY <1>3, <2>1, GrowthKeeps
  <2> QED BY <2>2, <2>3, <2>4
<1>6. /\ sealing' \in [Bodies -> [seed : Nat, bound : BOOLEAN] \cup {None}]
      /\ ~ sealing'[i].bound /\ \A j \in Bodies : j # i => sealing'[j] = sealing[j]
  BY <1>1, <1>3 DEF Woken, WakeTypes
<1>7. WakeTypes' BY <1>3, <1>5, <1>6 DEF Woken, WakeTypes
<1>8. ASSUME NEW j \in Bodies PROVE Sound(j)'
  <2>1. Sound(j) BY DEF Woken
  <2>2. CASE j = i BY <1>3, <1>5, <1>6, <2>1, <2>2 DEF Sound, SeedsAreBound
  <2>3. CASE j # i BY <1>3, <1>5, <1>6, <2>1, <2>3 DEF Sound, SeedsAreBound
  <2> QED BY <2>2, <2>3
<1> QED BY <1>7, <1>8

LEMMA CeremonyBindKeeps ==
  ASSUME Woken, NEW i \in Bodies, Waking!CeremonyBind(i)
  PROVE  WakeTypes' /\ \A j \in Bodies : Sound(j)'
<1> DEFINE seed == sealing[i].seed
<1> DEFINE row == Waking!Row("system-key", seed)
<1>1. sealing[i] \in [seed : Nat, bound : BOOLEAN] /\ seed \in Nat /\ seed \in Vals
  BY DEF Woken, WakeTypes, Waking!CeremonyBind, Vals
<1>2. row \in Rows /\ row.act = "system-key" /\ row.val = seed /\ row.mark = None BY <1>1, RowIs DEF Acts
<1>3. /\ ~ Waking!Refuses(i, row) /\ Waking!Append1(i, row)
      /\ sealing' = [sealing EXCEPT ![i].bound = TRUE]
      /\ UNCHANGED <<builds, wrong, signer, told>>
  BY DEF Waking!CeremonyBind
<1>4. /\ sealing' \in [Bodies -> [seed : Nat, bound : BOOLEAN] \cup {None}]
      /\ sealing'[i].seed = seed /\ \A j \in Bodies : j # i => sealing'[j] = sealing[j]
  BY <1>1, <1>3 DEF Woken, WakeTypes
<1> HIDE DEF row, seed
<1>5. PICK y : /\ Joins(images[i], y) /\ y.act = "system-key" /\ y.val = seed
               /\ images' = [images EXCEPT ![i] = Append(@, y)]
  BY <1>1, <1>2, <1>3, AdmittedJoins
<1>6. /\ images' = [j \in Bodies |-> images'[j]]
      /\ \A j \in Bodies : j # i => images'[j] = images[j]
      /\ Image(images'[i]) /\ images'[i][Len(images'[i])] = y /\ Len(images'[i]) = Len(images[i]) + 1
      /\ \A s : Bound(images[i], Len(images[i]), s) => Bound(images'[i], Len(images'[i]), s)
      /\ \A j \in Bodies : ToldIsRecorded(images[j], j)'
  <2>1. Grows(i, y) BY <1>3, <1>5 DEF Grows
  <2>2. /\ images' = [j \in Bodies |-> images'[j]]
        /\ \A j \in Bodies : j # i => images'[j] = images[j]
        /\ images'[i] = Append(images[i], y) /\ Image(images'[i])
        /\ images'[i][Len(images[i]) + 1] = y /\ Len(images'[i]) = Len(images[i]) + 1
    BY <2>1, GrowthKeeps
  <2>3. \A s : Bound(images[i], Len(images[i]), s) => Bound(images'[i], Len(images'[i]), s)
    BY <2>1, GrowthKeeps
  <2>4. \A j \in Bodies : ToldIsRecorded(images[j], j)'
    BY <1>3, <2>1, GrowthKeeps
  <2> QED BY <2>2, <2>3, <2>4
<1>7. Bound(images'[i], Len(images'[i]), seed)
  <2>1. Len(images'[i]) \in 1..Len(images'[i]) BY <1>6 DEF Woken, Sound, Image
  <2> QED BY <1>5, <1>6, <2>1 DEF Bound, KeyRow, Waking!Binds
<1>8. WakeTypes' BY <1>3, <1>4, <1>6 DEF Woken, WakeTypes
<1>9. ASSUME NEW j \in Bodies PROVE Sound(j)'
  <2>1. Sound(j) BY DEF Woken
  <2>2. CASE j = i BY <1>3, <1>4, <1>6, <1>7, <2>1, <2>2 DEF Sound, SeedsAreBound
  <2>3. CASE j # i BY <1>3, <1>4, <1>6, <2>1, <2>3 DEF Sound, SeedsAreBound
  <2> QED BY <2>2, <2>3
<1> QED BY <1>8, <1>9

LEMMA CeremonySeatKeeps ==
  ASSUME Woken, NEW i \in Bodies, Waking!CeremonySeat(i)
  PROVE  WakeTypes' /\ \A j \in Bodies : Sound(j)'
<1>1. /\ sealing[i] # None /\ sealing[i].bound /\ sealing[i].seed \in Nat
      /\ signer' = [signer EXCEPT ![i] = sealing[i].seed]
      /\ sealing' = [sealing EXCEPT ![i] = None] /\ UNCHANGED <<images, builds, wrong, told>>
  BY DEF Waking!CeremonySeat, Woken, WakeTypes
<1>2. /\ signer' \in [Bodies -> Seeds]
      /\ sealing' \in [Bodies -> [seed : Nat, bound : BOOLEAN] \cup {None}]
      /\ signer'[i] = sealing[i].seed /\ sealing'[i] = None
      /\ \A j \in Bodies : j # i => UNCHANGED <<signer[j], sealing[j]>>
  BY <1>1 DEF Woken, WakeTypes, Seeds
<1>3. WakeTypes' BY <1>1, <1>2 DEF Woken, WakeTypes
<1>4. ASSUME NEW j \in Bodies PROVE Sound(j)'
  <2>1. Sound(j) BY DEF Woken
  <2>2. CASE j = i BY <1>1, <1>2, <2>1, <2>2 DEF Sound, SeedsAreBound, ToldIsRecorded
  <2>3. CASE j # i BY <1>1, <1>2, <2>1, <2>3 DEF Sound, SeedsAreBound, ToldIsRecorded
  <2> QED BY <2>2, <2>3
<1> QED BY <1>3, <1>4

(* What the wake answers is on the record, or nothing could be recorded.    *)
LEMMA WakeUpKeeps ==
  ASSUME Woken, NEW i \in Bodies, Waking!WakeUp(i)
  PROVE  WakeTypes' /\ \A j \in Bodies : Sound(j)'
<1> DEFINE failed == Waking!WakeVerdicts(i)
<1> DEFINE row == Waking!Row("wake", failed)
<1>1. failed \in SUBSET Faults
  <2>1. wrong[i] \subseteq Damages BY DEF Woken, WakeTypes
  <2> QED BY <2>1 DEF Waking!WakeVerdicts, Faults
<1>2. /\ IF Waking!Refuses(i, row) THEN UNCHANGED images ELSE Waking!Append1(i, row)
      /\ told' = [told EXCEPT ![i] =
                    IF failed = {} /\ Waking!Refuses(i, row) THEN None
                    ELSE [woke |-> failed = {}, failed |-> failed]]
      /\ UNCHANGED <<builds, wrong, signer, sealing>>
  BY DEF Waking!WakeUp
<1> HIDE DEF failed
<1>3. row \in Rows /\ row.act = "wake" /\ row.val = failed /\ row.mark = None
  <2>1. failed \in Vals BY <1>1 DEF Vals
  <2> QED BY <2>1, RowIs DEF Acts
<1> HIDE DEF row
<1>4. /\ told' = [j \in Bodies |-> told'[j]]
      /\ told'[i] = (IF failed = {} /\ Waking!Refuses(i, row) THEN None
                     ELSE [woke |-> failed = {}, failed |-> failed])
      /\ \A j \in Bodies : j # i => UNCHANGED told[j]
  BY <1>2 DEF Woken, WakeTypes
<1>5. CASE Waking!Refuses(i, row)
  <2>1. UNCHANGED images BY <1>2, <1>5
  <2>2. WakeTypes' BY <1>2, <1>4, <2>1 DEF Woken, WakeTypes
  <2>3. ASSUME NEW j \in Bodies PROVE Sound(j)'
    <3>1. Sound(j) BY DEF Woken
    <3>2. CASE j # i BY <1>2, <1>4, <2>1, <3>1, <3>2 DEF Sound, SeedsAreBound, ToldIsRecorded
    <3>3. CASE j = i
      <4>1. "views" \in wrong[i] \/ Keyed(images[i], Len(images[i]))
        <5>1. Waking!SystemKeyBound(images[i]) => Keyed(images[i], Len(images[i])) BY BoundIsKeyed
        <5> QED BY <1>5, <5>1 DEF Waking!Refuses, Waking!NeedsMark
      <4>2. told'[i] # None => ~ told'[i].woke
        <5>1. CASE failed = {} BY <1>4, <1>5, <5>1
        <5>2. CASE failed # {}
          <6>1. told'[i] = [woke |-> failed = {}, failed |-> failed] BY <1>4, <5>2
          <6>2. told'[i].woke = (failed = {}) BY <6>1
          <6> QED BY <5>2, <6>2
        <5> QED BY <5>1, <5>2
      <4>3. ToldIsRecorded(images[i], i)' BY <1>2, <2>1, <4>1, <4>2 DEF ToldIsRecorded
      <4> QED BY <1>2, <2>1, <3>1, <3>3, <4>3 DEF Sound, SeedsAreBound
    <3> QED BY <3>2, <3>3
  <2> QED BY <2>2, <2>3
<1>6. CASE ~ Waking!Refuses(i, row)
  <2>1. PICK y : /\ Joins(images[i], y) /\ y.act = "wake" /\ y.val = failed
                 /\ images' = [images EXCEPT ![i] = Append(@, y)]
    BY <1>2, <1>3, <1>6, AdmittedJoins
  <2>2. /\ images' = [j \in Bodies |-> images'[j]]
        /\ \A j \in Bodies : j # i => images'[j] = images[j]
        /\ Image(images'[i]) /\ images'[i][Len(images'[i])] = y /\ Len(images'[i]) = Len(images[i]) + 1
        /\ \A s : Bound(images[i], Len(images[i]), s) => Bound(images'[i], Len(images'[i]), s)
        /\ \A j \in Bodies : UNCHANGED told[j] => ToldIsRecorded(images[j], j)'
    <3>1. Grows(i, y) BY <1>2, <2>1 DEF Grows
    <3>2. /\ images' = [j \in Bodies |-> images'[j]]
          /\ \A j \in Bodies : j # i => images'[j] = images[j]
          /\ images'[i] = Append(images[i], y) /\ Image(images'[i])
          /\ images'[i][Len(images[i]) + 1] = y /\ Len(images'[i]) = Len(images[i]) + 1
      BY <3>1, GrowthKeeps
    <3>3. /\ \A s : Bound(images[i], Len(images[i]), s) => Bound(images'[i], Len(images'[i]), s)
          /\ \A j \in Bodies : UNCHANGED told[j] => ToldIsRecorded(images[j], j)'
      BY <3>1, GrowthKeeps
    <3> QED BY <3>2, <3>3
  <2>3. ToldIsRecorded(images[i], i)'
    <3>1. Len(images'[i]) \in 1..Len(images'[i]) BY <2>2 DEF Woken, Sound, Image
    <3>2. told'[i].failed = failed BY <1>4, <1>6
    <3> QED BY <2>1, <2>2, <3>1, <3>2 DEF ToldIsRecorded
  <2>4. WakeTypes' BY <1>2, <1>4, <2>2 DEF Woken, WakeTypes
  <2>5. ASSUME NEW j \in Bodies PROVE Sound(j)'
    <3>1. Sound(j) BY DEF Woken
    <3>2. CASE j = i BY <1>2, <2>2, <2>3, <3>1, <3>2 DEF Sound, SeedsAreBound
    <3>3. CASE j # i BY <1>2, <1>4, <2>2, <3>1, <3>3 DEF Sound, SeedsAreBound
    <3> QED BY <3>2, <3>3
  <2> QED BY <2>4, <2>5
<1> QED BY <1>5, <1>6

(* A pair that agrees: each body's verdicts and live part are looked at by  *)
(* the other.                                                               *)
LEMMA PairAgrees ==
  ASSUME TwoBodies, Waking!AgreementIsOfBoth, NEW g, Waking!GenesisPairWake(g)
  PROVE  Waking!AgreementIsOfBoth'
<1> DEFINE agree == \A i \in Bodies : Waking!Witness(i)
<1>1. paired' = IF agree
                THEN [live |-> [i \in Bodies |-> Waking!GenesisPart(i)], held |-> held,
                      failed |-> [i \in Bodies |-> Waking!WakeVerdicts(i)]]
                ELSE None
  BY DEF Waking!GenesisPairWake
<1>2. CASE ~ agree BY <1>1, <1>2 DEF Waking!AgreementIsOfBoth
<1>3. CASE agree
  <2>1. ASSUME NEW i \in Bodies
        PROVE  /\ Waking!WakeVerdicts(i) = {}
               /\ \E j \in Bodies : Waking!GenesisPart(i) = held[j]
    <3>1. Waking!Others(i) \in Bodies /\ Waking!Others(i) # i BY OtherIsOther
    <3>2. i = Waking!Others(Waking!Others(i)) BY <3>1, OtherIsOther
    <3> QED BY <1>3, <3>1, <3>2 DEF Waking!Witness
  <2>2. /\ paired'.held = held
        /\ \A i \in Bodies : paired'.live[i] = Waking!GenesisPart(i)
        /\ \A i \in Bodies : paired'.failed[i] = Waking!WakeVerdicts(i)
    BY <1>1, <1>3
  <2>3. \A i \in Bodies : paired'.failed[i] = {} BY <2>1, <2>2
  <2>4. ASSUME \A i, j \in Bodies : paired'.held[i] = paired'.held[j],
               NEW i \in Bodies, NEW j \in Bodies
        PROVE  paired'.live[i] = paired'.held[j]
    BY <2>1, <2>2, <2>4
  <2> QED BY <2>3, <2>4 DEF Waking!AgreementIsOfBoth
<1> QED BY <1>2, <1>3

LEMMA NextWoken ==
  TwoBodies /\ Woken /\ [Waking!Next]_(Waking!vars) => Woken'
<1> SUFFICES ASSUME TwoBodies, Woken, [Waking!Next]_(Waking!vars)
             PROVE  Woken'
  OBVIOUS
<1>1. SUFFICES WakeTypes' /\ (\A j \in Bodies : Sound(j)') /\ Waking!AgreementIsOfBoth'
  BY DEF Woken
<1>2. Waking!AgreementIsOfBoth BY DEF Woken
<1>3. UNCHANGED paired => Waking!AgreementIsOfBoth' BY <1>2 DEF Waking!AgreementIsOfBoth
<1>4. CASE UNCHANGED Waking!vars
  BY <1>3, <1>4 DEF Waking!vars, Woken, WakeTypes, Sound, SeedsAreBound, ToldIsRecorded
<1>5. CASE Waking!Next
  <2>1. PICK i \in Bodies :
          \/ \E x \in Waking!WorldRows(i) : Waking!Act(i, x)
          \/ Waking!Boot(i) \/ Waking!CeremonyRow(i) \/ Waking!CeremonyBind(i) \/ Waking!CeremonySeat(i)
          \/ Waking!WakeUp(i) \/ Waking!CheckKernel(i) \/ Waking!MakeWitness(i) \/ Waking!GenesisPairWake(i)
          \/ \E b \in Waking!Builds \ {builds[i]} : Waking!ChangeEngine(i, b)
          \/ \E w \in Damages : Waking!DamageImage(i, w)
    BY <1>5 DEF Waking!Next
  <2>2. ASSUME NEW x \in Waking!WorldRows(i), Waking!Act(i, x)
        PROVE  WakeTypes' /\ (\A j \in Bodies : Sound(j)') /\ UNCHANGED paired
    <3>1. x \in Rows /\ x.mark = None /\ x.act # "attest"
      <4>1. Len(images[i]) \in Nat BY DEF Woken, Sound, Image
      <4>2. 1 \in Vals /\ None \in Vals /\ Len(images[i]) \in Vals /\ Len(images[i]) + 1 \in Vals
        BY <4>1 DEF Vals
      <4>3. {"root-key", "anchor", "system-key", "system-rotate", "system-revoke"} \subseteq Acts
        BY DEF Acts
      <4>4. \E a \in {"root-key", "anchor", "system-key", "system-rotate", "system-revoke"}, v \in Vals :
              x = Waking!Row(a, v)
        BY <2>2, <4>2 DEF Waking!WorldRows
      <4> QED BY <4>3, <4>4, RowIs
    <3> QED BY <2>2, <3>1, ActKeeps DEF Waking!Act
  <2>3. CASE Waking!Boot(i) BY <2>3, <1>3, BootKeeps DEF Waking!Boot
  <2>4. CASE Waking!CeremonyRow(i) BY <2>4, <1>3, CeremonyRowKeeps DEF Waking!CeremonyRow
  <2>5. CASE Waking!CeremonyBind(i) BY <2>5, <1>3, CeremonyBindKeeps DEF Waking!CeremonyBind
  <2>6. CASE Waking!CeremonySeat(i) BY <2>6, <1>3, CeremonySeatKeeps DEF Waking!CeremonySeat
  <2>7. CASE Waking!WakeUp(i) BY <2>7, <1>3, WakeUpKeeps DEF Waking!WakeUp
  <2>8. CASE Waking!CheckKernel(i)
    <3> DEFINE clean == {Waking!ClosedKinds(running[i]), Waking!SiteKinds(running[i])} = {Waking!ActKindRows}
    <3> DEFINE row == Waking!Row("conforms", clean)
    <3>1. row \in Rows /\ row.mark = None /\ row.act # "attest"
      <4>1. clean \in Vals BY DEF Vals
      <4> QED BY <4>1, RowIs DEF Acts
    <3>2. /\ IF Waking!Refuses(i, row) THEN UNCHANGED images ELSE Waking!Append1(i, row)
          /\ UNCHANGED <<builds, wrong, signer, sealing, told, paired>>
      BY <2>8 DEF Waking!CheckKernel
    <3> HIDE DEF row
    <3>3. CASE UNCHANGED images
      BY <1>3, <3>2, <3>3 DEF Woken, WakeTypes, Sound, SeedsAreBound, ToldIsRecorded
    <3>4. CASE ~ Waking!Refuses(i, row) /\ Waking!Append1(i, row) BY <1>3, <3>1, <3>2, <3>4, ActKeeps
    <3> QED BY <3>2, <3>3, <3>4
  <2>9. CASE Waking!MakeWitness(i)
    BY <2>9, <1>3 DEF Waking!MakeWitness, Woken, WakeTypes, Sound, SeedsAreBound, ToldIsRecorded
  <2>10. CASE Waking!GenesisPairWake(i)
    <3> DEFINE row == Waking!Row("pair", \A j \in Bodies : Waking!Witness(j))
    <3>1. row \in Rows /\ row.mark = None /\ row.act # "attest"
      <4>1. (\A j \in Bodies : Waking!Witness(j)) \in Vals BY DEF Vals
      <4> QED BY <4>1, RowIs DEF Acts
    <3> HIDE DEF row
    <3>2. /\ ~ Waking!Refuses(i, row) /\ Waking!Append1(i, row)
          /\ UNCHANGED <<builds, wrong, signer, sealing, told>>
      BY <2>10 DEF Waking!GenesisPairWake, row
    <3>3. Waking!AgreementIsOfBoth' BY <2>10, <1>2, PairAgrees
    <3> QED BY <3>1, <3>2, <3>3, ActKeeps
  <2>11. ASSUME NEW b \in Waking!Builds, Waking!ChangeEngine(i, b)
         PROVE  WakeTypes' /\ (\A j \in Bodies : Sound(j)') /\ UNCHANGED paired
    <3>1. builds' \in [Bodies -> Waking!Builds] BY <2>11 DEF Waking!ChangeEngine, Woken, WakeTypes
    <3> QED BY <2>11, <3>1, <1>3
        DEF Waking!ChangeEngine, Woken, WakeTypes, Sound, SeedsAreBound, ToldIsRecorded
  <2>12. ASSUME NEW w \in Damages, Waking!DamageImage(i, w)
         PROVE  WakeTypes' /\ (\A j \in Bodies : Sound(j)') /\ UNCHANGED paired
    <3>1. /\ wrong' \in [Bodies -> SUBSET Damages] /\ \A j \in Bodies : wrong[j] \subseteq wrong'[j]
          /\ UNCHANGED <<images, builds, signer, sealing, told, paired>>
      BY <2>12 DEF Waking!DamageImage, Woken, WakeTypes
    <3>2. WakeTypes' BY <3>1 DEF Woken, WakeTypes
    <3>3. ASSUME NEW j \in Bodies PROVE Sound(j)'
      <4>1. Sound(j) BY DEF Woken
      <4> QED BY <3>1, <4>1 DEF Sound, SeedsAreBound, ToldIsRecorded
    <3> QED BY <3>1, <3>2, <3>3
  <2> QED BY <2>1, <2>2, <2>3, <2>4, <2>5, <2>6, <2>7, <2>8, <2>9, <2>10, <2>11, <2>12, <1>3
<1> QED BY <1>4, <1>5

(* A row has a mark exactly while the rows before it bind a system key, but *)
(* for the exempt ones, and the mark is of a seed whose public half was     *)
(* bound before it; what woke has its row, and two bodies agree only as     *)
(* both are (append_countersign, bound_key, wake, genesis_pair_wake).       *)
THEOREM BootIsHonest ==
  TwoBodies => (Waking!Spec => []Waking!BootIsHonest)
<1> SUFFICES ASSUME TwoBodies PROVE Waking!Spec => []Waking!BootIsHonest
  OBVIOUS
<1>1. Waking!Init => Woken BY InitWoken
<1>2. Woken /\ [Waking!Next]_(Waking!vars) => Woken' BY NextWoken
<1>3. Woken => Waking!BootIsHonest BY SoundIsHonest
<1> QED BY <1>1, <1>2, <1>3, PTL DEF Waking!Spec

-----------------------------------------------------------------------------
(* The sealed pieces: a piece's key is named by its place, and no account   *)
(* knows a key that was not drawn.                                          *)
Seals == (Contents \X Nat) \cup {<<None, None>>}
Pieces == [sealed : Seals, wrap : SUBSET Accounts, key : Nat, inner : Contents, outer : Seals]

Kept ==
  /\ pieces \in Seq(Pieces) /\ \A n \in 1..Len(pieces) : pieces[n].key = n
  /\ knows \in [Accounts -> SUBSET (1..Len(pieces))]
  /\ Sealed!RemovedReadersStayOut

LEMMA PieceIs ==
  ASSUME NEW c \in Contents, NEW readers \in SUBSET Accounts, NEW key \in Nat
  PROVE  Sealed!Piece(c, readers, key) \in Pieces /\ Sealed!Piece(c, readers, key).key = key
BY DEF Sealed!Piece, Pieces, Seals

(* A new piece has a key nobody knows but who made it.                      *)
LEMMA NewPieceKeeps ==
  ASSUME Kept, NEW a \in Accounts, NEW p \in Pieces, p.key = Sealed!NewKey,
         pieces' = Append(pieces, p),
         knows' = [knows EXCEPT ![a] = @ \cup {Sealed!NewKey}],
         made' = made \cup {<<a, Sealed!NewKey>>}
  PROVE  Kept'
<1> DEFINE new == Len(pieces) + 1
<1>1. /\ Len(pieces) \in Nat /\ pieces' \in Seq(Pieces) /\ Len(pieces') = new
      /\ pieces'[new] = p /\ p.key = new /\ \A n \in 1..Len(pieces) : pieces'[n] = pieces[n]
  BY DEF Kept, Sealed!NewKey
<1>2. \A n \in 1..Len(pieces') : n \in 1..Len(pieces) \/ n = new BY <1>1
<1>3. \A n \in 1..Len(pieces') : pieces'[n].key = n BY <1>1, <1>2 DEF Kept
<1>4. /\ knows'[a] = knows[a] \cup {new} /\ \A b \in Accounts : b # a => knows'[b] = knows[b]
      /\ made' = made \cup {<<a, new>>}
  BY DEF Kept, Sealed!NewKey
<1>5. knows' \in [Accounts -> SUBSET (1..Len(pieces'))]
  <2>1. 1..Len(pieces) \subseteq 1..Len(pieces') /\ new \in 1..Len(pieces') BY <1>1
  <2> QED BY <1>1, <2>1 DEF Kept, Sealed!NewKey
<1>6. ASSUME NEW n \in 1..Len(pieces'), NEW b \in Accounts, n \in knows'[b]
      PROVE  <<b, n>> \in made' \/ b \in pieces'[n].wrap
  <2>1. CASE n = new
    <3>1. new \notin knows[b] BY <1>1 DEF Kept
    <3>2. b = a BY <1>4, <1>6, <2>1, <3>1
    <3> QED BY <1>4, <2>1, <3>2
  <2>2. CASE n \in 1..Len(pieces)
    <3>1. n # new /\ n \in knows[b] BY <1>1, <1>4, <1>6, <2>2
    <3>2. pieces[n].key = n BY <2>2 DEF Kept
    <3> QED BY <1>1, <1>4, <2>2, <3>1, <3>2 DEF Kept, Sealed!RemovedReadersStayOut
  <2> QED BY <1>2, <2>1, <2>2
<1> QED BY <1>1, <1>3, <1>5, <1>6 DEF Kept, Sealed!RemovedReadersStayOut

(* A piece is changed where neither its key nor a reader of it goes.        *)
LEMMA ChangedPieceKeeps ==
  ASSUME Kept, NEW n \in 1..Len(pieces), NEW p \in Pieces, p.key = pieces[n].key,
         pieces[n].wrap \subseteq p.wrap, pieces' = [pieces EXCEPT ![n] = p],
         UNCHANGED <<knows, made>>
  PROVE  Kept'
<1>1. /\ pieces' \in Seq(Pieces) /\ Len(pieces') = Len(pieces) /\ pieces'[n] = p
      /\ \A m \in 1..Len(pieces) : m # n => pieces'[m] = pieces[m]
  BY DEF Kept
<1>2. ASSUME NEW m \in 1..Len(pieces)
      PROVE  pieces'[m].key = pieces[m].key /\ pieces[m].wrap \subseteq pieces'[m].wrap
  BY <1>1
<1> QED BY <1>1, <1>2 DEF Kept, Sealed!RemovedReadersStayOut

LEMMA NextKept == Kept /\ [Sealed!Next]_(Sealed!vars) => Kept'
<1> SUFFICES ASSUME Kept, [Sealed!Next]_(Sealed!vars) PROVE Kept' OBVIOUS
<1>0. Sealed!NewKey \in Nat BY DEF Kept, Sealed!NewKey
<1>1. CASE Sealed!Seal
  <2>1. PICK a \in Accounts, c \in Contents, readers \in SUBSET Accounts :
          /\ pieces' = Append(pieces, Sealed!Piece(c, readers, Sealed!NewKey))
          /\ knows' = [knows EXCEPT ![a] = @ \cup {Sealed!NewKey}]
          /\ made' = made \cup {<<a, Sealed!NewKey>>}
    BY <1>1 DEF Sealed!Seal
  <2> QED BY <1>0, <2>1, PieceIs, NewPieceKeeps
<1>2. CASE Sealed!RemoveReader
  <2>1. PICK n \in 1..Len(pieces), a \in Accounts, out \in Accounts :
          /\ pieces' = Append(pieces, Sealed!Piece(pieces[n].inner, pieces[n].wrap \ {out}, Sealed!NewKey))
          /\ knows' = [knows EXCEPT ![a] = @ \cup {Sealed!NewKey}]
          /\ made' = made \cup {<<a, Sealed!NewKey>>}
    BY <1>2 DEF Sealed!RemoveReader
  <2>2. pieces[n] \in Pieces BY DEF Kept
  <2>3. pieces[n].inner \in Contents /\ pieces[n].wrap \ {out} \in SUBSET Accounts BY <2>2 DEF Pieces
  <2> QED BY <1>0, <2>1, <2>3, PieceIs, NewPieceKeeps
<1>3. CASE Sealed!Open
  <2>1. PICK n \in 1..Len(pieces), a \in Accounts, holder \in Accounts :
          /\ Sealed!Opens(pieces[n], a, holder)
          /\ knows' = [knows EXCEPT ![holder] = @ \cup {pieces[n].key}]
          /\ UNCHANGED <<pieces, made>>
    BY <1>3 DEF Sealed!Open
  <2>2. holder \in pieces[n].wrap /\ pieces[n].key = n
    BY <2>1 DEF Kept, Sealed!Opens, Sealed!IsReader
  <2>3. /\ knows'[holder] = knows[holder] \cup {n}
        /\ \A b \in Accounts : b # holder => knows'[b] = knows[b]
        /\ knows' \in [Accounts -> SUBSET (1..Len(pieces))]
    BY <2>1, <2>2 DEF Kept
  <2>4. ASSUME NEW m \in 1..Len(pieces), NEW b \in Accounts, m \in knows'[b]
        PROVE  <<b, m>> \in made \/ b \in pieces[m].wrap
    <3>1. pieces[m].key = m BY DEF Kept
    <3>2. CASE b = holder /\ m = n BY <2>2, <3>2
    <3>3. CASE ~ (b = holder /\ m = n)
      <4>1. m \in knows[b] BY <2>3, <2>4, <3>3
      <4> QED BY <3>1, <4>1 DEF Kept, Sealed!RemovedReadersStayOut
    <3> QED BY <3>2, <3>3
  <2> QED BY <2>1, <2>3, <2>4 DEF Kept, Sealed!RemovedReadersStayOut
<1>4. CASE Sealed!AddReader
  <2>1. PICK n \in 1..Len(pieces), r \in Accounts :
          /\ pieces' = [pieces EXCEPT ![n].wrap = @ \cup {r}] /\ UNCHANGED <<knows, made>>
    BY <1>4 DEF Sealed!AddReader
  <2> DEFINE p == [pieces[n] EXCEPT !.wrap = @ \cup {r}]
  <2>2. pieces[n] \in Pieces BY DEF Kept
  <2>3. p \in Pieces /\ p.key = pieces[n].key /\ pieces[n].wrap \subseteq p.wrap BY <2>2 DEF Pieces
  <2>4. pieces' = [pieces EXCEPT ![n] = p] BY <2>1
  <2> HIDE DEF p
  <2> QED BY <2>1, <2>3, <2>4, ChangedPieceKeeps
<1>5. CASE Sealed!Alter
  <2>1. PICK n \in 1..Len(pieces) :
          /\ pieces' = [pieces EXCEPT ![n].sealed = <<None, None>>] /\ UNCHANGED <<knows, made>>
    BY <1>5 DEF Sealed!Alter
  <2> DEFINE p == [pieces[n] EXCEPT !.sealed = <<None, None>>]
  <2>2. pieces[n] \in Pieces BY DEF Kept
  <2>3. p \in Pieces /\ p.key = pieces[n].key /\ pieces[n].wrap \subseteq p.wrap
    BY <2>2 DEF Pieces, Seals
  <2>4. pieces' = [pieces EXCEPT ![n] = p] BY <2>1
  <2> HIDE DEF p
  <2> QED BY <2>1, <2>3, <2>4, ChangedPieceKeeps
<1>6. CASE UNCHANGED Sealed!vars
  BY <1>6 DEF Sealed!vars, Kept, Sealed!RemovedReadersStayOut
<1> QED BY <1>1, <1>2, <1>3, <1>4, <1>5, <1>6 DEF Sealed!Next

(* A reader removed cannot read what comes after: who knows a piece's key   *)
(* sealed that piece or is wrapped into it (remove_reader, open_content).   *)
THEOREM RemovedReadersStayOut == Sealed!Spec => []Sealed!RemovedReadersStayOut
<1>1. Sealed!Init => Kept
  <2> SUFFICES ASSUME Sealed!Init PROVE Kept OBVIOUS
  <2>1. pieces = << >> /\ knows = [a \in Accounts |-> {}] BY DEF Sealed!Init
  <2>2. pieces \in Seq(Pieces) /\ 1..Len(pieces) = {} BY <2>1
  <2> QED BY <2>1, <2>2 DEF Kept, Sealed!RemovedReadersStayOut
<1>2. Kept => Sealed!RemovedReadersStayOut BY DEF Kept
<1> QED BY <1>1, <1>2, NextKept, PTL DEF Sealed!Spec

-----------------------------------------------------------------------------
(* The border *)
CONSTANTS Entities, Parents, Rules, CitedBy, RuleIds
VARIABLES passed, receiving

Outside == INSTANCE Border WITH rec <- passed

(* An actor's name is not the system's, nor an absence. *)
NamesAreActors == Entities \cap {None, "SYSTEM"} = {}

Crossed ==
  [k : {"tunnel", "submit", "reply", "refusal", "declare", "withdraw", "rule", "receipt"},
   id : Entities \cup (Entities \X BOOLEAN) \cup Parents \cup RuleIds \cup Rules,
   of : Entities \cup Parents \cup Rules \cup {None},
   by : Entities \cup {Outside!System, None}, rel : Parents \cup {None},
   mark : BOOLEAN \cup {"adopts", "auto", None}]

(* What a receipt cites is held, under the same relation. *)
CitesWhatIsHeld(rc, n) ==
  CitedBy[rc[n].id] # None =>
    \E m \in 1..(n - 1) : /\ rc[m].k = "receipt" /\ rc[m].id = CitedBy[rc[n].id]
                          /\ rc[m].rel = rc[n].rel

(* A submit through a tunnel is of the entity the last tunnel then was of.  *)
ThroughItsTunnel(rc, n) ==
  rc[n].mark = TRUE => Outside!TunnelSender(SubSeq(rc, 1, n)) = rc[n].of

AnswersTo(rc, id) == Outside!Citing(rc, "reply", id) \cup Outside!Citing(rc, "refusal", id)

Held ==
  /\ passed \in Seq(Crossed)
  /\ receiving = Outside!Idle \/ receiving \in [at : {"verified", "adopting"}, rel : Parents, rule : Rules]
  /\ \A n \in Outside!Rows(passed, "submit") :
       ThroughItsTunnel(passed, n) /\ passed[n].of \in Entities /\ passed[n].mark \in BOOLEAN
  /\ \A id : AnswersTo(passed, id) # {} =>
       \E m \in Outside!Citing(passed, "submit", id) : \A k \in AnswersTo(passed, id) : m < k
  /\ \A n \in Outside!Rows(passed, "receipt") : CitesWhatIsHeld(passed, n)
  /\ \A n, m \in Outside!Rows(passed, "receipt") : passed[n].id = passed[m].id => n = m

-----------------------------------------------------------------------------
LEMMA LastOfRows ==
  ASSUME NEW n \in Nat, NEW S \in SUBSET (1..n), S # {}
  PROVE  Outside!Max(S) \in S /\ \A y \in S : y <= Outside!Max(S)
<1>1. Max(S) \in S /\ \A y \in S : Max(S) >= y BY NewestIsOne
<1>2. \A y \in S : y \in Nat OBVIOUS
<1>4. Max(S) \in Nat BY <1>1, <1>2
<1>3. Max(S) \in S /\ \A y \in S : y <= Max(S) BY <1>1, <1>2, <1>4
<1> QED BY <1>3 DEF Max, Outside!Max

LEMMA LastIs ==
  ASSUME NEW S \in SUBSET Nat, NEW m \in S, \A y \in S : y <= m
  PROVE  Outside!Max(S) = m
<1>1. \A x \in S : (\A y \in S : x >= y) => x = m OBVIOUS
<1>2. \A y \in S : m >= y OBVIOUS
<1> QED BY <1>1, <1>2 DEF Outside!Max

LEMMA FirstOfRows ==
  ASSUME NEW S \in SUBSET Nat, S # {}
  PROVE  Outside!Min(S) \in S /\ \A y \in S : Outside!Min(S) <= y
<1>1. \E m \in S : \A k \in S : m <= k BY LeastOf
<1> QED BY <1>1 DEF Outside!Min

LEMMA FirstIs ==
  ASSUME NEW S \in SUBSET Nat, NEW m \in S, \A y \in S : m <= y
  PROVE  Outside!Min(S) = m
<1>1. \A x \in S : (\A y \in S : x <= y) => x = m OBVIOUS
<1> QED BY <1>1 DEF Outside!Min

LEMMA CrossedAppend ==
  ASSUME NEW rc \in Seq(Crossed), NEW e \in Crossed
  PROVE  /\ Append(rc, e) \in Seq(Crossed) /\ Len(Append(rc, e)) = Len(rc) + 1 /\ Len(rc) \in Nat
         /\ \A n \in 1..Len(rc) : Append(rc, e)[n] = rc[n]
         /\ Append(rc, e)[Len(rc) + 1] = e
OBVIOUS

LEMMA RowsOfAppend ==
  ASSUME NEW rc \in Seq(Crossed), NEW e \in Crossed, NEW k
  PROVE  /\ Outside!Rows(Append(rc, e), k) =
              Outside!Rows(rc, k) \cup (IF e.k = k THEN {Len(rc) + 1} ELSE {})
         /\ Outside!Rows(rc, k) \in SUBSET (1..Len(rc))
BY CrossedAppend DEF Outside!Rows

LEMMA CitingOfAppend ==
  ASSUME NEW rc \in Seq(Crossed), NEW e \in Crossed, NEW k, NEW id
  PROVE  /\ Outside!Citing(Append(rc, e), k, id) =
              Outside!Citing(rc, k, id) \cup (IF e.k = k /\ e.id = id THEN {Len(rc) + 1} ELSE {})
         /\ Outside!Citing(rc, k, id) \in SUBSET (1..Len(rc))
BY RowsOfAppend, CrossedAppend DEF Outside!Citing

LEMMA CrossedPrefix ==
  ASSUME NEW rc \in Seq(Crossed), NEW n \in 0..Len(rc), NEW k, NEW id
  PROVE  /\ SubSeq(rc, 1, n) \in Seq(Crossed) /\ Len(SubSeq(rc, 1, n)) = n
         /\ \A i \in 1..n : SubSeq(rc, 1, n)[i] = rc[i]
         /\ Outside!Rows(SubSeq(rc, 1, n), k) = {i \in Outside!Rows(rc, k) : i <= n}
         /\ Outside!Citing(SubSeq(rc, 1, n), k, id) = {i \in Outside!Citing(rc, k, id) : i <= n}
<1>1. /\ SubSeq(rc, 1, n) \in Seq(Crossed) /\ Len(SubSeq(rc, 1, n)) = n
      /\ \A i \in 1..n : SubSeq(rc, 1, n)[i] = rc[i]
  OBVIOUS
<1>2. Outside!Rows(SubSeq(rc, 1, n), k) = {i \in Outside!Rows(rc, k) : i <= n}
  BY <1>1 DEF Outside!Rows
<1>3. \A i \in Outside!Rows(SubSeq(rc, 1, n), k) : i \in 1..n BY <1>1 DEF Outside!Rows
<1>4. Outside!Citing(SubSeq(rc, 1, n), k, id) = {i \in Outside!Citing(rc, k, id) : i <= n}
  BY <1>1, <1>2, <1>3 DEF Outside!Citing
<1> QED BY <1>1, <1>2, <1>4

(* Appending keeps what a prefix shows. *)
LEMMA PrefixStays ==
  ASSUME NEW rc \in Seq(Crossed), NEW e \in Crossed, NEW n \in 0..Len(rc)
  PROVE  SubSeq(Append(rc, e), 1, n) = SubSeq(rc, 1, n)
OBVIOUS

LEMMA SenderOfAppend ==
  ASSUME NEW rc \in Seq(Crossed), NEW e \in Crossed, e.k # "tunnel"
  PROVE  Outside!TunnelSender(Append(rc, e)) = Outside!TunnelSender(rc)
<1>1. Outside!Rows(Append(rc, e), "tunnel") = Outside!Rows(rc, "tunnel")
      /\ Outside!Rows(rc, "tunnel") \in SUBSET (1..Len(rc))
  <2>1. /\ Outside!Rows(Append(rc, e), "tunnel") =
             Outside!Rows(rc, "tunnel") \cup (IF e.k = "tunnel" THEN {Len(rc) + 1} ELSE {})
        /\ Outside!Rows(rc, "tunnel") \in SUBSET (1..Len(rc))
    BY RowsOfAppend
  <2>2. Outside!Rows(rc, "tunnel") \cup {} = Outside!Rows(rc, "tunnel") OBVIOUS
  <2> QED BY <2>1, <2>2
<1>2. CASE Outside!Rows(rc, "tunnel") = {} BY <1>1, <1>2 DEF Outside!TunnelSender
<1>3. CASE Outside!Rows(rc, "tunnel") # {}
  <2>1. Outside!Max(Outside!Rows(rc, "tunnel")) \in 1..Len(rc)
    BY <1>1, <1>3, CrossedAppend, LastOfRows
  <2> QED BY <1>1, <1>3, <2>1, CrossedAppend DEF Outside!TunnelSender
<1> QED BY <1>2, <1>3

LEMMA InitHeld == Outside!Init => Held
BY DEF Outside!Init, Held, Outside!Rows, Outside!Citing, AnswersTo

(* An appended row keeps what is held if the gate looked at it.             *)
LEMMA AppendHolds ==
  ASSUME NamesAreActors, Held, NEW e \in Crossed, passed' = Append(passed, e),
         receiving' = Outside!Idle
           \/ receiving' \in [at : {"verified", "adopting"}, rel : Parents, rule : Rules],
         e.k = "submit" => /\ e.mark \in BOOLEAN /\ e.of \in Entities
                           /\ e.mark => Outside!TunnelSender(passed) = e.of,
         e.k \in {"reply", "refusal"} => Outside!BindsASubmit(passed, e.id),
         e.k = "receipt" =>
           /\ e.id \in Rules /\ Outside!ReceiptIsNew(e.id)
           /\ Outside!CitationResolves(e.id, e.rel)
  PROVE  Held'
<1> DEFINE l == Len(passed)
<1>1. /\ passed \in Seq(Crossed) /\ passed' \in Seq(Crossed) /\ l \in Nat /\ Len(passed') = l + 1
      /\ \A n \in 1..l : passed'[n] = passed[n]
      /\ passed'[l + 1] = e
  BY CrossedAppend DEF Held
<1>2. ASSUME NEW k
      PROVE  /\ Outside!Rows(passed', k) =
                  Outside!Rows(passed, k) \cup (IF e.k = k THEN {l + 1} ELSE {})
             /\ Outside!Rows(passed, k) \in SUBSET (1..l)
  BY <1>1, RowsOfAppend
<1>3. ASSUME NEW k, NEW id
      PROVE  /\ Outside!Citing(passed', k, id) =
                  Outside!Citing(passed, k, id) \cup (IF e.k = k /\ e.id = id THEN {l + 1} ELSE {})
             /\ Outside!Citing(passed, k, id) \in SUBSET (1..l)
  BY <1>1, CitingOfAppend
<1> HIDE DEF l
<1>4. ASSUME NEW n \in Outside!Rows(passed', "submit")
      PROVE  ThroughItsTunnel(passed', n) /\ passed'[n].of \in Entities /\ passed'[n].mark \in BOOLEAN
  <2>1. CASE n \in Outside!Rows(passed, "submit")
    <3>1. n \in 1..l /\ n \in 0..l /\ passed'[n] = passed[n] BY <1>1, <1>2, <2>1
    <3>2. SubSeq(passed', 1, n) = SubSeq(passed, 1, n) BY <1>1, <3>1, PrefixStays DEF l
    <3>3. ThroughItsTunnel(passed, n) /\ passed[n].of \in Entities /\ passed[n].mark \in BOOLEAN
      BY <2>1 DEF Held
    <3> QED BY <3>1, <3>2, <3>3 DEF ThroughItsTunnel
  <2>2. CASE n \notin Outside!Rows(passed, "submit")
    <3>1. n = l + 1 /\ e.k = "submit"
      <4>1. Outside!Rows(passed', "submit") =
              Outside!Rows(passed, "submit") \cup (IF e.k = "submit" THEN {l + 1} ELSE {})
        BY <1>2
      <4> QED BY <2>2, <4>1
    <3>2. SubSeq(passed', 1, n) = passed' BY <1>1, <3>1
    <3>3. Outside!TunnelSender(passed') = Outside!TunnelSender(passed)
      <4>1. e.k # "tunnel" BY <3>1
      <4> QED BY <1>1, <4>1, SenderOfAppend
    <3> QED BY <1>1, <3>1, <3>2, <3>3 DEF ThroughItsTunnel
  <2> QED BY <2>1, <2>2
<1>5. ASSUME NEW id, AnswersTo(passed', id) # {}
      PROVE  \E m \in Outside!Citing(passed', "submit", id) : \A k \in AnswersTo(passed', id) : m < k
  <2>1. /\ Outside!Citing(passed', "reply", id) =
             Outside!Citing(passed, "reply", id) \cup (IF e.k = "reply" /\ e.id = id THEN {l + 1} ELSE {})
        /\ Outside!Citing(passed', "refusal", id) =
             Outside!Citing(passed, "refusal", id) \cup (IF e.k = "refusal" /\ e.id = id THEN {l + 1} ELSE {})
    BY <1>3
  <2>2. AnswersTo(passed', id) =
          AnswersTo(passed, id) \cup (IF e.k \in {"reply", "refusal"} /\ e.id = id THEN {l + 1} ELSE {})
    BY <2>1 DEF AnswersTo
  <2>3. Outside!Citing(passed, "submit", id) \subseteq Outside!Citing(passed', "submit", id)
        /\ Outside!Citing(passed, "submit", id) \in SUBSET (1..l)
    <3>1. Outside!Citing(passed', "submit", id) =
            Outside!Citing(passed, "submit", id) \cup (IF e.k = "submit" /\ e.id = id THEN {l + 1} ELSE {})
          /\ Outside!Citing(passed, "submit", id) \in SUBSET (1..l)
      BY <1>3
    <3> QED BY <3>1
  <2>4. CASE AnswersTo(passed, id) # {}
    <3>1. PICK m \in Outside!Citing(passed, "submit", id) : \A k \in AnswersTo(passed, id) : m < k
      BY <2>4 DEF Held
    <3>2. m \in Nat /\ m < l + 1 BY <1>1, <2>3, <3>1
    <3>3. \A k \in AnswersTo(passed', id) : k \in AnswersTo(passed, id) \/ k = l + 1 BY <2>2
    <3>4. \A k \in AnswersTo(passed', id) : m < k BY <3>1, <3>2, <3>3
    <3> QED BY <2>3, <3>4
  <2>5. CASE AnswersTo(passed, id) = {}
    <3>1. e.k \in {"reply", "refusal"} /\ e.id = id /\ AnswersTo(passed', id) = {l + 1}
      BY <1>5, <2>2, <2>5
    <3>2. PICK m \in Outside!Rows(passed, "submit") : passed[m].id = id
      BY <3>1 DEF Outside!BindsASubmit
    <3>3. m \in Outside!Citing(passed, "submit", id) BY <3>2 DEF Outside!Citing
    <3>4. m < l + 1 BY <1>1, <2>3, <3>3
    <3> QED BY <2>3, <3>1, <3>3, <3>4
  <2> QED BY <2>4, <2>5
<1>6. Outside!Rows(passed', "receipt") =
        Outside!Rows(passed, "receipt") \cup (IF e.k = "receipt" THEN {l + 1} ELSE {})
      /\ Outside!Rows(passed, "receipt") \in SUBSET (1..l)
  BY <1>2
<1>7. ASSUME NEW n \in Outside!Rows(passed', "receipt")
      PROVE  CitesWhatIsHeld(passed', n)
  <2>1. CASE n \in Outside!Rows(passed, "receipt")
    <3>1. n \in 1..l /\ passed'[n] = passed[n] /\ \A m \in 1..(n - 1) : passed'[m] = passed[m]
      BY <1>1, <1>6, <2>1
    <3>2. CitesWhatIsHeld(passed, n) BY <2>1 DEF Held
    <3> QED BY <3>1, <3>2 DEF CitesWhatIsHeld
  <2>2. CASE n \notin Outside!Rows(passed, "receipt")
    <3>1. n = l + 1 /\ e.k = "receipt" BY <1>6, <2>2
    <3> SUFFICES ASSUME CitedBy[e.id] # None
                 PROVE  \E m \in 1..l : /\ passed[m].k = "receipt" /\ passed[m].id = CitedBy[e.id]
                                        /\ passed[m].rel = e.rel
      BY <1>1, <3>1 DEF CitesWhatIsHeld
    <3> DEFINE r == CitedBy[e.id]
    <3>2. Outside!Receipts(passed, r) # {} /\ Outside!ReceivedUnder(passed, r) = e.rel
      BY <3>1 DEF Outside!CitationResolves, Outside!Received
    <3>3. Outside!Receipts(passed, r) \in SUBSET (1..l) BY <1>3 DEF Outside!Receipts
    <3>4. Outside!Receipts(passed, r) \in SUBSET Nat BY <1>1, <3>3
    <3>5. Outside!Min(Outside!Receipts(passed, r)) \in Outside!Receipts(passed, r)
      BY <3>2, <3>4, FirstOfRows
    <3>6. PICK m \in Outside!Receipts(passed, r) : passed[m].rel = e.rel
      BY <3>2, <3>5 DEF Outside!ReceivedUnder
    <3>7. m \in 1..l /\ passed[m].k = "receipt" /\ passed[m].id = r
      BY <3>3, <3>6 DEF Outside!Receipts, Outside!Citing, Outside!Rows
    <3> QED BY <3>6, <3>7
  <2> QED BY <2>1, <2>2
<1>8. ASSUME NEW n \in Outside!Rows(passed', "receipt"), NEW m \in Outside!Rows(passed', "receipt"),
             passed'[n].id = passed'[m].id
      PROVE  n = m
  <2>1. \A i \in Outside!Rows(passed, "receipt") : passed'[i] = passed[i] BY <1>1, <1>6
  <2>2. CASE n \in Outside!Rows(passed, "receipt") /\ m \in Outside!Rows(passed, "receipt")
    BY <1>8, <2>1, <2>2 DEF Held
  <2>3. ASSUME NEW i \in Outside!Rows(passed, "receipt"), e.k = "receipt" PROVE passed'[i].id # e.id
    BY <2>1, <2>3 DEF Outside!ReceiptIsNew, Outside!Receipts, Outside!Citing
  <2> QED BY <1>1, <1>6, <1>8, <2>2, <2>3
<1> QED BY <1>1, <1>4, <1>5, <1>7, <1>8 DEF Held

LEMMA NextHeld == NamesAreActors /\ Held /\ [Outside!Next]_(Outside!vars) => Held'
<1> SUFFICES ASSUME NamesAreActors, Held, [Outside!Next]_(Outside!vars) PROVE Held'
  OBVIOUS
<1>1. receiving = Outside!Idle \/ receiving \in [at : {"verified", "adopting"}, rel : Parents, rule : Rules]
  BY DEF Held
<1>2. ASSUME passed' = passed,
             receiving' = Outside!Idle
               \/ receiving' \in [at : {"verified", "adopting"}, rel : Parents, rule : Rules]
      PROVE  Held'
  <2>1. \A k : Outside!Rows(passed', k) = Outside!Rows(passed, k) BY <1>2
  <2>2. \A k, id : Outside!Citing(passed', k, id) = Outside!Citing(passed, k, id) BY <1>2
  <2>3. \A id : AnswersTo(passed', id) = AnswersTo(passed, id) BY <1>2
  <2>4. \A n : /\ ThroughItsTunnel(passed', n) <=> ThroughItsTunnel(passed, n)
               /\ CitesWhatIsHeld(passed', n) <=> CitesWhatIsHeld(passed, n)
    BY <1>2
  <2> QED BY <1>2, <2>1, <2>2, <2>3, <2>4 DEF Held
<1>3. CASE UNCHANGED Outside!vars BY <1>1, <1>2, <1>3 DEF Outside!vars
<1>4. CASE Outside!CreateTunnel
  <2>1. PICK x \in Entities : passed' = Append(passed, Outside!Row("tunnel", x, None))
                              /\ receiving' = receiving
    BY <1>4 DEF Outside!CreateTunnel, Outside!Record
  <2>2. Outside!Row("tunnel", x, None) \in Crossed BY DEF Outside!Row, Crossed
  <2>3. Outside!Row("tunnel", x, None).k = "tunnel" BY DEF Outside!Row
  <2> QED BY <1>1, <2>1, <2>2, <2>3, AppendHolds
<1>5. CASE Outside!Submit
  <2>1. PICK x \in Entities, y \in Entities \cup {Outside!System}, t \in BOOLEAN :
          /\ t => Outside!TunnelSender(passed) = x
          /\ passed' = Append(passed, Outside!Submitted(x, y, t)) /\ receiving' = receiving
    BY <1>5 DEF Outside!Submit, Outside!Record
  <2> DEFINE e == Outside!Submitted(x, y, t)
  <2>2. /\ DOMAIN e = {"k", "id", "of", "by", "rel", "mark"}
        /\ e.k = "submit" /\ e.id = <<x, t>> /\ e.of = x /\ e.by = y /\ e.rel = None /\ e.mark = t
    BY DEF Outside!Submitted, Outside!Row
  <2>3. e \in Crossed BY DEF Outside!Submitted, Outside!Row, Crossed
  <2>4. e.k = "submit" /\ e.of = x /\ e.mark = t BY <2>2
  <2> HIDE DEF e
  <2> QED BY <1>1, <2>1, <2>3, <2>4, AppendHolds DEF e
<1>6. CASE Outside!Respond
  <2>1. PICK k \in {"reply", "refusal"}, x \in Entities, t \in BOOLEAN, y \in Entities :
          /\ Outside!BindsASubmit(passed, <<x, t>>)
          /\ passed' = Append(passed, Outside!Row(k, <<x, t>>, y)) /\ receiving' = receiving
    BY <1>6 DEF Outside!Respond, Outside!Record
  <2> DEFINE e == Outside!Row(k, <<x, t>>, y)
  <2>2. e \in Crossed BY DEF Outside!Row, Crossed
  <2>3. e.k = k /\ e.id = <<x, t>> BY DEF Outside!Row
  <2> HIDE DEF e
  <2> QED BY <1>1, <2>1, <2>2, <2>3, AppendHolds DEF e
<1>7. CASE Outside!Relate
  <2>1. PICK p \in Parents, k \in {"declare", "withdraw"} :
          passed' = Append(passed, Outside!Row(k, p, p)) /\ receiving' = receiving
    BY <1>7 DEF Outside!Relate, Outside!Record
  <2> DEFINE e == Outside!Row(k, p, p)
  <2>2. e \in Crossed BY DEF Outside!Row, Crossed
  <2>3. e.k = k BY DEF Outside!Row
  <2> HIDE DEF e
  <2> QED BY <1>1, <2>1, <2>2, <2>3, AppendHolds DEF e
<1>8. CASE Outside!CreateRule
  <2>1. PICK i \in RuleIds, mark \in {"adopts", "auto", None}, r \in Rules :
          /\ passed' = Append(passed, [Outside!Row("rule", i, IF mark = "adopts" THEN r ELSE None)
                                         EXCEPT !.mark = mark])
          /\ receiving' = receiving
    BY <1>8 DEF Outside!CreateRule, Outside!Record
  <2> DEFINE e == [Outside!Row("rule", i, IF mark = "adopts" THEN r ELSE None) EXCEPT !.mark = mark]
  <2>2. e = [k |-> "rule", id |-> i, of |-> IF mark = "adopts" THEN r ELSE None, by |-> None,
             rel |-> None, mark |-> mark]
    BY DEF Outside!Row
  <2>3. e \in Crossed BY <2>2 DEF Crossed
  <2>4. e.k = "rule" BY <2>2
  <2> HIDE DEF e
  <2> QED BY <1>1, <2>1, <2>3, <2>4, AppendHolds DEF e
<1>9. CASE Outside!ReceiveVerified
  BY <1>2, <1>9 DEF Outside!ReceiveVerified
<1>10. CASE Outside!ReceiveRecorded
  <2> DEFINE r == receiving.rule
  <2>1. receiving \in [at : {"verified", "adopting"}, rel : Parents, rule : Rules]
    BY <1>1, <1>10 DEF Outside!ReceiveRecorded, Outside!Idle
  <2>2. CASE Outside!CitationResolves(r, receiving.rel) /\ Outside!ReceiptIsNew(r)
    <3> DEFINE e == [Outside!Row("receipt", r, r) EXCEPT !.rel = receiving.rel]
    <3>1. passed' = Append(passed, e)
          /\ (receiving' = [receiving EXCEPT !.at = "adopting"] \/ receiving' = Outside!Idle)
      BY <1>10, <2>2 DEF Outside!ReceiveRecorded, Outside!Record
    <3>2. receiving' = Outside!Idle
            \/ receiving' \in [at : {"verified", "adopting"}, rel : Parents, rule : Rules]
      BY <2>1, <3>1
    <3>3. e = [k |-> "receipt", id |-> r, of |-> r, by |-> None, rel |-> receiving.rel, mark |-> None]
      BY DEF Outside!Row
    <3>4. r \in Rules /\ receiving.rel \in Parents BY <2>1
    <3>5. e \in Crossed BY <3>3, <3>4 DEF Crossed
    <3>6. e.k = "receipt" /\ e.id = r /\ e.rel = receiving.rel BY <3>3
    <3> HIDE DEF e, r
    <3> QED BY <2>2, <3>1, <3>2, <3>4, <3>5, <3>6, AppendHolds
  <2>3. CASE ~ (Outside!CitationResolves(r, receiving.rel) /\ Outside!ReceiptIsNew(r))
    BY <1>2, <1>10, <2>3 DEF Outside!ReceiveRecorded
  <2> QED BY <2>2, <2>3
<1>11. CASE Outside!AutoAdopt
  <2>1. receiving \in [at : {"verified", "adopting"}, rel : Parents, rule : Rules]
    BY <1>1, <1>11 DEF Outside!AutoAdopt, Outside!Idle
  <2>2. PICK i \in RuleIds :
          /\ passed' = Append(passed, [Outside!Row("rule", i, receiving.rule) EXCEPT !.mark = "adopts"])
          /\ receiving' = Outside!Idle
    BY <1>11 DEF Outside!AutoAdopt, Outside!Record
  <2> DEFINE e == [Outside!Row("rule", i, receiving.rule) EXCEPT !.mark = "adopts"]
  <2>3. e = [k |-> "rule", id |-> i, of |-> receiving.rule, by |-> None, rel |-> None,
             mark |-> "adopts"]
    BY DEF Outside!Row
  <2>4. e \in Crossed BY <2>1, <2>3 DEF Crossed
  <2>5. e.k = "rule" BY <2>3
  <2> HIDE DEF e
  <2> QED BY <2>2, <2>4, <2>5, AppendHolds DEF e
<1>12. CASE Outside!ReceiveEnds
  BY <1>2, <1>12 DEF Outside!ReceiveEnds
<1> QED BY <1>3, <1>4, <1>5, <1>6, <1>7, <1>8, <1>9, <1>10, <1>11, <1>12 DEF Outside!Next

-----------------------------------------------------------------------------
(* What is held says the property. *)

LEMMA AnsweredWasPut ==
  ASSUME Held, NEW id, Outside!CrossingState(passed, id) # "open"
  PROVE  \E m \in Outside!Citing(passed, "submit", id) :
           \A k \in Outside!Citing(passed, "reply", id) \cup Outside!Citing(passed, "refusal", id) : m < k
<1>1. AnswersTo(passed, id) # {} BY DEF Outside!CrossingState, AnswersTo
<1> QED BY <1>1 DEF Held, AnswersTo

LEMMA WindowShowsTheLast ==
  ASSUME Held, NEW n \in Outside!ThroughTheWindow(passed)
  PROVE  /\ passed[n].id \in Outside!Crossings(passed)
         /\ Outside!CrossingState(passed, passed[n].id) # "open"
         /\ \A m \in Outside!Citing(passed, "refusal", passed[n].id) : m <= n
<1>1. PICK i \in Outside!Rows(passed, "refusal") :
        n = Outside!Max(Outside!Citing(passed, "refusal", passed[i].id))
  BY DEF Outside!ThroughTheWindow
<1> DEFINE S == Outside!Citing(passed, "refusal", passed[i].id)
<1>2. Len(passed) \in Nat /\ S \in SUBSET (1..Len(passed)) /\ S # {}
  BY <1>1 DEF Held, Outside!Citing, Outside!Rows
<1>3. n \in S /\ \A y \in S : y <= n BY <1>1, <1>2, LastOfRows
<1>4. passed[n].id = passed[i].id BY <1>3 DEF Outside!Citing
<1>5. Outside!CrossingState(passed, passed[n].id) # "open"
  BY <1>2, <1>4 DEF Outside!CrossingState
<1>6. PICK m \in Outside!Citing(passed, "submit", passed[n].id) : TRUE
  BY <1>5, AnsweredWasPut
<1>7. passed[n].id \in Outside!Crossings(passed)
  BY <1>6 DEF Outside!Crossings, Outside!Citing
<1> QED BY <1>3, <1>4, <1>5, <1>7

(* The tunnel a submit came through is its entity's till another is made,   *)
(* and it is the entity's till another puts it.                             *)
LEMMA StaysBound ==
  ASSUME NamesAreActors, Held, NEW n \in Outside!Rows(passed, "submit"),
         passed[n].mark = TRUE, passed[n].by = passed[n].of,
         ~ \E m \in (n + 1)..Len(passed) :
              \/ passed[m].k = "tunnel" /\ passed[m].id # passed[n].of
              \/ passed[m].k = "submit" /\ passed[m].id = passed[n].id /\ passed[m].by # passed[n].by
  PROVE  passed[n].id \in Outside!BoundOver(passed) \ Outside!SystemAttributed(passed)
<1> DEFINE id == passed[n].id
           S == Outside!Citing(passed, "submit", id)
           T == Outside!Rows(passed, "tunnel")
           P == Outside!Rows(SubSeq(passed, 1, n), "tunnel")
<1>1. /\ passed \in Seq(Crossed) /\ Len(passed) \in Nat /\ n \in 1..Len(passed) /\ n \in 0..Len(passed)
      /\ S \in SUBSET (1..Len(passed)) /\ n \in S /\ T \in SUBSET (1..Len(passed))
      /\ n \in Nat /\ passed[n].of \in Entities /\ passed[n].of # None /\ passed[n].of # Outside!System
  BY DEF Held, Outside!Citing, Outside!Rows, NamesAreActors, Outside!System
<1>2. Outside!WilledBy(passed, id) = passed[n].of
  <2>1. Outside!Max(S) \in S /\ \A y \in S : y <= Outside!Max(S) BY <1>1, LastOfRows
  <2>2. PICK m \in S : m = Outside!Max(S) BY <2>1
  <2>3. n <= m /\ m \in 1..Len(passed) /\ passed[m].k = "submit" /\ passed[m].id = id
    BY <1>1, <2>1, <2>2 DEF Outside!Citing, Outside!Rows
  <2>4. passed[m].by = passed[n].by
    <3>1. CASE m = n BY <3>1
    <3>2. CASE m # n
      <4>1. m \in (n + 1)..Len(passed) BY <1>1, <2>3, <3>2
      <4> QED BY <2>3, <4>1
    <3> QED BY <3>1, <3>2
  <2> QED BY <2>2, <2>4 DEF Outside!WilledBy
<1>3. P = {i \in T : i <= n} /\ \A i \in 1..n : SubSeq(passed, 1, n)[i] = passed[i]
  BY <1>1, CrossedPrefix
<1>4. Outside!TunnelSender(SubSeq(passed, 1, n)) = passed[n].of
  BY DEF Held, ThroughItsTunnel
<1>5. P # {} BY <1>1, <1>4 DEF Outside!TunnelSender
<1> HIDE DEF S, T, P, id
<1>6. P \in SUBSET (1..n)
  <2>1. \A i \in P : i \in 1..Len(passed) /\ i <= n BY <1>1, <1>3
  <2>2. \A i \in P : i \in 1..n BY <1>1, <2>1
  <2> QED BY <2>2
<1>7. Outside!Max(P) \in P /\ \A y \in P : y <= Outside!Max(P) BY <1>1, <1>5, <1>6, LastOfRows
<1>8. PICK p \in P : p = Outside!Max(P) BY <1>7
<1>9. passed[p].id = passed[n].of /\ p \in T /\ p \in 1..n
  BY <1>3, <1>4, <1>5, <1>6, <1>8 DEF Outside!TunnelSender, P
<1>10. Outside!Max(T) \in T /\ \A y \in T : y <= Outside!Max(T) BY <1>1, <1>9, LastOfRows
<1>11. PICK t \in T : t = Outside!Max(T) BY <1>10
<1>12. passed[t].id = passed[n].of
  <2>1. CASE t <= n
    <3>1. t \in P BY <1>3, <2>1
    <3>2. t <= p /\ p <= t /\ p \in Nat /\ t \in Nat
      <4>1. t <= p BY <1>7, <1>8, <3>1
      <4>2. p <= t BY <1>9, <1>10, <1>11
      <4>3. p \in Nat /\ t \in Nat BY <1>1, <1>9
      <4> QED BY <4>1, <4>2, <4>3
    <3> QED BY <1>9, <3>2
  <2>2. CASE ~ (t <= n)
    <3>1. t \in (n + 1)..Len(passed) /\ passed[t].k = "tunnel"
      BY <1>1, <2>2 DEF T, Outside!Rows
    <3> QED BY <3>1
  <2> QED BY <2>1, <2>2
<1>13. Outside!TunnelSender(passed) = passed[n].of
  BY <1>11, <1>12 DEF Outside!TunnelSender, T
<1>14. id \in Outside!Crossings(passed) BY DEF Outside!Crossings, id
<1> QED BY <1>1, <1>2, <1>13, <1>14 DEF Outside!BoundOver, Outside!SystemAttributed, id

LEMMA CountIs == \A S : Outside!Cardinality(S) = Cardinality(S)
BY DEF Cardinality, Outside!Cardinality

LEMMA OneReceipt ==
  ASSUME Held, NEW r
  PROVE  Outside!Cardinality(Outside!Receipts(passed, r)) <= 1
<1> DEFINE S == Outside!Receipts(passed, r)
<1>1. \A n, m \in S : n = m BY DEF Held, Outside!Receipts, Outside!Citing
<1>2. CASE S = {} BY <1>2, FS_EmptySet, CountIs
<1>3. CASE S # {}
  <2>1. PICK n \in S : TRUE BY <1>3
  <2>2. S = {n} BY <1>1, <2>1
  <2>3. Cardinality({n}) = 1 BY FS_Singleton
  <2> HIDE DEF S
  <2>4. Cardinality(S) = 1 BY <2>2, <2>3
  <2> QED BY <2>4, CountIs DEF S
<1> QED BY <1>2, <1>3

(* What was first stays first when rows are added. *)
LEMMA FirstStays ==
  ASSUME NEW S \in SUBSET Nat, NEW n \in Nat, {i \in S : i <= n} # {}
  PROVE  /\ Outside!Min({i \in S : i <= n}) = Outside!Min(S)
         /\ Outside!Min(S) \in S /\ Outside!Min(S) <= n
<1> DEFINE P == {i \in S : i <= n}
<1>1. S # {} /\ P \in SUBSET Nat OBVIOUS
<1>2. Outside!Min(S) \in S /\ \A y \in S : Outside!Min(S) <= y BY <1>1, FirstOfRows
<1>3. PICK m \in S : m = Outside!Min(S) BY <1>2
<1>4. PICK i \in P : TRUE OBVIOUS
<1>5. m <= i /\ i <= n /\ m \in Nat /\ i \in Nat BY <1>2, <1>3, <1>4
<1>6. m \in P /\ \A y \in P : m <= y BY <1>2, <1>3, <1>5
<1>7. Outside!Min(P) = m BY <1>1, <1>6, FirstIs
<1> QED BY <1>3, <1>5, <1>7

LEMMA ActiveStays ==
  ASSUME Held, NEW n \in 0..Len(passed)
  PROVE  Outside!ActiveConstitution(SubSeq(passed, 1, n)) \subseteq Outside!ActiveConstitution(passed)
<1> DEFINE pre == SubSeq(passed, 1, n)
<1>1. passed \in Seq(Crossed) /\ Len(passed) \in Nat /\ n \in Nat BY DEF Held
<1>2. \A i \in 1..n : pre[i] = passed[i] BY <1>1, CrossedPrefix
<1>3. ASSUME NEW r PROVE Outside!Receipts(pre, r) = {i \in Outside!Receipts(passed, r) : i <= n}
  BY <1>1, CrossedPrefix DEF Outside!Receipts
<1>4. Outside!Rows(pre, "rule") = {i \in Outside!Rows(passed, "rule") : i <= n} BY <1>1, CrossedPrefix
<1>5. \A k : Outside!Rows(passed, k) \in SUBSET Nat BY <1>1 DEF Outside!Rows
<1>6. ASSUME NEW r PROVE Outside!Adopting(pre, r) = {i \in Outside!Adopting(passed, r) : i <= n}
  <2>1. \A i \in Outside!Rows(pre, "rule") : pre[i] = passed[i]
    <3>1. \A i \in Outside!Rows(passed, "rule") : i \in 1..Len(passed) BY DEF Outside!Rows
    <3>2. \A i \in Outside!Rows(pre, "rule") : i \in 1..n BY <1>1, <1>4, <3>1
    <3> QED BY <1>2, <3>2
  <2> HIDE DEF pre
  <2> QED BY <1>4, <2>1 DEF Outside!Adopting
<1> SUFFICES ASSUME NEW r \in Rules, Outside!Receipts(pre, r) # {}, Outside!Adopting(pre, r) # {}
             PROVE  /\ Outside!Receipts(passed, r) # {} /\ Outside!Adopting(passed, r) # {}
                    /\ Outside!ReceivedUnder(pre, r) = Outside!ReceivedUnder(passed, r)
                    /\ Outside!AdoptedBy(pre, r) = Outside!AdoptedBy(passed, r)
  BY DEF Outside!ActiveConstitution, Outside!Received
<1> HIDE DEF pre
<1>7. Outside!ReceivedUnder(pre, r) = Outside!ReceivedUnder(passed, r)
  <2> DEFINE S == Outside!Receipts(passed, r)
  <2>1. S \in SUBSET (1..Len(passed)) BY DEF Outside!Receipts, Outside!Citing, Outside!Rows
  <2>2. S \in SUBSET Nat BY <1>1, <2>1
  <2>3. Outside!Receipts(pre, r) = {i \in S : i <= n} BY <1>3
  <2> HIDE DEF S
  <2>4. Outside!Min({i \in S : i <= n}) = Outside!Min(S) /\ Outside!Min(S) \in S /\ Outside!Min(S) <= n
    BY <1>1, <2>2, <2>3, FirstStays
  <2>6. PICK y \in S : y = Outside!Min(S) BY <2>4
  <2>7. y \in 1..Len(passed) /\ y <= n BY <2>1, <2>4, <2>6
  <2>5. Outside!Min(S) \in 1..n BY <1>1, <2>6, <2>7
  <2> QED BY <1>2, <2>3, <2>4, <2>5 DEF Outside!ReceivedUnder, S
<1>8. Outside!AdoptedBy(pre, r) = Outside!AdoptedBy(passed, r)
  <2> DEFINE S == Outside!Adopting(passed, r)
  <2>1. S \in SUBSET (1..Len(passed)) BY DEF Outside!Adopting, Outside!Rows
  <2>2. S \in SUBSET Nat BY <1>1, <2>1
  <2>3. Outside!Adopting(pre, r) = {i \in S : i <= n} BY <1>6
  <2> HIDE DEF S
  <2>4. Outside!Min({i \in S : i <= n}) = Outside!Min(S) /\ Outside!Min(S) \in S /\ Outside!Min(S) <= n
    BY <1>1, <2>2, <2>3, FirstStays
  <2>6. PICK y \in S : y = Outside!Min(S) BY <2>4
  <2>7. y \in 1..Len(passed) /\ y <= n BY <2>1, <2>4, <2>6
  <2>5. Outside!Min(S) \in 1..n BY <1>1, <2>6, <2>7
  <2> QED BY <1>2, <2>3, <2>4, <2>5 DEF Outside!AdoptedBy, S
<1> QED BY <1>3, <1>6, <1>7, <1>8

(* What crossed the border stands on what this body then held, and what was *)
(* adopted stays under the relation and by the act it first was (border.py: *)
(* submit, respond, receive, adopt and their folds).                        *)
THEOREM CrossingsAreGrounded ==
  NamesAreActors => (Outside!Spec => []Outside!CrossingsAreGrounded)
<1> SUFFICES ASSUME NamesAreActors PROVE Outside!Spec => []Outside!CrossingsAreGrounded
  OBVIOUS
<1>1. Held => Outside!CrossingsAreGrounded
  <2> SUFFICES ASSUME Held PROVE Outside!CrossingsAreGrounded
    OBVIOUS
  <2>1. ASSUME NEW n \in Outside!Rows(passed, "submit")
        PROVE  /\ passed[n].mark \in BOOLEAN
               /\ passed[n].mark => Outside!TunnelSender(Outside!Prefix(n)) = passed[n].of
               /\ (passed[n].mark /\ passed[n].by = passed[n].of) =>
                    \/ passed[n].id \in Outside!BoundOver(passed) \ Outside!SystemAttributed(passed)
                    \/ \E m \in (n+1)..Len(passed) :
                         \/ passed[m].k = "tunnel" /\ passed[m].id # passed[n].of
                         \/ passed[m].k = "submit" /\ passed[m].id = passed[n].id /\ passed[m].by # passed[n].by
    <3>1. passed[n].mark \in BOOLEAN /\ ThroughItsTunnel(passed, n) BY DEF Held
    <3>2. passed[n].mark <=> passed[n].mark = TRUE BY <3>1
    <3> QED BY <3>1, <3>2, StaysBound DEF ThroughItsTunnel, Outside!Prefix
  <2>2. \A n \in Outside!Rows(passed, "receipt") :
          LET cited == CitedBy[passed[n].id]
          IN  cited # None =>
                \E m \in 1..(n-1) : /\ passed[m].k = "receipt" /\ passed[m].id = cited
                                    /\ passed[m].rel = passed[n].rel
    BY DEF Held, CitesWhatIsHeld
  <2>3. \A n \in 0..Len(passed) :
          Outside!ActiveConstitution(Outside!Prefix(n)) \subseteq Outside!ActiveConstitution(passed)
    BY ActiveStays DEF Outside!Prefix
  <2>4. \A n \in Outside!Rows(passed, "submit") : Outside!CrossingState(passed, passed[n].id) # "open" =>
          \E m \in Outside!Citing(passed, "submit", passed[n].id) :
            \A k \in Outside!Citing(passed, "reply", passed[n].id)
                    \cup Outside!Citing(passed, "refusal", passed[n].id) : m < k
    BY AnsweredWasPut
  <2>5. \A n \in Outside!ThroughTheWindow(passed) :
          /\ passed[n].id \in Outside!Crossings(passed)
          /\ Outside!CrossingState(passed, passed[n].id) # "open"
          /\ \A m \in Outside!Citing(passed, "refusal", passed[n].id) : m <= n
    BY WindowShowsTheLast
  <2>6. \A r \in Rules : Outside!Cardinality(Outside!Receipts(passed, r)) <= 1 BY OneReceipt
  <2> QED BY <2>1, <2>2, <2>3, <2>4, <2>5, <2>6 DEF Outside!CrossingsAreGrounded
<1>2. Outside!Init => Held BY InitHeld
<1>3. Held /\ [Outside!Next]_(Outside!vars) => Held' BY NextHeld
<1> QED BY <1>1, <1>2, <1>3, PTL DEF Outside!Spec

-----------------------------------------------------------------------------
(* What the children hold of a parent that is gone *)
CONSTANTS Positions, MaxHeld
VARIABLES parent, store, brought

Salvage == INSTANCE Rebuild

(* No segment carries the parent's mark over what the parent did not record.*)
Segments == [claim : Salvage!Claims, marked : BOOLEAN, over : Salvage!Claims]
Marked == brought \in Seq(Segments) /\ \A n \in 1..Len(brought) : Salvage!Possible(brought[n])

LEMMA NextMarked == Marked /\ [Salvage!Next]_(Salvage!vars) => Marked'
<1> SUFFICES ASSUME Marked, [Salvage!Next]_(Salvage!vars) PROVE Marked'
  OBVIOUS
<1>1. CASE Salvage!Next
  <2>1. PICK claim \in Salvage!Claims, over \in Salvage!Claims, marked \in BOOLEAN :
          /\ Salvage!Possible(Salvage!Segment(claim, marked, over))
          /\ brought' = Append(brought, Salvage!Segment(claim, marked, over))
    BY <1>1 DEF Salvage!Next, Salvage!Bring
  <2> DEFINE s == Salvage!Segment(claim, marked, over)
  <2>2. s \in Segments /\ Salvage!Possible(s) /\ brought' = Append(brought, s) /\ parent' = parent
    BY <1>1, <2>1 DEF Segments, Salvage!Segment, Salvage!Next, Salvage!Bring
  <2> HIDE DEF s
  <2> QED BY <2>2 DEF Marked, Salvage!Possible
<1>2. CASE UNCHANGED Salvage!vars
  BY <1>2 DEF Marked, Salvage!vars, Salvage!Possible
<1> QED BY <1>1, <1>2

(* Of segments that claim the same, the first is considered.                *)
LEMMA FirstIsConsidered ==
  ASSUME NEW n \in 1..Len(brought), Len(brought) \in Nat
  PROVE  \E m \in Salvage!Considered : m <= n /\ brought[m].claim = brought[n].claim
<1> DEFINE Same == {m \in 1..Len(brought) : brought[m].claim = brought[n].claim}
<1>1. Same \subseteq Nat /\ n \in Same
  OBVIOUS
<1>2. PICK m \in Same : \A k \in Same : m <= k
  BY <1>1, LeastOf
<1>3. \A k \in 1..(m - 1) : brought[k].claim # brought[m].claim
  BY <1>2
<1> QED BY <1>1, <1>2, <1>3 DEF Salvage!Considered

(* What is rebuilt of the children's segments is the parent's own content   *)
(* wherever anything is, whatever they bring and in whatever order; and a   *)
(* position one of them holds whole is rebuilt, or a segment listed before  *)
(* it with the same claim was refused by name (reconstruct.py).             *)
THEOREM UnionIsOfTheParent == Salvage!Spec => []Salvage!UnionIsTheParents
<1>1. Salvage!Init => Marked
  BY DEF Salvage!Init, Marked
<1>2. Marked => Salvage!UnionIsTheParents
  <2> SUFFICES ASSUME Marked PROVE Salvage!UnionIsTheParents
    OBVIOUS
  <2>1. Len(brought) \in Nat /\ \A n \in 1..Len(brought) : brought[n] \in Segments
    BY DEF Marked
  <2>2. ASSUME NEW p \in DOMAIN Salvage!Rebuilt PROVE Salvage!Rebuilt[p] = parent[p]
    <3> DEFINE n == Max(Salvage!Held(p))
    <3>1. /\ p \in {brought[k].claim[1] : k \in Salvage!Admitted}
          /\ Salvage!Rebuilt[p] = store[brought[n].claim[2]]
      BY <2>2 DEF Salvage!Rebuilt, Max, Salvage!Max
    <3>2. Salvage!Held(p) \in SUBSET (1..Len(brought)) /\ Salvage!Held(p) # {}
      BY <3>1 DEF Salvage!Held, Salvage!Admitted, Salvage!Considered
    <3>3. n \in Salvage!Held(p)
      BY <2>1, <3>2, NewestIsOne
    <3> HIDE DEF n
    <3>4. /\ n \in 1..Len(brought) /\ brought[n].claim[1] = p
          /\ brought[n].marked /\ brought[n].over = brought[n].claim
          /\ store[brought[n].claim[2]] = brought[n].claim[2]
      BY <3>3 DEF Salvage!Held, Salvage!Admitted, Salvage!Considered, Salvage!Verifies
    <3>5. parent[p] = brought[n].claim[2]
      BY <3>4 DEF Marked, Salvage!Possible
    <3> QED BY <3>1, <3>4, <3>5
  <2>3. ASSUME NEW n \in 1..Len(brought), Salvage!Verifies(brought[n])
        PROVE  \/ brought[n].claim[1] \in DOMAIN Salvage!Rebuilt
               \/ \E m \in Salvage!Refused : m < n /\ brought[m].claim = brought[n].claim
    <3>1. PICK m \in Salvage!Considered : m <= n /\ brought[m].claim = brought[n].claim
      BY <2>1, FirstIsConsidered
    <3>2. CASE m \in Salvage!Admitted
      BY <3>1, <3>2 DEF Salvage!Rebuilt
    <3>3. CASE m \notin Salvage!Admitted
      <4>1. m \in Salvage!Refused /\ m \in 1..Len(brought)
        BY <3>1, <3>3 DEF Salvage!Refused, Salvage!Considered
      <4>2. m # n
        BY <2>3, <3>1, <3>3 DEF Salvage!Admitted
      <4> QED BY <3>1, <4>1, <4>2
    <3> QED BY <3>2, <3>3
  <2> QED BY <2>2, <2>3 DEF Salvage!UnionIsTheParents
<1> QED BY <1>1, <1>2, NextMarked, PTL DEF Salvage!Spec

=============================================================================
