------------------------- MODULE RootAuthorityProofs -------------------------
(***************************************************************************)
(* Root authority moves only by a lawful ceremony, for any set of          *)
(* accounts, classes and keys, any grants and any bounds.  The argument:   *)
(* the designation outlives the handover it was made for, but it then      *)
(* names the root itself, so a designation of anybody else was recorded by *)
(* the root in office (CeremonyOK).  And the least set closed under the    *)
(* recorded verifications holds only accounts that a chain of them leads   *)
(* from to an anchor, so nobody else becomes root (RootIsVouchedFor).      *)
(*                                                                         *)
(* Nor does the sweep of a late law move the root: the overturns of a      *)
(* sweep go up the record and are let in one by one by the guard that let  *)
(* the sweep begin, so that once it is over the record shows the world     *)
(* that guard was asked about.  No prefix of a sweep moves the root.       *)
(*                                                                         *)
(* And the sweep reaches all it should: a round that adds nothing is the   *)
(* last that could, and there are as many rounds as candidates, so nothing *)
(* is left that falls when all that fell is gone (FixedPoint).  An act     *)
(* falls in a later round because a grant or a handover it stood on fell   *)
(* in the round before; that one was recorded earlier, and its return      *)
(* restores the act if the return of any later one does, so that what an   *)
(* overturn cites is earlier, and already on the record (CitesWhatFell).   *)
(***************************************************************************)
EXTENDS RootAuthority, FiniteSetTheorems, WellFoundedInduction, SequenceTheorems, TLAPS

IInv == TypeOK /\ CeremonyOK

(* An anchor is no verified account, so no successor is one. *)
LEMMA VerifiedAccounts == Verified \subseteq Accounts
  BY DEF Verified

LEMMA SuccessorIsNamed ==
  ASSUME CurrentSuccessor # None
  PROVE  /\ CurrentSuccessor = named /\ accepted
         /\ named \in Accounts /\ AccountClass(named) = "human"
  BY VerifiedAccounts DEF CurrentSuccessor

LEMMA InitIInv == Init => IInv
<1> SUFFICES ASSUME Init PROVE IInv
  OBVIOUS
<1>1. brakes \in Seq(BrakeRecord) /\ checks \subseteq Actors \X Actors
  BY DEF Init
<1>2. accepted \in BOOLEAN /\ willing \subseteq Actors
  BY DEF Init
<1>3. /\ class \in [Actors -> Classes \cup {None}]
      /\ band \in [Actors -> Targets \cup {None}]
      /\ key \in [Actors -> Keys \cup {None}]
  BY DEF Init
<1>4. /\ root \in Actors
      /\ named \in Actors \cup {None} /\ namer \in Actors \cup {None}
  BY DEF Init, Actors, Anchors
<1>5. CeremonyOK
  BY DEF Init, CeremonyOK
<1> QED BY <1>1, <1>2, <1>3, <1>4, <1>5 DEF IInv, TypeOK

-----------------------------------------------------------------------------
LEMMA CreateAccountIInv ==
  ASSUME IInv, NEW a \in Actors, NEW id \in Ids, NEW c, CreateAccount(a, id, c)
  PROVE  IInv'
  BY IdsAssumption DEF IInv, TypeOK, CeremonyOK, CreateAccount, successionVars

LEMMA VerifyAccountIInv ==
  ASSUME IInv, NEW a \in Actors, NEW id \in Ids, NEW t \in Targets, VerifyAccount(a, id, t)
  PROVE  IInv'
  BY IdsAssumption DEF IInv, TypeOK, CeremonyOK, VerifyAccount, successionVars

LEMMA DesignateSuccessorIInv ==
  ASSUME IInv, NEW a \in Actors, NEW s \in Actors, DesignateSuccessor(a, s)
  PROVE  IInv'
  BY VerifiedAccounts DEF IInv, TypeOK, CeremonyOK, DesignateSuccessor, accountVars

LEMMA AcceptSuccessionIInv ==
  ASSUME IInv, NEW a \in Actors, AcceptSuccession(a)
  PROVE  IInv'
  BY DEF IInv, TypeOK, CeremonyOK, AcceptSuccession, accountVars

LEMMA RevokeSuccessionIInv ==
  ASSUME IInv, NEW a \in Actors, RevokeSuccession(a)
  PROVE  IInv'
  BY DEF IInv, TypeOK, CeremonyOK, RevokeSuccession, accountVars

(* The handover makes the designated successor the root, so the            *)
(* designation that stays standing names the root itself.                  *)
LEMMA HandoverIInv ==
  ASSUME IInv, NEW a \in Actors, Handover(a)
  PROVE  IInv'
<1>1. CurrentSuccessor # None /\ root' = CurrentSuccessor
  BY DEF Handover
<1>2. root' = named /\ named \in Accounts
  BY <1>1, SuccessorIsNamed
<1>3. TypeOK'
  BY <1>2 DEF IInv, TypeOK, Handover, accountVars, successionVars, Actors
<1>4. CeremonyOK'
  BY <1>2 DEF IInv, CeremonyOK, Handover, successionVars
<1> QED BY <1>3, <1>4 DEF IInv

LEMMA KeyOpIInv ==
  ASSUME IInv, NEW a \in Actors, NEW id \in Ids, NEW k \in Keys,
         KeyBind(a, id, k) \/ KeyRotate(a, id, k)
  PROVE  IInv'
  BY IdsAssumption
  DEF IInv, TypeOK, CeremonyOK, KeyBind, KeyRotate, accountVars, successionVars

LEMMA KeyRevokeIInv ==
  ASSUME IInv, NEW a \in Actors, NEW id \in Ids, KeyRevoke(a, id)
  PROVE  IInv'
  BY IdsAssumption
  DEF IInv, TypeOK, CeremonyOK, KeyRevoke, accountVars, successionVars

LEMMA BrakeIInv ==
  ASSUME IInv, NEW r \in BrakeRecord, Brake(r)
  PROVE  IInv'
  BY DEF IInv, TypeOK, CeremonyOK, Brake, accountVars, successionVars

LEMMA WatcherIInv ==
  ASSUME IInv, NEW a \in Actors, NEW w \in Actors, HaltWatcher(a, w) \/ ResolveWatcher(a, w)
  PROVE  IInv'
  BY BrakeIInv DEF HaltWatcher, ResolveWatcher, BrakeRecord

LEMMA NextIInv == IInv /\ [Next]_vars => IInv'
<1> SUFFICES ASSUME IInv, [Next]_vars PROVE IInv'
  OBVIOUS
<1>1. CASE UNCHANGED vars
  BY <1>1 DEF IInv, TypeOK, CeremonyOK, vars, accountVars, successionVars
<1>2. ASSUME NEW a \in Actors, ActBy(a) PROVE IInv'
  BY <1>2, CreateAccountIInv, VerifyAccountIInv, DesignateSuccessorIInv, AcceptSuccessionIInv,
     RevokeSuccessionIInv, HandoverIInv, KeyOpIInv, KeyRevokeIInv, WatcherIInv
  DEF ActBy
<1> QED BY <1>1, <1>2 DEF Next

LEMMA Inductive == Spec => []IInv
  BY InitIInv, NextIInv, PTL DEF Spec

-----------------------------------------------------------------------------
(* The folds of the record keep their types (module RootAuthority). *)
THEOREM RootAuthorityTypes == Spec => []TypeOK
<1>1. IInv => TypeOK
  BY DEF IInv
<1> QED BY <1>1, Inductive, PTL

(* Only a handover moves the root, and the root it moves to is the         *)
(* accepted, human designee.                                               *)
LEMMA OnlyHandoverMovesRoot ==
  ASSUME [Next]_vars, root' # root
  PROVE  \E a \in Actors : Handover(a)
  BY DEF Next, ActBy, CreateAccount, VerifyAccount, DesignateSuccessor, AcceptSuccession,
         RevokeSuccession, KeyBind, KeyRotate, KeyRevoke, HaltWatcher, ResolveWatcher, Brake, vars

LEMMA TransferStep ==
  ASSUME IInv, [Next]_vars, root' # root
  PROVE  /\ namer = root /\ root' \in willing
         /\ root' \in Accounts
         /\ AccountClass(root') = "human"
<1>1. PICK a \in Actors : Handover(a)
  BY OnlyHandoverMovesRoot
<1>2. CurrentSuccessor # None /\ root' = CurrentSuccessor
  BY <1>1 DEF Handover
<1>3. root' = named /\ accepted /\ named \in Accounts /\ AccountClass(named) = "human"
  BY <1>2, SuccessorIsNamed
<1>4. namer = root /\ root' \in willing
  BY <1>3, NoneAssumption DEF IInv, CeremonyOK, Actors
<1>5. AccountClass(root') = "human"
  BY <1>3 DEF AccountClass
<1> QED BY <1>3, <1>4, <1>5

(* Root authority moves only to the accepted, human designee of the root   *)
(* in office (the gate's anchor guard over views.current_successor).       *)
THEOREM TransferIsLawful == Spec => LawfulTransfer
<1>1. IInv /\ [Next]_vars
        => [root' # root => /\ namer = root /\ root' \in willing
                            /\ AccountClass(root') = "human"]_vars
  BY TransferStep
<1> QED BY <1>1, Inductive, PTL DEF Spec, LawfulTransfer

(* The founding root never holds root authority again: an anchor is never  *)
(* a verified account (views._verified_accounts).                          *)
THEOREM NoReturnOfFoundingRoot == Spec => FoundingRootNeverReturns
<1>1. IInv /\ [Next]_vars => [root # Owner => root' # Owner]_vars
  BY TransferStep, AnchorsAssumption DEF Anchors
<1> QED BY <1>1, Inductive, PTL DEF Spec, FoundingRootNeverReturns

(* Keyed authority passes only to a keyed successor (the succession key    *)
(* half of the anchor guard).                                              *)
THEOREM KeyedAuthority == Spec => KeyedAuthorityStaysKeyed
<1>1. [Next]_vars => [root' # root /\ KeyValid(root) => key'[root'] # None]_vars
  BY OnlyHandoverMovesRoot DEF Handover, KeyValid
<1> QED BY <1>1, PTL DEF Spec, KeyedAuthorityStaysKeyed

-----------------------------------------------------------------------------
(* Vouching *)

(* VouchedFor, of a set C of verifications. *)
IsChain(chain, n, a, C) ==
  /\ n \in 1 .. Cardinality(Accounts)
  /\ chain \in [1 .. n -> Accounts]
  /\ chain[1] = a
  /\ \A i, j \in 1 .. n : i # j => chain[i] # chain[j]
  /\ \A i \in 1 .. n - 1 : <<chain[i], chain[i + 1]>> \in C
  /\ \E anchor \in Anchors : <<chain[n], anchor>> \in C

Vouched(a, C) == \E n, chain : IsChain(chain, n, a, C)

LEMMA VouchedForIsVouched ==
  ASSUME NEW a
  PROVE  VouchedFor(a) <=> Vouched(a, checks)
<1>1. VouchedFor(a) => Vouched(a, checks)
  BY DEF VouchedFor, Vouched, IsChain
<1>2. ASSUME NEW n, NEW chain, IsChain(chain, n, a, checks)
      PROVE  VouchedFor(a)
  BY <1>2 DEF VouchedFor, IsChain
<1> QED
  BY <1>1, <1>2 DEF Vouched

(* Further verifications break no chain. *)
LEMMA VouchedGrows ==
  ASSUME NEW a, NEW C, NEW D, C \subseteq D, Vouched(a, C)
  PROVE  Vouched(a, D)
<1>1. PICK n, chain : IsChain(chain, n, a, C)
  BY DEF Vouched
<1>2. IsChain(chain, n, a, D)
  BY <1>1 DEF IsChain
<1> QED
  BY <1>2 DEF Vouched

(* As many different accounts as a chain has are no more than there are. *)
LEMMA ChainFits ==
  ASSUME NEW n \in Nat, NEW chain \in [1 .. n -> Accounts],
         \A i, j \in 1 .. n : i # j => chain[i] # chain[j]
  PROVE  n <= Cardinality(Accounts)
<1>1. IsFiniteSet(1 .. n) /\ Cardinality(1 .. n) = n
  BY FS_Interval
<1>2. chain \in Injection(1 .. n, Accounts)
  BY DEF Injection, IsInjective
<1>3. Cardinality(1 .. n) <= Cardinality(Accounts)
  BY <1>2, AccountsAssumption, FS_Injection
<1> QED
  BY <1>1, <1>3

(* Who an anchor vouched for is vouched for. *)
LEMMA AnchorVouches ==
  ASSUME NEW a \in Accounts, NEW C, NEW anchor \in Anchors, <<a, anchor>> \in C
  PROVE  Vouched(a, C)
<1> DEFINE chain == [i \in 1 .. 1 |-> a]
<1>1. chain \in [1 .. 1 -> Accounts] /\ chain[1] = a
  OBVIOUS
<1>2. 1 <= Cardinality(Accounts) /\ Cardinality(Accounts) \in Nat
  <2>1. \A i, j \in 1 .. 1 : i # j => chain[i] # chain[j]
    OBVIOUS
  <2> HIDE DEF chain
  <2>2. 1 <= Cardinality(Accounts)
    BY <1>1, <2>1, ChainFits
  <2> QED
    BY <2>2, AccountsAssumption, FS_CardinalityType
<1>3. IsChain(chain, 1, a, C)
  BY <1>1, <1>2 DEF IsChain
<1> QED
  BY <1>3 DEF Vouched

(* Who is vouched for vouches: the chain from the voucher is cut where it  *)
(* already holds the account, or the account is put before it.             *)
LEMMA VoucherVouches ==
  ASSUME NEW a \in Accounts, NEW b \in Accounts, NEW C, <<a, b>> \in C, Vouched(b, C)
  PROVE  Vouched(a, C)
<1>1. PICK n, chain : IsChain(chain, n, b, C)
  BY DEF Vouched
<1>2. n \in Nat /\ n >= 1 /\ n <= Cardinality(Accounts) /\ Cardinality(Accounts) \in Nat
  BY <1>1, AccountsAssumption, FS_CardinalityType DEF IsChain
<1>3. CASE \E k \in 1 .. n : chain[k] = a
  <2>1. PICK k \in 1 .. n : chain[k] = a
    BY <1>3
  <2> DEFINE m == n - k + 1
             rest == [i \in 1 .. m |-> chain[i + k - 1]]
  <2>2. m \in 1 .. Cardinality(Accounts) /\ \A i \in 1 .. m : i + k - 1 \in 1 .. n
    BY <1>2
  <2>3. rest \in [1 .. m -> Accounts] /\ rest[1] = a /\ rest[m] = chain[n]
    BY <1>1, <1>2, <2>1, <2>2 DEF IsChain
  <2>4. \A i, j \in 1 .. m : i # j => rest[i] # rest[j]
    BY <1>1, <2>2 DEF IsChain
  <2>5. \A i \in 1 .. m - 1 : <<rest[i], rest[i + 1]>> \in C
    <3> SUFFICES ASSUME NEW i \in 1 .. m - 1 PROVE <<rest[i], rest[i + 1]>> \in C
      OBVIOUS
    <3>1. i \in 1 .. m /\ i + 1 \in 1 .. m /\ i + k - 1 \in 1 .. n - 1
          /\ (i + 1) + k - 1 = (i + k - 1) + 1
      BY <1>2
    <3>2. rest[i] = chain[i + k - 1] /\ rest[i + 1] = chain[(i + k - 1) + 1]
      BY <3>1
    <3> QED
      BY <1>1, <3>1, <3>2 DEF IsChain
  <2>6. IsChain(rest, m, a, C)
    BY <1>1, <2>2, <2>3, <2>4, <2>5 DEF IsChain
  <2> QED
    BY <2>6 DEF Vouched
<1>4. CASE \A k \in 1 .. n : chain[k] # a
  <2> DEFINE longer == [i \in 1 .. n + 1 |-> IF i = 1 THEN a ELSE chain[i - 1]]
  <2>1. \A i \in 1 .. n + 1 : i # 1 => i - 1 \in 1 .. n
    BY <1>2
  <2>2. longer \in [1 .. n + 1 -> Accounts] /\ longer[1] = a /\ longer[n + 1] = chain[n]
    BY <1>1, <1>2, <2>1 DEF IsChain
  <2>3. \A i, j \in 1 .. n + 1 : i # j => longer[i] # longer[j]
    BY <1>1, <1>2, <1>4, <2>1 DEF IsChain
  <2>4. n + 1 \in 1 .. Cardinality(Accounts)
    <3> HIDE DEF longer
    <3>1. n + 1 <= Cardinality(Accounts)
      BY <1>2, <2>2, <2>3, ChainFits
    <3> QED
      BY <1>2, <3>1
  <2>5. \A i \in 1 .. n : <<longer[i], longer[i + 1]>> \in C
    <3> SUFFICES ASSUME NEW i \in 1 .. n PROVE <<longer[i], longer[i + 1]>> \in C
      OBVIOUS
    <3>1. CASE i = 1
      BY <1>1, <1>2, <3>1, SMTT(30) DEF IsChain
    <3>2. CASE i # 1
      <4>1. i - 1 \in 1 .. n - 1 /\ (i + 1) - 1 = (i - 1) + 1 /\ i + 1 \in 1 .. n + 1
        BY <1>2, <3>2
      <4>2. longer[i] = chain[i - 1] /\ longer[i + 1] = chain[(i - 1) + 1]
        BY <1>2, <3>2, <4>1
      <4> QED
        BY <1>1, <4>1, <4>2 DEF IsChain
    <3> QED
      BY <3>1, <3>2
  <2>6. IsChain(longer, n + 1, a, C)
    <3> HIDE DEF longer
    <3>1. (n + 1) - 1 = n
      BY <1>2
    <3>2. PICK anchor \in Anchors : <<longer[n + 1], anchor>> \in C
      BY <1>1, <2>2 DEF IsChain
    <3> QED
      BY <2>2, <2>3, <2>4, <2>5, <3>1, <3>2 DEF IsChain
  <2> QED
    BY <2>6 DEF Vouched
<1> QED
  BY <1>3, <1>4

(* The accounts vouched for are closed under checks, so the least set that *)
(* is closed has no other.                                                 *)
LEMMA VerifiedAreVouched ==
  ASSUME TypeOK
  PROVE  \A a \in Verified : Vouched(a, checks)
<1> DEFINE W == {a \in Accounts : Vouched(a, checks)}
<1>1. ClosedUnderChecks(W)
  <2> SUFFICES ASSUME NEW c \in checks, c[1] \in Accounts, c[2] \in Anchors \cup W
               PROVE  c[1] \in W
    BY DEF ClosedUnderChecks
  <2>1. <<c[1], c[2]>> \in checks
    BY DEF TypeOK
  <2> QED
    BY <2>1, AnchorVouches, VoucherVouches
<1> QED
  BY <1>1 DEF Verified

-----------------------------------------------------------------------------
LEMMA NextVouched ==
  ASSUME IInv, RootIsVouchedFor, [Next]_vars
  PROVE  RootIsVouchedFor'
<1>1. checks \subseteq checks'
  BY DEF Next, ActBy, CreateAccount, VerifyAccount, DesignateSuccessor, AcceptSuccession,
         RevokeSuccession, Handover, KeyBind, KeyRotate, KeyRevoke, HaltWatcher, ResolveWatcher,
         Brake, vars, accountVars
<1>0. ASSUME Vouched(root', checks') PROVE VouchedFor(root)'
  <2>1. PICK n, chain : IsChain(chain, n, root', checks')
    BY <1>0 DEF Vouched
  <2> QED
    BY <2>1 DEF IsChain, VouchedFor
<1>2. CASE root' = root
  BY <1>0, <1>1, <1>2, VouchedForIsVouched, VouchedGrows DEF RootIsVouchedFor
<1>3. CASE root' # root
  <2>1. PICK a \in Actors : Handover(a)
    BY <1>3, OnlyHandoverMovesRoot
  <2>2. root' = named /\ named \in Verified
    BY <2>1 DEF Handover, CurrentSuccessor
  <2>3. Vouched(root', checks')
    BY <1>1, <2>2, VerifiedAreVouched, VouchedGrows DEF IInv
  <2> QED
    BY <1>0, <2>3 DEF RootIsVouchedFor
<1> QED
  BY <1>2, <1>3

(* Whoever is root was founded so, or a chain of recorded verifications    *)
(* leads from it to an anchor; a standing designation is the root's own,   *)
(* and an acceptance that counts was recorded by the designated one        *)
(* (views._verified_accounts, current_successor).                          *)
THEOREM CeremoniesAreWhole == Spec => []CeremonyIsWhole
<1>1. Init => RootIsVouchedFor
  BY DEF Init, RootIsVouchedFor
<1>2. IInv /\ RootIsVouchedFor => CeremonyIsWhole
  BY DEF IInv, CeremonyIsWhole
<1> QED
  BY <1>1, <1>2, InitIInv, NextIInv, NextVouched, PTL DEF Spec

-----------------------------------------------------------------------------
(* The sweep of a late law.  The invariant says of the record that every    *)
(* overturn names rows before it, that the root of what stands is the root  *)
(* of all, and that a sweep in hand goes up the record and leaves out what  *)
(* the anchor law was asked to leave out.                                   *)
CONSTANTS Kinds, MaxRec, MaxTime, MaxQueue, MaxRefusals, Crashes
VARIABLES rec, now, sweep, queue, crashed
Sweeping == INSTANCE Reconcile WITH Founder <- Owner

(* Some numbers have a least one, and numbers up to a bound a greatest.     *)
LEMMA LeastOf ==
  ASSUME NEW S \in SUBSET Nat, S # {}
  PROVE  \E m \in S : \A k \in S : m <= k
<1> DEFINE R == OpToRel(<, Nat)
<1>1. IsWellFoundedOn(R, Nat) BY NatLessThanWellFounded
<1>2. \A i, j \in Nat : <<i, j>> \in R <=> i < j BY DEF OpToRel
<1> HIDE DEF R
<1>3. PICK m \in S : \A k \in S : ~ <<k, m>> \in R BY <1>1, WFMin
<1>4. m \in Nat /\ \A k \in S : k \in Nat /\ ~ (k < m) BY <1>2, <1>3
<1>5. \A k \in S : m <= k BY <1>4
<1> QED BY <1>5

(* The greatest number of a set is the one the library chooses.             *)
LEMMA GreatestIs ==
  ASSUME NEW S \in SUBSET Nat, NEW m \in S, \A k \in S : k <= m
  PROVE  Sweeping!Max(S) = m
<1>1. \A x \in S : (\A y \in S : x >= y) => x = m OBVIOUS
<1>2. \A y \in S : m >= y OBVIOUS
<1> QED BY <1>1, <1>2 DEF Sweeping!Max

LEMMA GreatestOf ==
  ASSUME NEW n \in Nat, NEW S \in SUBSET (1..n), S # {}
  PROVE  Sweeping!Max(S) \in S /\ \A k \in S : k <= Sweeping!Max(S)
<1> DEFINE T == {k \in 0..n : n - k \in S}
<1>1. PICK x \in S : TRUE OBVIOUS
<1>2. n - x \in T
  <2>1. x \in 1..n /\ n - x \in 0..n /\ n - (n - x) = x OBVIOUS
  <2> QED BY <2>1
<1>3. PICK t \in T : \A k \in T : t <= k
  <2>1. T \subseteq Nat OBVIOUS
  <2>2. T # {} BY <1>2
  <2> HIDE DEF T
  <2> QED BY <2>1, <2>2, LeastOf
<1>4. ASSUME NEW k \in S PROVE k <= n - t
  <2>1. k \in 1..n /\ n - k \in 0..n /\ n - (n - k) = k OBVIOUS
  <2>3. n - k \in T BY <2>1
  <2>2. t <= n - k /\ t \in 0..n /\ k \in 1..n BY <2>1, <2>3, <1>3
  <2> QED BY <2>2
<1>5. n - t \in S /\ S \subseteq Nat BY <1>3
<1> QED BY <1>4, <1>5, GreatestIs

(* The size of a set is the size the library speaks of.                     *)
LEMMA SizeIs == \A S : Sweeping!Cardinality(S) = Cardinality(S)
BY DEF Cardinality, Sweeping!Cardinality

(* Rounds that add to a set are a function, whatever a round adds.          *)
AreRounds(f, st, n) == f = [k \in 0..n |-> IF k = 0 THEN {} ELSE st[f[k-1]]]

LEMMA RoundsAre ==
  ASSUME NEW S, NEW st \in [SUBSET S -> SUBSET S], NEW c \in Nat
  PROVE  \E f \in [0..c -> SUBSET S] : AreRounds(f, st, c)
<1> USE DEF AreRounds
<1> DEFINE Are(n) == \E f \in [0..n -> SUBSET S] : AreRounds(f, st, n)
<1> DEFINE Not == {n \in Nat : ~ Are(n)}
<1> SUFFICES ASSUME Not # {} PROVE FALSE
  <2>1. c \in Nat OBVIOUS
  <2> QED BY <2>1
<1>1. PICK n \in Not : \A k \in Not : n <= k
  <2>1. Not \subseteq Nat OBVIOUS
  <2> HIDE DEF Not
  <2> QED BY <2>1, LeastOf
<1>2. n # 0
  <2>1. Are(0)
    <3> DEFINE g == [k \in 0..0 |-> {}]
    <3>1. g \in [0..0 -> SUBSET S] OBVIOUS
    <3>2. g = [k \in 0..0 |-> IF k = 0 THEN {} ELSE st[g[k-1]]] OBVIOUS
    <3> QED BY <3>1, <3>2
  <2> QED BY <2>1
<1>3. n - 1 \in Nat /\ Are(n-1)
  <2>1. n - 1 \in Nat /\ ~ (n <= n - 1) BY <1>2
  <2> QED BY <2>1, <1>1
<1>4. PICK f \in [0..(n-1) -> SUBSET S] :
        f = [k \in 0..(n-1) |-> IF k = 0 THEN {} ELSE st[f[k-1]]] BY <1>3
<1> DEFINE g == [k \in 0..n |-> IF k = n THEN st[f[n-1]] ELSE f[k]]
<1>5. g \in [0..n -> SUBSET S]
  <2>1. f[n-1] \in SUBSET S BY <1>3
  <2>2. \A k \in 0..n : k # n => k \in 0..(n-1) BY <1>3
  <2> QED BY <2>1, <2>2
<1>6. ASSUME NEW k \in 0..n PROVE g[k] = IF k = 0 THEN {} ELSE st[g[k-1]]
  <2>1. CASE k = n
    <3>1. g[n] = st[f[n-1]] /\ n - 1 \in 0..n /\ g[n-1] = f[n-1] BY <1>3
    <3> QED BY <2>1, <3>1, <1>2
  <2>2. CASE k # n
    <3>1. k \in 0..(n-1) /\ g[k] = f[k] BY <2>2, <1>3
    <3>2. k # 0 => k - 1 \in 0..(n-1) /\ k - 1 # n /\ g[k-1] = f[k-1] BY <3>1, <1>3
    <3> QED BY <3>1, <3>2, <1>4
  <2> QED BY <2>1, <2>2
<1>7. g = [k \in 0..n |-> IF k = 0 THEN {} ELSE st[g[k-1]]] BY <1>6
<1> HIDE DEF g
<1>8. Are(n) BY <1>5, <1>7
<1> QED BY <1>8

(* A law's candidates are finitely many acts recorded before it.            *)
LEMMA CandidatesArePast ==
  ASSUME NEW rc, NEW law \in Nat
  PROVE  /\ Sweeping!Candidates(rc, law) \subseteq 1..(law-1)
         /\ Sweeping!Cardinality(Sweeping!Candidates(rc, law)) \in Nat
<1>1. Sweeping!Candidates(rc, law) \subseteq 1..(law-1) BY DEF Sweeping!Candidates
<1>2. IsFiniteSet(1..(law-1)) BY FS_Interval
<1>3. IsFiniteSet(Sweeping!Candidates(rc, law)) BY <1>1, <1>2, FS_Subset
<1> QED BY <1>1, <1>3, SizeIs, FS_CardinalityType

(* The rounds of a sweep: sets of candidates, each the one before with what *)
(* falls when that is gone.                                                 *)
Down(rc, law, head, fallen) ==
  {x \in Sweeping!Candidates(rc, law) :
     Sweeping!Falls(rc, x, Sweeping!OverturnedTargets(rc) \cup fallen, head)}

InRounds(rc, law, head, out, c) ==
  /\ c \in Nat /\ c = Sweeping!Cardinality(Sweeping!Candidates(rc, law))
  /\ out \in [0..c -> SUBSET Sweeping!Candidates(rc, law)]
  /\ out[0] = {}
  /\ \A k \in 1..c : out[k] = out[k-1] \cup Down(rc, law, head, out[k-1])

LEMMA TheRounds ==
  ASSUME NEW rc, NEW law \in Nat, NEW head
  PROVE  \E c : /\ InRounds(rc, law, head, Sweeping!Rounds(rc, law, head), c)
                /\ Sweeping!Computed(rc, law, head) = Sweeping!Rounds(rc, law, head)[c]
<1> DEFINE cands == Sweeping!Candidates(rc, law)
           c == Sweeping!Cardinality(cands)
           Add(F) == {x \in cands : Sweeping!Falls(rc, x, Sweeping!OverturnedTargets(rc) \cup F, head)}
           st == [F \in SUBSET cands |-> F \cup Add(F)]
           Eq(out) == out = [k \in 0..c |-> IF k = 0 THEN {} ELSE out[k-1] \cup Add(out[k-1])]
           rounds == Sweeping!Rounds(rc, law, head)
<1>1. c \in Nat /\ cands \subseteq 1..(law-1) BY CandidatesArePast
<1>2. rounds = CHOOSE out : Eq(out) BY DEF Sweeping!Rounds
<1>3. \E out : Eq(out)
  <2>1. st \in [SUBSET cands -> SUBSET cands] OBVIOUS
  <2> HIDE DEF c
  <2>2. \E f \in [0..c -> SUBSET cands] : AreRounds(f, st, c)
    <3> HIDE DEF st, cands, Add, Eq, rounds
    <3> QED BY <1>1, <2>1, RoundsAre
  <2>3. PICK f \in [0..c -> SUBSET cands] : f = [k \in 0..c |-> IF k = 0 THEN {} ELSE st[f[k-1]]]
    BY <2>2 DEF AreRounds
  <2>4. ASSUME NEW k \in 0..c, k # 0 PROVE st[f[k-1]] = f[k-1] \cup Add(f[k-1])
    <3>1. k - 1 \in 0..c BY <2>4, <1>1
    <3>2. f[k-1] \in SUBSET cands BY <3>1
    <3> HIDE DEF Add, cands
    <3> QED BY <3>2
  <2>5. Eq(f)
    <3> HIDE DEF Add, st, cands
    <3> QED BY <2>3, <2>4
  <2> QED BY <2>5
<1>4. Eq(rounds)
  <2> HIDE DEF Eq
  <2> QED BY <1>2, <1>3
<1>5. /\ rounds[0] = {} /\ DOMAIN rounds = 0..c
      /\ \A k \in 0..c : k # 0 => rounds[k] = rounds[k-1] \cup Add(rounds[k-1])
  <2> HIDE DEF Add, cands, c, rounds
  <2>1. rounds = [k \in 0..c |-> IF k = 0 THEN {} ELSE rounds[k-1] \cup Add(rounds[k-1])] BY <1>4
  <2>2. DOMAIN rounds = 0..c BY <2>1
  <2>3. \A k \in 0..c : rounds[k] = IF k = 0 THEN {} ELSE rounds[k-1] \cup Add(rounds[k-1]) BY <2>1
  <2>4. 0 \in 0..c BY <1>1
  <2> HIDE DEF Eq
  <2> QED BY <2>2, <2>3, <2>4
<1> DEFINE Out == {k \in 0..c : ~ rounds[k] \subseteq cands}
<1>6. Out = {}
  <2> SUFFICES ASSUME Out # {} PROVE FALSE OBVIOUS
  <2> HIDE DEF c, rounds
  <2>1. PICK k \in Out : \A j \in Out : k <= j
    <3>1. Out \subseteq Nat BY <1>1
    <3> HIDE DEF Out
    <3> QED BY <3>1, LeastOf
  <2>2. k # 0 BY <1>5
  <2>3. k - 1 \in 0..c /\ ~ (k <= k - 1) BY <2>2, <1>1
  <2>4. rounds[k-1] \subseteq cands BY <2>1, <2>3
  <2>5. rounds[k] = rounds[k-1] \cup Add(rounds[k-1])
    <3> HIDE DEF Add, cands
    <3> QED BY <1>5, <2>2
  <2> QED BY <2>4, <2>5
<1>7. rounds \in [0..c -> SUBSET cands]
  <2> HIDE DEF c, cands
  <2>1. \A k \in 0..c : rounds[k] \in SUBSET cands BY <1>6
  <2>2. rounds = [k \in 0..c |-> rounds[k]]
    <3> HIDE DEF rounds, Add
    <3> QED BY <1>4
  <2> HIDE DEF rounds
  <2> QED BY <2>1, <2>2
<1>8. \A k \in 1..c : rounds[k] = rounds[k-1] \cup Down(rc, law, head, rounds[k-1])
  <2>1. \A F : Add(F) = Down(rc, law, head, F) BY DEF Down
  <2> HIDE DEF Add, rounds, c
  <2> QED BY <1>5, <2>1, <1>1
<1>9. InRounds(rc, law, head, rounds, c)
  <2> HIDE DEF rounds
  <2> QED BY <1>1, <1>5, <1>7, <1>8 DEF InRounds
<1>10. Sweeping!Computed(rc, law, head) = rounds[c] BY DEF Sweeping!Computed
<1> QED BY <1>9, <1>10

(* A sweep reaches only its candidates, which were recorded before its law. *)
LEMMA FallenArePast ==
  ASSUME NEW rc, NEW law \in Nat, NEW head
  PROVE  /\ Sweeping!Computed(rc, law, head) \subseteq Sweeping!Candidates(rc, law)
         /\ Sweeping!Computed(rc, law, head) \subseteq 1..(law-1)
<1>1. PICK c : /\ InRounds(rc, law, head, Sweeping!Rounds(rc, law, head), c)
               /\ Sweeping!Computed(rc, law, head) = Sweeping!Rounds(rc, law, head)[c]
  BY TheRounds
<1>2. Sweeping!Computed(rc, law, head) \subseteq Sweeping!Candidates(rc, law)
  <2>1. c \in 0..c BY <1>1 DEF InRounds
  <2> QED BY <1>1, <2>1 DEF InRounds
<1> QED BY <1>2, CandidatesArePast

-----------------------------------------------------------------------------
Handovers(rc, W) == {s \in W : rc[s].kind = "handover"}

(* The root and the rootless grants of a world are those of its handovers   *)
(* and of its live grants.                                                  *)
EndOf(rc, handovers) == IF handovers = {} THEN Owner ELSE rc[Sweeping!Max(handovers)].of

LEMMA ChainEndIs ==
  ASSUME NEW rc, NEW W
  PROVE  Sweeping!ChainEnd(rc, W) = EndOf(rc, Handovers(rc, W))
BY DEF Sweeping!ChainEnd, Handovers, EndOf

LEMMA SameEnd ==
  ASSUME NEW rc, NEW new, NEW n \in Nat, NEW h \in SUBSET (1..n), \A s \in h : rc[s] = new[s]
  PROVE  EndOf(rc, h) = EndOf(new, h)
<1>1. h # {} => Sweeping!Max(h) \in h BY GreatestOf
<1> QED BY <1>1 DEF EndOf

Unrooted(rc, live, end) ==
  {g \in live : \E set \in SUBSET live :
     Sweeping!ClosedUnderMaking(rc, live, {Owner, Sweeping!System, end}, set) /\ g \notin set}

LEMMA RootlessIs ==
  ASSUME NEW rc, NEW W
  PROVE  Sweeping!Rootless(rc, W) = Unrooted(rc, Sweeping!GrantsIn(rc, W), Sweeping!ChainEnd(rc, W))
BY DEF Sweeping!Rootless, Unrooted

(* Rows that agree root the same grants.                                    *)
LEMMA SameGrants ==
  ASSUME NEW rc, NEW new, NEW live, NEW end, \A s \in live : rc[s] = new[s]
  PROVE  Unrooted(rc, live, end) = Unrooted(new, live, end)
<1>1. ASSUME NEW set \in SUBSET live, NEW ground
      PROVE  Sweeping!ClosedUnderMaking(rc, live, ground, set)
               <=> Sweeping!ClosedUnderMaking(new, live, ground, set)
  <2>1. {rc[h].of : h \in set} = {new[h].of : h \in set} BY <1>1
  <2> QED BY <2>1 DEF Sweeping!ClosedUnderMaking
<1> QED BY <1>1 DEF Unrooted

(* With fewer grants to stand on, a grant that had no root has none.        *)
LEMMA FewerAreRooted ==
  ASSUME NEW rc, NEW live, NEW end, NEW less \in SUBSET live, NEW g \in less,
         g \in Unrooted(rc, live, end)
  PROVE  g \in Unrooted(rc, less, end)
<1> DEFINE ground == {Owner, Sweeping!System, end}
<1>1. PICK set \in SUBSET live : Sweeping!ClosedUnderMaking(rc, live, ground, set) /\ g \notin set
  BY DEF Unrooted
<1>2. Sweeping!ClosedUnderMaking(rc, less, ground, set \cap less)
  BY <1>1 DEF Sweeping!ClosedUnderMaking
<1>3. set \cap less \in SUBSET less /\ g \notin set \cap less BY <1>1
<1> HIDE DEF ground
<1>4. \E s \in SUBSET less : Sweeping!ClosedUnderMaking(rc, less, ground, s) /\ g \notin s
  BY <1>2, <1>3
<1> QED BY <1>4 DEF Unrooted, ground

(* Worlds whose records agree show the same.                                *)
LEMMA SameWorld ==
  ASSUME NEW rc, NEW new, NEW n \in Nat, NEW W \in SUBSET (1..n), \A s \in W : rc[s] = new[s]
  PROVE  /\ Sweeping!OverturnedIn(rc, W) = Sweeping!OverturnedIn(new, W)
         /\ Sweeping!ChainEnd(rc, W) = Sweeping!ChainEnd(new, W)
         /\ Sweeping!GrantsIn(rc, W) = Sweeping!GrantsIn(new, W)
         /\ Sweeping!Rootless(rc, W) = Sweeping!Rootless(new, W)
<1>1. Sweeping!OverturnedIn(rc, W) = Sweeping!OverturnedIn(new, W)
  <2>1. {s \in W : rc[s].kind = "overturn"} = {s \in W : new[s].kind = "overturn"} OBVIOUS
  <2>2. \A s \in {k \in W : rc[k].kind = "overturn"} : rc[s].of = new[s].of OBVIOUS
  <2> QED BY <2>1, <2>2 DEF Sweeping!OverturnedIn
<1>2. Sweeping!ChainEnd(rc, W) = Sweeping!ChainEnd(new, W)
  <2>1. Handovers(rc, W) = Handovers(new, W) BY DEF Handovers
  <2>2. PICK h \in SUBSET (1..n) : h = Handovers(rc, W) BY DEF Handovers
  <2>3. \A s \in h : rc[s] = new[s] BY <2>2 DEF Handovers
  <2>4. EndOf(rc, h) = EndOf(new, h) BY <2>3, SameEnd
  <2> QED BY <2>1, <2>2, <2>4, ChainEndIs
<1>3. Sweeping!GrantsIn(rc, W) = Sweeping!GrantsIn(new, W)
  BY <1>1 DEF Sweeping!GrantsIn, Sweeping!Live
<1>4. \A s \in Sweeping!GrantsIn(rc, W) : rc[s] = new[s]
  BY DEF Sweeping!GrantsIn, Sweeping!Live
<1> QED BY <1>1, <1>2, <1>3, <1>4, RootlessIs, SameGrants

-----------------------------------------------------------------------------
(* What a sweep finds: the law's number and the acts that fall, none of     *)
(* which moves the root or takes a grant's root away.                       *)
Overturns(rc) == {k \in 1..Len(rc) : rc[k].kind = "overturn"}

Reached(rc, n) == Sweeping!OverturnedIn(rc, 1..n)

Unmoved(rc, n, fallen) ==
  /\ Sweeping!ChainEnd(rc, (1..n) \ (fallen \cup Reached(rc, n))) = Sweeping!ChainEnd(rc, 1..n)
  /\ Sweeping!Rootless(rc, (1..n) \ (fallen \cup Reached(rc, n))) \subseteq Sweeping!Rootless(rc, 1..n)

(* A sweep half recorded: what landed is before what is still to land.      *)
InHand(rc, sw, n, fallen) ==
  /\ Unmoved(rc, n, fallen)
  /\ \A o \in sw : o.law = n /\ o.sweep = fallen /\ o.of \in fallen
  /\ \A o, p \in sw : o.of = p.of => o = p
  /\ \A k \in (n+1)..Len(rc) :
       /\ k \in Overturns(rc) /\ rc[k].law = n /\ rc[k].sweep = fallen /\ rc[k].of \in fallen
       /\ \A o \in sw : rc[k].of < o.of
  /\ \A x \in fallen : (\E k \in (n+1)..Len(rc) : rc[k].of = x) \/ (\E o \in sw : o.of = x)

OfThePast(rc) == \A k \in Overturns(rc) : rc[k].of \in 1..(k-1) /\ rc[k].law \in 1..(k-1)

Stands(rc) ==
  Sweeping!ChainEnd(rc, (1..Len(rc)) \ Reached(rc, Len(rc))) = Sweeping!ChainEnd(rc, 1..Len(rc))

Landing(rc, sw) ==
  \A k \in Overturns(rc) : rc[k].sweep \subseteq Reached(rc, Len(rc)) \cup {o.of : o \in sw}

IsOver(rc, sw, k) ==
  /\ \A j \in Overturns(rc) : rc[j].law = rc[k].law => j <= k
  /\ \A o \in sw : o.law # rc[k].law

Unorphaned(rc, sw) ==
  \A k \in Overturns(rc) :
    IsOver(rc, sw, k) => Sweeping!Rootless(rc, 1..k) \subseteq Sweeping!Rootless(rc, 1..rc[k].law)

IsRecord(rc) == \E S : rc \in Seq(S)

Swept(rc, sw, cut) ==
  /\ IsRecord(rc)
  /\ OfThePast(rc)
  /\ Stands(rc)
  /\ ~ cut => Landing(rc, sw) /\ Unorphaned(rc, sw)
  /\ sw # {} => \E n \in 1..Len(rc) : \E fallen \in SUBSET (1..(n-1)) : InHand(rc, sw, n, fallen)

(* A record grows by one row and keeps the others.                          *)
LEMMA RowAppended ==
  ASSUME NEW rc, IsRecord(rc), NEW row
  PROVE  /\ IsRecord(Append(rc, row))
         /\ Len(rc) \in Nat /\ Len(Append(rc, row)) = Len(rc) + 1
         /\ \A k \in 1..Len(rc) : Append(rc, row)[k] = rc[k]
         /\ Append(rc, row)[Len(rc) + 1] = row
<1>1. PICK S : rc \in Seq(S) BY DEF IsRecord
<1>2. rc \in Seq(S \cup {row}) /\ row \in S \cup {row} BY <1>1
<1>3. Append(rc, row) \in Seq(S \cup {row}) BY <1>2
<1> QED BY <1>2, <1>3 DEF IsRecord

LEMMA TargetsAreOverturned ==
  ASSUME NEW rc
  PROVE  Reached(rc, Len(rc)) = Sweeping!OverturnedTargets(rc)
BY DEF Reached, Sweeping!OverturnedIn, Sweeping!OverturnedTargets

(* Records and their prefixes keep their meaning when one is appended.      *)
LEMMA PrefixKeeps ==
  ASSUME NEW rc, NEW new, NEW n \in Nat, \A s \in 1..n : rc[s] = new[s], NEW m \in 0..n
  PROVE  /\ Reached(new, m) = Reached(rc, m)
         /\ Sweeping!Rootless(new, 1..m) = Sweeping!Rootless(rc, 1..m)
         /\ Sweeping!ChainEnd(new, 1..m) = Sweeping!ChainEnd(rc, 1..m)
         /\ \A fallen : Unmoved(rc, m, fallen) => Unmoved(new, m, fallen)
<1>1. \A W \in SUBSET (1..m) : /\ W \in SUBSET (1..n)
                               /\ \A s \in W : rc[s] = new[s]
  OBVIOUS
<1>2. \A W \in SUBSET (1..m) : /\ Sweeping!OverturnedIn(rc, W) = Sweeping!OverturnedIn(new, W)
                               /\ Sweeping!ChainEnd(rc, W) = Sweeping!ChainEnd(new, W)
                               /\ Sweeping!Rootless(rc, W) = Sweeping!Rootless(new, W)
  BY <1>1, SameWorld
<1>3. 1..m \in SUBSET (1..m) /\ \A fallen, gone : (1..m) \ (fallen \cup gone) \in SUBSET (1..m)
  OBVIOUS
<1>4. Reached(new, m) = Reached(rc, m) BY <1>2, <1>3 DEF Reached
<1>5. ASSUME NEW fallen, Unmoved(rc, m, fallen) PROVE Unmoved(new, m, fallen)
  <2> DEFINE W == (1..m) \ (fallen \cup Reached(rc, m))
  <2>1. W \in SUBSET (1..m) BY <1>3
  <2>2. /\ Sweeping!ChainEnd(rc, W) = Sweeping!ChainEnd(new, W)
        /\ Sweeping!Rootless(rc, W) = Sweeping!Rootless(new, W)
    BY <2>1, <1>2
  <2> QED BY <1>2, <1>3, <1>4, <1>5, <2>2 DEF Unmoved
<1> QED BY <1>2, <1>3, <1>4, <1>5

(* A record that is no overturn leaves standing what stood.                 *)
LEMMA StaysStanding ==
  ASSUME NEW rc, IsRecord(rc), OfThePast(rc), Stands(rc),
         NEW row, row.kind # "overturn", NEW new, new = Append(rc, row)
  PROVE  /\ Overturns(new) = Overturns(rc)
         /\ Reached(new, Len(new)) = Reached(rc, Len(rc))
         /\ OfThePast(new)
         /\ Stands(new)
<1>1. PICK n \in Nat : n = Len(rc) BY RowAppended
<1>2. /\ Len(new) = n + 1
      /\ \A k \in 1..n : new[k] = rc[k]
      /\ new[n+1] = row
  BY <1>1, RowAppended
<1>3. 1..(n+1) = (1..n) \cup {n+1} BY <1>1
<1>4. Overturns(new) = Overturns(rc) BY <1>1, <1>2, <1>3 DEF Overturns
<1>5. Reached(rc, n) = {rc[k].of : k \in Overturns(rc)}
  BY <1>1 DEF Reached, Sweeping!OverturnedIn, Overturns
<1>6. Reached(new, Len(new)) = {new[k].of : k \in Overturns(new)}
  BY DEF Reached, Sweeping!OverturnedIn, Overturns
<1>7. \A k \in Overturns(rc) : new[k] = rc[k] /\ k \in 1..n BY <1>1, <1>2 DEF Overturns
<1>8. Reached(new, Len(new)) = Reached(rc, n)
  <2>1. \A k \in Overturns(rc) : new[k].of = rc[k].of BY <1>7
  <2>2. {new[k].of : k \in Overturns(rc)} = {rc[k].of : k \in Overturns(rc)} BY <2>1
  <2> QED BY <2>2, <1>4, <1>5, <1>6
<1>9. OfThePast(new) BY <1>4, <1>7 DEF OfThePast
<1>10. Stands(new)
  <2> DEFINE gone  == Reached(rc, n)
             stood == (1..n) \ gone
             whole == 1..(n+1)
             stand == whole \ gone
  <2>1. Sweeping!ChainEnd(rc, stood) = Sweeping!ChainEnd(rc, 1..n) BY <1>1 DEF Stands
  <2>2. n + 1 \notin gone
    <3>1. \A k \in Overturns(rc) : rc[k].of # n + 1
      <4>1. \A k \in Overturns(rc) : rc[k].of \in 1..(k-1) /\ k \in 1..n BY <1>7 DEF OfThePast
      <4> QED BY <4>1
    <3> QED BY <3>1, <1>5
  <2>3. CASE row.kind = "handover"
    <3>1. n + 1 \in Handovers(new, stand) /\ n + 1 \in Handovers(new, whole)
      BY <2>2, <2>3, <1>2, <1>3 DEF Handovers
    <3>2. /\ Handovers(new, stand) \in SUBSET Nat /\ Handovers(new, whole) \in SUBSET Nat
          /\ \A k \in Handovers(new, stand) : k <= n + 1
          /\ \A k \in Handovers(new, whole) : k <= n + 1
      BY DEF Handovers
    <3>3. Sweeping!Max(Handovers(new, stand)) = n + 1 BY <3>1, <3>2, GreatestIs
    <3>4. Sweeping!Max(Handovers(new, whole)) = n + 1 BY <3>1, <3>2, GreatestIs
    <3>5. Sweeping!ChainEnd(new, stand) = row.of
      BY <3>1, <3>3, <1>2 DEF Sweeping!ChainEnd, Handovers
    <3>6. Sweeping!ChainEnd(new, whole) = row.of
      BY <3>1, <3>4, <1>2 DEF Sweeping!ChainEnd, Handovers
    <3> QED BY <3>5, <3>6, <1>2, <1>8 DEF Stands
  <2>4. CASE row.kind # "handover"
    <3>1. Handovers(rc, stood) = Handovers(new, stand) BY <1>2, <1>3, <2>4 DEF Handovers
    <3>2. Handovers(rc, 1..n) = Handovers(new, whole) BY <1>2, <1>3, <2>4 DEF Handovers
    <3>3. PICK h \in SUBSET (1..n) : h = Handovers(rc, 1..n) BY DEF Handovers
    <3>4. PICK i \in SUBSET (1..n) : i = Handovers(rc, stood) BY DEF Handovers
    <3>5. EndOf(rc, h) = EndOf(new, h) /\ EndOf(rc, i) = EndOf(new, i) BY <1>2, SameEnd
    <3> HIDE DEF stand, whole, stood
    <3>8. Sweeping!ChainEnd(new, stand) = Sweeping!ChainEnd(new, whole)
      BY <3>1, <3>2, <3>3, <3>4, <3>5, <2>1, ChainEndIs
    <3> QED BY <3>8, <1>2, <1>8 DEF Stands, stand, whole
  <2> QED BY <2>3, <2>4
<1> QED BY <1>1, <1>2, <1>4, <1>8, <1>9, <1>10

(* A law that lands plans its sweep, and any other record none.             *)
LEMMA RowLands ==
  ASSUME NEW rc, NEW cut, Swept(rc, {}, cut), NEW row, row.kind # "overturn",
         NEW new, new = Append(rc, row), NEW sw, sw \in {{}, Sweeping!SweepOf(new)}
  PROVE  Swept(new, sw, cut)
<1>1. PICK n \in Nat : n = Len(rc) BY RowAppended DEF Swept
<1>2. /\ IsRecord(new) /\ Len(new) = n + 1
      /\ \A k \in 1..n : rc[k] = new[k]
  BY <1>1, RowAppended DEF Swept
<1>3. /\ Overturns(new) = Overturns(rc)
      /\ Reached(new, Len(new)) = Reached(rc, Len(rc))
      /\ OfThePast(new) /\ Stands(new)
  BY StaysStanding DEF Swept
<1>4. ASSUME NEW k \in Overturns(rc)
      PROVE  k \in 0..n /\ k \in 1..n /\ rc[k] = new[k] /\ rc[k].law \in 0..n /\ rc[k].law \in Nat
  <2>1. k \in 1..n /\ rc[k].law \in 1..(k-1) BY <1>1 DEF Overturns, Swept, OfThePast
  <2> QED BY <1>2, <2>1
<1>5. ASSUME ~ cut PROVE Landing(new, sw)
  <2>1. \A k \in Overturns(rc) : rc[k].sweep \subseteq Reached(rc, Len(rc))
    BY <1>5 DEF Swept, Landing
  <2> QED BY <2>1, <1>3, <1>4 DEF Landing
<1>6. ASSUME ~ cut PROVE Unorphaned(new, sw)
  <2> SUFFICES ASSUME NEW k \in Overturns(new), IsOver(new, sw, k)
               PROVE  Sweeping!Rootless(new, 1..k) \subseteq Sweeping!Rootless(new, 1..new[k].law)
    BY DEF Unorphaned
  <2>1. k \in Overturns(rc) BY <1>3
  <2>2. IsOver(rc, {}, k) BY <2>1, <1>3, <1>4 DEF IsOver
  <2>3. Sweeping!Rootless(rc, 1..k) \subseteq Sweeping!Rootless(rc, 1..rc[k].law)
    BY <1>6, <2>1, <2>2 DEF Swept, Unorphaned
  <2>4. \A m \in 0..n : Sweeping!Rootless(new, 1..m) = Sweeping!Rootless(rc, 1..m)
    BY <1>2, PrefixKeeps, ZenonT(60)
  <2> QED BY <2>1, <2>3, <2>4, <1>4
<1>7. ASSUME sw # {}
      PROVE  \E m \in 1..Len(new) : \E fallen \in SUBSET (1..(m-1)) : InHand(new, sw, m, fallen)
  <2>1. PICK m \in Nat : m = n + 1 BY <1>1
  <2> DEFINE fallen == Sweeping!Computed(new, m, Len(new))
  <2>3. fallen \in SUBSET (1..(m-1)) BY FallenArePast
  <2>4. sw = Sweeping!Planned(new, m) /\ Len(new) = m
    BY <1>2, <1>7, <2>1 DEF Sweeping!SweepOf
  <2> DEFINE Plan(x) == [of |-> x, sweep |-> fallen, law |-> m, reach |-> Sweeping!Reaching(new, m, x)]
  <2>5. /\ Sweeping!AnchorHolds(new, fallen \cup Sweeping!OverturnedTargets(new))
        /\ sw = {Plan(x) : x \in fallen}
    <3> DEFINE kept == Sweeping!AnchorHolds(new, fallen \cup Sweeping!OverturnedTargets(new))
    <3>1. Sweeping!Planned(new, m) = IF kept THEN {Plan(x) : x \in fallen} ELSE {}
      BY DEF Sweeping!Planned
    <3> HIDE DEF fallen, Plan, kept
    <3>2. kept /\ sw = {Plan(x) : x \in fallen} BY <3>1, <2>4, <1>7
    <3> QED BY <3>2 DEF kept
  <2> HIDE DEF fallen
  <2>6. Unmoved(new, m, fallen)
    <3>1. Reached(new, m) = Sweeping!OverturnedTargets(new) BY <2>4, TargetsAreOverturned
    <3> QED BY <2>4, <2>5, <3>1 DEF Unmoved, Sweeping!AnchorHolds
  <2>7. /\ \A o \in sw : o.law = m /\ o.sweep = fallen /\ o.of \in fallen
        /\ \A o, p \in sw : o.of = p.of => o = p
        /\ \A x \in fallen : \E o \in sw : o.of = x
    <3>1. \A x : Plan(x).of = x /\ Plan(x).sweep = fallen /\ Plan(x).law = m OBVIOUS
    <3> HIDE DEF Plan
    <3>2. \A o \in sw : \E x \in fallen : o = Plan(x) BY <2>5
    <3>3. \A x \in fallen : Plan(x) \in sw BY <2>5
    <3> QED BY <3>1, <3>2, <3>3
  <2>8. (m+1)..Len(new) = {} /\ m \in 1..Len(new) BY <2>1, <2>4
  <2>9. InHand(new, sw, m, fallen) BY <2>6, <2>7, <2>8 DEF InHand
  <2> QED BY <2>3, <2>8, <2>9
<1> QED BY <1>2, <1>3, <1>5, <1>6, <1>7 DEF Swept

-----------------------------------------------------------------------------
(* What is overturned is what the overturns name.                           *)
LEMMA TargetsAre ==
  ASSUME NEW rc
  PROVE  Reached(rc, Len(rc)) = {rc[k].of : k \in Overturns(rc)}
BY DEF Reached, Sweeping!OverturnedIn, Overturns

LEMMA TargetsBefore ==
  ASSUME NEW rc, NEW n \in 1..Len(rc), Len(rc) \in Nat
  PROVE  \A x : x \in Reached(rc, n) <=> \E k \in Overturns(rc) : k <= n /\ x = rc[k].of
<1>1. {k \in 1..n : rc[k].kind = "overturn"} = {k \in Overturns(rc) : k <= n} BY DEF Overturns
<1>2. Reached(rc, n) = {rc[k].of : k \in {j \in 1..n : rc[j].kind = "overturn"}}
  BY DEF Reached, Sweeping!OverturnedIn
<1> QED BY <1>1, <1>2

(* The grants of a world that leaves out what is overturned in it.          *)
LEMMA GrantsThatStand ==
  ASSUME NEW rc, NEW W, NEW gone, Sweeping!OverturnedIn(rc, W) \subseteq gone
  PROVE  Sweeping!GrantsIn(rc, W \ gone) = {s \in W \ gone : rc[s].kind = "grant"}
<1>1. Sweeping!OverturnedIn(rc, W \ gone) \subseteq gone BY DEF Sweeping!OverturnedIn
<1> QED BY <1>1 DEF Sweeping!GrantsIn, Sweeping!Live

LEMMA GrantsOfAll ==
  ASSUME NEW rc, NEW n
  PROVE  Sweeping!GrantsIn(rc, 1..n) = {s \in (1..n) \ Reached(rc, n) : rc[s].kind = "grant"}
BY DEF Sweeping!GrantsIn, Sweeping!Live, Reached

IsLanding(rc, sw, n, fallen) ==
  /\ IsRecord(rc) /\ OfThePast(rc)
  /\ n \in 1..Len(rc) /\ fallen \in SUBSET (1..(n-1))
  /\ InHand(rc, sw, n, fallen)

(* While a sweep lands nothing is recorded but its overturns, so what is     *)
(* gone or still to go is what the anchor guard was asked about.            *)
LEMMA WhatIsGone ==
  ASSUME NEW rc, NEW sw, NEW n, NEW fallen, IsLanding(rc, sw, n, fallen)
  PROVE  /\ fallen \cup Reached(rc, Len(rc)) = fallen \cup Reached(rc, n)
         /\ Reached(rc, n) \subseteq Reached(rc, Len(rc))
         /\ fallen \cup Reached(rc, n) \subseteq 1..n
         /\ \A x \in fallen : x \in Reached(rc, Len(rc)) \/ \E o \in sw : o.of = x
         /\ \A k \in 1..Len(rc) : k \in 1..n \/ rc[k].kind = "overturn"
<1>0. /\ IsRecord(rc) /\ OfThePast(rc)
      /\ n \in 1..Len(rc) /\ fallen \in SUBSET (1..(n-1))
      /\ InHand(rc, sw, n, fallen)
  BY DEF IsLanding
<1>1. Len(rc) \in Nat /\ n \in Nat BY <1>0, RowAppended
<1>2. \A k \in Overturns(rc) : k \in 1..Len(rc) BY DEF Overturns
<1>3. \A k \in Overturns(rc) : ~ (k <= n) => rc[k].of \in fallen
  <2>1. \A k \in (n+1)..Len(rc) : rc[k].of \in fallen BY <1>0 DEF InHand
  <2>2. \A k \in Overturns(rc) : ~ (k <= n) => k \in (n+1)..Len(rc) BY <1>1, <1>2
  <2> QED BY <2>1, <2>2
<1>4. \A x : x \in Reached(rc, Len(rc)) <=> \E k \in Overturns(rc) : x = rc[k].of BY TargetsAre
<1>5. \A x : x \in Reached(rc, n) <=> \E k \in Overturns(rc) : k <= n /\ x = rc[k].of
  BY <1>0, <1>1, TargetsBefore
<1>6. Reached(rc, n) \subseteq Reached(rc, Len(rc)) BY <1>4, <1>5
<1>7. Reached(rc, Len(rc)) \subseteq fallen \cup Reached(rc, n) BY <1>3, <1>4, <1>5
<1>8. Reached(rc, n) \subseteq 1..n
  <2>1. \A k \in Overturns(rc) : k <= n => rc[k].of \in 1..n BY <1>0, <1>1, <1>2 DEF OfThePast
  <2> QED BY <2>1, <1>5
<1>9. \A k \in 1..Len(rc) : k \in 1..n \/ k \in Overturns(rc)
  <2>1. \A k \in 1..Len(rc) : k \in 1..n \/ k \in (n+1)..Len(rc) BY <1>1
  <2> QED BY <1>0, <2>1 DEF InHand
<1>10. ASSUME NEW x \in fallen PROVE x \in Reached(rc, Len(rc)) \/ \E o \in sw : o.of = x
  <2>1. (\E k \in (n+1)..Len(rc) : rc[k].of = x) \/ (\E o \in sw : o.of = x) BY <1>0 DEF InHand
  <2>2. \A k \in (n+1)..Len(rc) : k \in Overturns(rc) BY <1>0 DEF InHand
  <2> QED BY <2>1, <2>2, <1>4
<1>11. \A k \in Overturns(rc) : rc[k].kind = "overturn" BY DEF Overturns
<1>12. fallen \subseteq 1..n BY <1>0, <1>1
<1> QED BY <1>6, <1>7, <1>8, <1>9, <1>10, <1>11, <1>12

(* The worlds a sweep compares, while it lands and before.                  *)
StandsAlike(rc, n, gone) ==
  /\ Handovers(rc, (1..Len(rc)) \ gone) = Handovers(rc, (1..n) \ gone)
  /\ Handovers(rc, 1..Len(rc)) = Handovers(rc, 1..n)
  /\ Sweeping!GrantsIn(rc, (1..Len(rc)) \ gone) = Sweeping!GrantsIn(rc, (1..n) \ gone)
  /\ Sweeping!GrantsIn(rc, (1..n) \ gone) \subseteq Sweeping!GrantsIn(rc, 1..Len(rc))
  /\ Sweeping!GrantsIn(rc, 1..Len(rc)) \subseteq Sweeping!GrantsIn(rc, 1..n)

LEMMA WhatStands ==
  ASSUME NEW rc, NEW sw, NEW n, NEW fallen, IsLanding(rc, sw, n, fallen),
         NEW gone, gone = fallen \cup Reached(rc, n)
  PROVE  StandsAlike(rc, n, gone)
<1>1. /\ gone = fallen \cup Reached(rc, Len(rc))
      /\ Reached(rc, n) \subseteq Reached(rc, Len(rc))
      /\ \A k \in 1..Len(rc) : k \in 1..n \/ rc[k].kind = "overturn"
  BY WhatIsGone
<1>2. 1..n \subseteq 1..Len(rc)
  <2>1. Len(rc) \in Nat /\ n \in 1..Len(rc) BY RowAppended DEF IsLanding
  <2> QED BY <2>1
<1>3. Handovers(rc, (1..Len(rc)) \ gone) = Handovers(rc, (1..n) \ gone) BY <1>1, <1>2 DEF Handovers
<1>4. Handovers(rc, 1..Len(rc)) = Handovers(rc, 1..n) BY <1>1, <1>2 DEF Handovers
<1>5. Sweeping!GrantsIn(rc, (1..Len(rc)) \ gone) = {s \in (1..Len(rc)) \ gone : rc[s].kind = "grant"}
  <2>1. Sweeping!OverturnedIn(rc, 1..Len(rc)) \subseteq gone BY <1>1 DEF Reached
  <2> QED BY <2>1, GrantsThatStand
<1>6. Sweeping!GrantsIn(rc, (1..n) \ gone) = {s \in (1..n) \ gone : rc[s].kind = "grant"}
  BY GrantsThatStand DEF Reached
<1>7. Sweeping!GrantsIn(rc, 1..n) = {s \in (1..n) \ Reached(rc, n) : rc[s].kind = "grant"}
  BY GrantsOfAll
<1>8. Sweeping!GrantsIn(rc, 1..Len(rc))
        = {s \in (1..Len(rc)) \ Reached(rc, Len(rc)) : rc[s].kind = "grant"}
  BY GrantsOfAll
<1>9. {s \in (1..Len(rc)) \ gone : rc[s].kind = "grant"} = {s \in (1..n) \ gone : rc[s].kind = "grant"}
  BY <1>1, <1>2
<1> QED BY <1>1, <1>2, <1>3, <1>4, <1>5, <1>6, <1>7, <1>8, <1>9 DEF StandsAlike

(* The anchor guard that let a sweep begin lets each of its overturns in.   *)
LEMMA GuardHolds ==
  ASSUME NEW rc, NEW sw, NEW n, NEW fallen, IsLanding(rc, sw, n, fallen)
  PROVE  Sweeping!AnchorHolds(rc, fallen \cup Sweeping!OverturnedTargets(rc))
<1>1. PICK gone : gone = fallen \cup Reached(rc, n) OBVIOUS
<1>2. gone = fallen \cup Sweeping!OverturnedTargets(rc) BY <1>1, WhatIsGone, TargetsAreOverturned
<1>3. PICK end : end = Sweeping!ChainEnd(rc, 1..n) OBVIOUS
<1>4. PICK post : post = Sweeping!GrantsIn(rc, (1..n) \ gone) OBVIOUS
<1>5. PICK pre : pre = Sweeping!GrantsIn(rc, 1..Len(rc)) OBVIOUS
<1>6. PICK first : first = Sweeping!GrantsIn(rc, 1..n) OBVIOUS
<1>7. /\ Handovers(rc, (1..Len(rc)) \ gone) = Handovers(rc, (1..n) \ gone)
      /\ Handovers(rc, 1..Len(rc)) = Handovers(rc, 1..n)
      /\ Sweeping!GrantsIn(rc, (1..Len(rc)) \ gone) = post
      /\ post \in SUBSET pre /\ pre \in SUBSET first
  <2>1. StandsAlike(rc, n, gone) BY <1>1, WhatStands
  <2> QED BY <2>1, <1>4, <1>5, <1>6 DEF StandsAlike
<1>8. /\ Sweeping!ChainEnd(rc, (1..n) \ gone) = end
      /\ Sweeping!Rootless(rc, (1..n) \ gone) \subseteq Sweeping!Rootless(rc, 1..n)
  BY <1>1, <1>3 DEF IsLanding, InHand, Unmoved
<1>9. /\ Sweeping!ChainEnd(rc, (1..Len(rc)) \ gone) = end
      /\ Sweeping!ChainEnd(rc, 1..Len(rc)) = end
  BY <1>3, <1>7, <1>8, ChainEndIs
<1>10. /\ Sweeping!Rootless(rc, (1..n) \ gone) = Unrooted(rc, post, end)
       /\ Sweeping!Rootless(rc, 1..n) = Unrooted(rc, first, end)
       /\ Sweeping!Rootless(rc, (1..Len(rc)) \ gone) = Unrooted(rc, post, end)
       /\ Sweeping!Rootless(rc, 1..Len(rc)) = Unrooted(rc, pre, end)
  BY <1>3, <1>4, <1>5, <1>6, <1>7, <1>8, <1>9, RootlessIs
<1>11. ASSUME NEW g \in Unrooted(rc, post, end) PROVE g \in Unrooted(rc, pre, end)
  <2>1. g \in post BY DEF Unrooted
  <2>2. g \in pre /\ g \in Unrooted(rc, first, end) BY <2>1, <1>7, <1>8, <1>10
  <2> QED BY <2>2, <1>7, FewerAreRooted
<1>12. Unrooted(rc, post, end) \subseteq Unrooted(rc, pre, end) BY <1>11
<1> QED BY <1>2, <1>9, <1>10, <1>12 DEF Sweeping!AnchorHolds

(* One overturn of a sweep lands, the least of those still to land.         *)
Lands(rc, sw, n, fallen, o, new) ==
  /\ IsLanding(rc, sw, n, fallen)
  /\ o \in sw /\ \A p \in sw : o.of <= p.of
  /\ \E row : /\ new = Append(rc, row) /\ row.kind = "overturn"
              /\ row.of = o.of /\ row.law = n /\ row.sweep = fallen

Landed(rc, n, fallen, o, new) ==
  /\ IsRecord(new)
  /\ Len(rc) \in Nat /\ Len(new) = Len(rc) + 1 /\ n \in 1..Len(rc) /\ n \in Nat
  /\ \A k \in 1..Len(rc) : new[k] = rc[k]
  /\ new[Len(new)].kind = "overturn" /\ new[Len(new)].of = o.of
  /\ new[Len(new)].law = n /\ new[Len(new)].sweep = fallen
  /\ Len(new) \notin 1..Len(rc)
  /\ Overturns(new) = Overturns(rc) \cup {Len(new)}
  /\ 1..Len(new) = (1..Len(rc)) \cup {Len(new)}
  /\ Overturns(rc) \subseteq 1..Len(rc)
  /\ Reached(new, Len(new)) = Reached(rc, Len(rc)) \cup {o.of}
  /\ o.of \in fallen /\ fallen \subseteq 1..(n-1)

(* What the record is when it landed.                                       *)
LEMMA OneLands ==
  ASSUME NEW rc, NEW sw, NEW n, NEW fallen, NEW o, NEW new, Lands(rc, sw, n, fallen, o, new)
  PROVE  Landed(rc, n, fallen, o, new)
<1>1. PICK row : /\ new = Append(rc, row) /\ row.kind = "overturn"
                 /\ row.of = o.of /\ row.law = n /\ row.sweep = fallen
  BY DEF Lands
<1>2. IsRecord(rc) /\ n \in 1..Len(rc) /\ fallen \subseteq 1..(n-1) /\ o.of \in fallen
  BY DEF Lands, IsLanding, InHand
<1>3. /\ IsRecord(new) /\ Len(rc) \in Nat /\ Len(new) = Len(rc) + 1
      /\ \A k \in 1..Len(rc) : new[k] = rc[k]
      /\ new[Len(rc) + 1] = row
  BY <1>1, <1>2, RowAppended
<1>4. 1..Len(new) = (1..Len(rc)) \cup {Len(new)} /\ Len(new) \notin 1..Len(rc) BY <1>3
<1>5. Overturns(new) = Overturns(rc) \cup {Len(new)} BY <1>1, <1>3, <1>4 DEF Overturns
<1>6. Overturns(rc) \subseteq 1..Len(rc) BY DEF Overturns
<1>7. new[Len(new)] = row BY <1>3
<1>8. Reached(new, Len(new)) = Reached(rc, Len(rc)) \cup {o.of}
  <2>1. \A k \in Overturns(rc) : new[k].of = rc[k].of BY <1>3, <1>6
  <2>2. {new[k].of : k \in Overturns(rc) \cup {Len(new)}}
          = {rc[k].of : k \in Overturns(rc)} \cup {o.of} BY <2>1, <1>1, <1>7
  <2> QED BY <2>2, <1>5, TargetsAre
<1> QED BY <1>1, <1>2, <1>3, <1>4, <1>5, <1>6, <1>7, <1>8 DEF Landed

(* The root does not move between two overturns: while the last handover    *)
(* that stands is not reached it names the root, and when it is reached     *)
(* nothing of the sweep is left that comes after it, so what stands is what *)
(* the anchor guard was asked about.                                        *)
LEMMA RootStandsStill ==
  ASSUME NEW rc, NEW sw, NEW n, NEW fallen, NEW o, NEW new, Lands(rc, sw, n, fallen, o, new),
         Stands(rc)
  PROVE  Stands(new)
<1>0. Landed(rc, n, fallen, o, new) BY OneLands
<1>1. PICK len \in Nat : len = Len(rc) BY <1>0 DEF Landed
<1>2. PICK all : all = Reached(rc, Len(rc)) OBVIOUS
<1>3. PICK whole \in SUBSET (1..len) : whole = Handovers(rc, 1..Len(rc)) BY <1>1 DEF Handovers
<1>4. PICK x : x = o.of OBVIOUS
<1>5. /\ Len(new) \notin 1..len /\ 1..Len(new) = (1..len) \cup {Len(new)}
      /\ \A k \in 1..len : new[k] = rc[k]
      /\ new[Len(new)].kind = "overturn"
      /\ Reached(new, Len(new)) = all \cup {x}
      /\ x \in fallen /\ fallen \subseteq 1..(n-1) /\ n \in Nat
  BY <1>0, <1>1, <1>2, <1>4 DEF Landed
<1>6. Handovers(new, 1..Len(new)) = whole
  <2>1. Handovers(new, 1..Len(new)) = Handovers(rc, 1..len) BY <1>5 DEF Handovers
  <2> QED BY <2>1, <1>1, <1>3
<1>7. Handovers(rc, (1..Len(rc)) \ all) = whole \ all BY <1>3 DEF Handovers
<1>8. Handovers(new, (1..Len(new)) \ Reached(new, Len(new))) = (whole \ all) \ {x}
  <2>1. Handovers(new, (1..Len(new)) \ Reached(new, Len(new)))
          = Handovers(new, 1..Len(new)) \ Reached(new, Len(new)) BY DEF Handovers
  <2> QED BY <2>1, <1>5, <1>6
<1>9. EndOf(rc, whole \ all) = EndOf(rc, whole)
  BY <1>2, <1>3, <1>7, ChainEndIs DEF Stands
<1>10. EndOf(rc, (whole \ all) \ {x}) = EndOf(rc, whole)
  <2>1. CASE x \notin whole \ all
    <3>1. (whole \ all) \ {x} = whole \ all BY <2>1
    <3> QED BY <3>1, <1>9
  <2>2. CASE x \in whole \ all
    <3>1. PICK stand \in SUBSET (1..len) : stand = whole \ all OBVIOUS
    <3>2. PICK c : c = Sweeping!Max(stand) OBVIOUS
    <3>3. stand # {} BY <2>2, <3>1
    <3>4. c \in stand /\ \A k \in stand : k <= c BY <3>2, <3>3, GreatestOf
    <3>5. CASE x # c
      <4>1. PICK rest : rest = stand \ {x} OBVIOUS
      <4>2. c \in rest BY <3>4, <3>5, <4>1
      <4>3. rest \in SUBSET Nat BY <3>1, <4>1
      <4>4. \A k \in rest : k <= c BY <3>4, <4>1
      <4>5. Sweeping!Max(rest) = c BY <4>2, <4>3, <4>4, GreatestIs
      <4>6. EndOf(rc, rest) = rc[c].of BY <4>2, <4>5 DEF EndOf
      <4>7. EndOf(rc, stand) = rc[c].of BY <3>2, <3>3 DEF EndOf
      <4> QED BY <4>1, <4>6, <4>7, <3>1, <1>9
    <3>6. CASE x = c
      <4>1. PICK gone : gone = fallen \cup Reached(rc, n) OBVIOUS
      <4>2. IsLanding(rc, sw, n, fallen) BY DEF Lands
      <4>3. /\ gone = fallen \cup all
            /\ \A y \in fallen : y \in all \/ \E p \in sw : p.of = y
        BY <4>1, <4>2, <1>2, WhatIsGone
      <4>4. Handovers(rc, (1..n) \ gone) = whole \ gone
        <5>1. StandsAlike(rc, n, gone) BY <4>1, <4>2, WhatStands
        <5>2. Handovers(rc, (1..Len(rc)) \ gone) = Handovers(rc, 1..Len(rc)) \ gone BY DEF Handovers
        <5> QED BY <5>1, <5>2, <1>3 DEF StandsAlike
      <4>5. Handovers(rc, 1..n) = whole
        <5>1. StandsAlike(rc, n, gone) BY <4>1, <4>2, WhatStands
        <5> QED BY <5>1, <1>3 DEF StandsAlike
      <4>6. EndOf(rc, whole \ gone) = EndOf(rc, whole)
        <5>1. Sweeping!ChainEnd(rc, (1..n) \ gone) = Sweeping!ChainEnd(rc, 1..n)
          BY <4>1, <4>2 DEF IsLanding, InHand, Unmoved
        <5> QED BY <5>1, <4>4, <4>5, ChainEndIs
      <4>7. stand \ {x} = whole \ gone
        <5>1. whole \ gone \subseteq stand \ {x} BY <4>3, <3>1, <1>5
        <5>2. ASSUME NEW h \in stand, h # x PROVE h \notin fallen
          <6>1. SUFFICES ASSUME h \in fallen PROVE FALSE OBVIOUS
          <6>2. PICK p \in sw : p.of = h BY <4>3, <3>1, <6>1
          <6>3. x <= h BY <6>2, <1>4 DEF Lands
          <6>4. h <= x BY <3>4, <3>6
          <6> QED BY <6>3, <6>4, <5>2, <3>1, <1>5, <6>1
        <5>3. stand \ {x} \subseteq whole \ gone BY <5>2, <4>3, <3>1
        <5> QED BY <5>1, <5>3
      <4> QED BY <4>6, <4>7, <3>1
    <3> QED BY <3>5, <3>6
  <2> QED BY <2>1, <2>2
<1>11. EndOf(rc, whole) = EndOf(new, whole)
  <2>1. \A s \in whole : rc[s] = new[s] BY <1>5
  <2> QED BY <2>1, SameEnd
<1>12. EndOf(rc, (whole \ all) \ {x}) = EndOf(new, (whole \ all) \ {x})
  <2>1. PICK h \in SUBSET (1..len) : h = (whole \ all) \ {x} OBVIOUS
  <2>2. \A s \in h : rc[s] = new[s] BY <1>5
  <2>3. EndOf(rc, h) = EndOf(new, h) BY <2>2, SameEnd
  <2> QED BY <2>1, <2>3
<1> QED BY <1>6, <1>8, <1>10, <1>11, <1>12, ChainEndIs DEF Stands

(* When the last overturn of a sweep landed, the record shows the world the *)
(* anchor guard was asked about before the first.                           *)
LEMMA LastOneLands ==
  ASSUME NEW rc, NEW sw, NEW n, NEW fallen, NEW o, NEW new, Lands(rc, sw, n, fallen, o, new),
         sw = {o}
  PROVE  Sweeping!Rootless(new, 1..Len(new)) \subseteq Sweeping!Rootless(rc, 1..n)
<1>0. Landed(rc, n, fallen, o, new) /\ IsLanding(rc, sw, n, fallen) BY OneLands DEF Lands
<1>1. PICK len \in Nat : len = Len(rc) BY <1>0 DEF Landed
<1>2. PICK gone : gone = fallen \cup Reached(rc, n) OBVIOUS
<1>3. /\ gone = fallen \cup Reached(rc, Len(rc))
      /\ \A x \in fallen : x \in Reached(rc, Len(rc)) \/ x = o.of
  BY <1>0, <1>2, WhatIsGone
<1>4. /\ Len(new) \notin 1..len /\ 1..Len(new) = (1..len) \cup {Len(new)}
      /\ \A k \in 1..len : new[k] = rc[k]
      /\ new[Len(new)].kind = "overturn"
      /\ Reached(new, Len(new)) = gone
  <2>1. o.of \in fallen /\ Reached(new, Len(new)) = Reached(rc, Len(rc)) \cup {o.of}
    BY <1>0 DEF Landed
  <2>2. Reached(new, Len(new)) = gone BY <2>1, <1>3
  <2> QED BY <2>2, <1>0, <1>1 DEF Landed
<1>5. StandsAlike(rc, n, gone) BY <1>0, <1>2, WhatStands
<1>6. PICK grants \in SUBSET (1..len) : grants = Sweeping!GrantsIn(rc, (1..len) \ gone)
  BY DEF Sweeping!GrantsIn, Sweeping!Live
<1>7. Sweeping!GrantsIn(new, 1..Len(new)) = grants
  <2>1. Sweeping!GrantsIn(new, 1..Len(new)) = {s \in (1..Len(new)) \ gone : new[s].kind = "grant"}
    BY <1>4, GrantsOfAll
  <2>2. Sweeping!GrantsIn(rc, (1..len) \ gone) = {s \in (1..len) \ gone : rc[s].kind = "grant"}
    <3>1. Sweeping!OverturnedIn(rc, 1..len) \subseteq gone BY <1>1, <1>3 DEF Reached
    <3> QED BY <3>1, GrantsThatStand
  <2> QED BY <2>1, <2>2, <1>4, <1>6
<1>8. PICK whole \in SUBSET (1..len) : whole = Handovers(rc, 1..len) BY DEF Handovers
<1>9. Handovers(new, 1..Len(new)) = whole BY <1>4, <1>8 DEF Handovers
<1>10. Handovers(rc, 1..n) = whole BY <1>1, <1>5, <1>8 DEF StandsAlike
<1>11. PICK end : end = EndOf(rc, whole) OBVIOUS
<1>12. EndOf(new, whole) = end
  <2>1. \A s \in whole : rc[s] = new[s] BY <1>4
  <2> QED BY <2>1, <1>11, SameEnd
<1>13. Sweeping!Rootless(new, 1..Len(new)) = Unrooted(new, grants, end)
  BY <1>7, <1>9, <1>12, ChainEndIs, RootlessIs
<1>14. Unrooted(new, grants, end) = Unrooted(rc, grants, end)
  <2>1. PICK live : live = grants OBVIOUS
  <2>2. \A s \in live : rc[s] = new[s] BY <2>1, <1>4
  <2>3. Unrooted(rc, live, end) = Unrooted(new, live, end) BY <2>2, SameGrants
  <2> QED BY <2>1, <2>3
<1>15. Unmoved(rc, n, fallen) BY <1>0 DEF IsLanding, InHand
<1>16. Sweeping!ChainEnd(rc, (1..n) \ gone) = end
  <2>1. Sweeping!ChainEnd(rc, 1..n) = end BY <1>10, <1>11, ChainEndIs
  <2> QED BY <2>1, <1>2, <1>15 DEF Unmoved
<1>17. Sweeping!GrantsIn(rc, (1..n) \ gone) = grants BY <1>1, <1>5, <1>6 DEF StandsAlike
<1>18. Sweeping!Rootless(rc, (1..n) \ gone) = Unrooted(rc, grants, end)
  BY <1>16, <1>17, RootlessIs
<1>19. Sweeping!Rootless(rc, (1..n) \ gone) \subseteq Sweeping!Rootless(rc, 1..n)
  BY <1>2, <1>15 DEF Unmoved
<1> QED BY <1>13, <1>14, <1>18, <1>19

(* The rest of the sweep lands after it.                                    *)
LEMMA OverturnLands ==
  ASSUME NEW rc, NEW sw, NEW n, NEW fallen, NEW o, NEW new, Lands(rc, sw, n, fallen, o, new),
         NEW cut, Swept(rc, sw, cut), NEW rest, rest = sw \ {o}
  PROVE  Swept(new, rest, cut)
<1>0. Landed(rc, n, fallen, o, new) /\ IsLanding(rc, sw, n, fallen) BY OneLands DEF Lands
<1>1. PICK len \in Nat : len = Len(rc) BY <1>0 DEF Landed
<1>2. PICK last : last = Len(new) OBVIOUS
<1>3. /\ IsRecord(new) /\ last = len + 1 /\ n \in 1..len /\ n \in Nat
      /\ \A k \in 1..len : new[k] = rc[k]
      /\ new[last].of = o.of /\ new[last].law = n /\ new[last].sweep = fallen
      /\ Overturns(new) = Overturns(rc) \cup {last}
      /\ Overturns(rc) \subseteq 1..len
      /\ Reached(new, Len(new)) = Reached(rc, Len(rc)) \cup {o.of}
      /\ o.of \in fallen /\ fallen \subseteq 1..(n-1)
  BY <1>0, <1>1, <1>2 DEF Landed
<1>4. \A k \in Overturns(new) : (k \in Overturns(rc) /\ k \in 1..len /\ new[k] = rc[k]) \/ k = last
  BY <1>3
<1>5. /\ \A p \in sw : p.law = n /\ p.sweep = fallen /\ p.of \in fallen
      /\ \A p, q \in sw : p.of = q.of => p = q
      /\ Unmoved(rc, n, fallen)
      /\ \A x \in fallen : x \in Reached(rc, Len(rc)) \/ \E p \in sw : p.of = x
  <2>1. \A x \in fallen : x \in Reached(rc, Len(rc)) \/ \E p \in sw : p.of = x
    BY <1>0, WhatIsGone
  <2> QED BY <2>1, <1>0 DEF IsLanding, InHand
<1>6. OfThePast(new)
  <2>1. \A k \in Overturns(rc) : rc[k].of \in 1..(k-1) /\ rc[k].law \in 1..(k-1)
    BY DEF Swept, OfThePast
  <2>2. o.of \in 1..(last-1) /\ n \in 1..(last-1)
    <3>1. PICK x \in 1..(n-1) : x = o.of BY <1>3
    <3>2. n \in 1..len /\ last = len + 1 BY <1>3
    <3> QED BY <3>1, <3>2
  <2> QED BY <2>1, <2>2, <1>3, <1>4 DEF OfThePast
<1>7. Stands(new) BY RootStandsStill DEF Swept
<1>8. ASSUME ~ cut PROVE Landing(new, rest)
  <2>1. \A k \in Overturns(rc) : rc[k].sweep \subseteq Reached(rc, Len(rc)) \cup {p.of : p \in sw}
    BY <1>8 DEF Swept, Landing
  <2>2. Reached(rc, Len(rc)) \cup {p.of : p \in sw}
          \subseteq Reached(new, Len(new)) \cup {p.of : p \in rest} BY <1>3
  <2>3. fallen \subseteq Reached(rc, Len(rc)) \cup {p.of : p \in sw} BY <1>5
  <2>4. \A k \in Overturns(new) :
          new[k].sweep \subseteq Reached(rc, Len(rc)) \cup {p.of : p \in sw}
    BY <2>1, <2>3, <1>3, <1>4
  <2> QED BY <2>2, <2>4 DEF Landing
<1>9. \A m \in 0..len : /\ Sweeping!Rootless(new, 1..m) = Sweeping!Rootless(rc, 1..m)
                         /\ \A f : Unmoved(rc, m, f) => Unmoved(new, m, f)
  <2>1. \A s \in 1..len : rc[s] = new[s] BY <1>3
  <2> QED BY <2>1, PrefixKeeps
<1>10. ASSUME ~ cut PROVE Unorphaned(new, rest)
  <2> SUFFICES ASSUME NEW k \in Overturns(new), IsOver(new, rest, k)
               PROVE  Sweeping!Rootless(new, 1..k) \subseteq Sweeping!Rootless(new, 1..new[k].law)
    BY DEF Unorphaned
  <2>1. CASE k = last
    <3>1. \A p \in rest : p.law # n BY <2>1, <1>3 DEF IsOver
    <3>2. sw = {o} BY <3>1, <1>5 DEF Lands
    <3>3. Sweeping!Rootless(new, 1..Len(new)) \subseteq Sweeping!Rootless(rc, 1..n)
      BY <3>2, LastOneLands
    <3>4. n \in 0..len BY <1>3
    <3> QED BY <3>3, <3>4, <2>1, <1>2, <1>3, <1>9
  <2>2. CASE k # last
    <3>1. k \in Overturns(rc) /\ k \in 1..len /\ new[k] = rc[k] BY <2>2, <1>4
    <3>2. rc[k].law # n
      <4> SUFFICES ASSUME rc[k].law = n PROVE FALSE OBVIOUS
      <4>1. last \in Overturns(new) /\ new[last].law = new[k].law BY <3>1, <1>3
      <4>2. last <= k BY <4>1 DEF IsOver
      <4> QED BY <4>2, <3>1, <1>3
    <3>3. IsOver(rc, sw, k)
      <4>1. \A j \in Overturns(rc) : rc[j].law = rc[k].law => j <= k BY <3>1, <1>3 DEF IsOver
      <4> QED BY <4>1, <3>2, <1>5 DEF IsOver
    <3>4. Sweeping!Rootless(rc, 1..k) \subseteq Sweeping!Rootless(rc, 1..rc[k].law)
      BY <3>1, <3>3, <1>10 DEF Swept, Unorphaned
    <3>5. k \in 0..len /\ rc[k].law \in 0..len
      <4>1. rc[k].law \in 1..(k-1) BY <3>1 DEF Swept, OfThePast
      <4> QED BY <4>1, <3>1
    <3> QED BY <3>1, <3>4, <3>5, <1>9
  <2> QED BY <2>1, <2>2
<1>11. ASSUME rest # {} PROVE InHand(new, rest, n, fallen)
  <2>1. Unmoved(new, n, fallen)
    <3>1. n \in 0..len BY <1>3
    <3> QED BY <3>1, <1>5, <1>9
  <2>2. ASSUME NEW k \in (n+1)..Len(new)
        PROVE  /\ k \in Overturns(new) /\ new[k].law = n /\ new[k].sweep = fallen /\ new[k].of \in fallen
               /\ \A p \in rest : new[k].of < p.of
    <3>1. CASE k = last
      <4>1. ASSUME NEW p \in rest PROVE o.of < p.of
        <5>1. o.of <= p.of /\ o.of # p.of /\ p.of \in fallen BY <4>1, <1>5 DEF Lands
        <5>2. o.of \in Nat /\ p.of \in Nat
          <6>1. 1..(n-1) \subseteq Nat OBVIOUS
          <6> QED BY <6>1, <5>1, <1>3
        <5> QED BY <5>1, <5>2
      <4> QED BY <4>1, <3>1, <1>3
    <3>2. CASE k # last
      <4>1. k \in (n+1)..Len(rc) /\ k \in 1..len BY <3>2, <1>1, <1>2, <1>3
      <4>2. /\ k \in Overturns(rc) /\ rc[k].law = n /\ rc[k].sweep = fallen /\ rc[k].of \in fallen
            /\ \A p \in sw : rc[k].of < p.of
        BY <4>1, <1>0 DEF IsLanding, InHand
      <4> QED BY <4>1, <4>2, <1>3
    <3> QED BY <3>1, <3>2
  <2>3. ASSUME NEW x \in fallen
        PROVE  (\E k \in (n+1)..Len(new) : new[k].of = x) \/ (\E p \in rest : p.of = x)
    <3>1. (\E k \in (n+1)..Len(rc) : rc[k].of = x) \/ (\E p \in sw : p.of = x)
      BY <1>0 DEF IsLanding, InHand
    <3>2. CASE \E k \in (n+1)..Len(rc) : rc[k].of = x
      <4>1. PICK k \in (n+1)..Len(rc) : rc[k].of = x BY <3>2
      <4>2. k \in (n+1)..Len(new) /\ k \in 1..len BY <1>1, <1>2, <1>3
      <4>3. new[k].of = x BY <4>1, <4>2, <1>3
      <4> QED BY <4>2, <4>3
    <3>3. CASE \E p \in sw : p.of = x
      <4>1. PICK p \in sw : p.of = x BY <3>3
      <4>2. CASE p = o
        <5>1. last \in (n+1)..Len(new) BY <1>1, <1>2, <1>3
        <5> QED BY <5>1, <4>1, <4>2, <1>3
      <4> QED BY <4>1, <4>2
    <3> QED BY <3>1, <3>2, <3>3
  <2>4. /\ \A p \in rest : p.law = n /\ p.sweep = fallen /\ p.of \in fallen
        /\ \A p, q \in rest : p.of = q.of => p = q
    BY <1>5
  <2> QED BY <2>1, <2>2, <2>3, <2>4 DEF InHand
<1>12. n \in 1..Len(new) /\ fallen \in SUBSET (1..(n-1)) BY <1>1, <1>2, <1>3
<1>13. rest # {} => \E m \in 1..Len(new) : \E f \in SUBSET (1..(m-1)) : InHand(new, rest, m, f)
  BY <1>11, <1>12
<1> QED BY <1>3, <1>6, <1>7, <1>8, <1>10, <1>13 DEF Swept

-----------------------------------------------------------------------------
(* No law held back while a sweep runs is an overturn.                      *)
Held(q) == \E S : q \in Seq(S) /\ \A e \in S : e.kind # "overturn"

SweepInvariant == Swept(rec, sweep, crashed) /\ Held(queue)

(* Before the first act nothing is swept.                                   *)
LEMMA SweepsBegin == Sweeping!Init => SweepInvariant
<1> SUFFICES ASSUME Sweeping!Init PROVE SweepInvariant OBVIOUS
<1>1. rec = << >> /\ sweep = {} /\ queue = << >> /\ crashed = FALSE BY DEF Sweeping!Init
<1>2. IsRecord(rec)
  <2>1. << >> \in Seq({}) OBVIOUS
  <2> QED BY <2>1, <1>1 DEF IsRecord
<1>3. Len(rec) = 0 /\ 1..Len(rec) = {} /\ Overturns(rec) = {} BY <1>1 DEF Overturns
<1>4. Stands(rec)
  <2>1. (1..Len(rec)) \ Reached(rec, Len(rec)) = 1..Len(rec) BY <1>3
  <2> QED BY <2>1 DEF Stands
<1>5. Swept(rec, sweep, crashed)
  BY <1>1, <1>2, <1>3, <1>4 DEF Swept, OfThePast, Landing, Unorphaned
<1>6. Held(queue)
  <2>1. << >> \in Seq({}) OBVIOUS
  <2> QED BY <2>1, <1>1 DEF Held
<1> QED BY <1>5, <1>6 DEF SweepInvariant

(* The gate's answer is one record, and only a law that it lets in can      *)
(* leave a sweep to do (Gate.submit, Gate.refuse).                          *)
LEMMA AnswersKeepIt ==
  ASSUME Swept(rec, sweep, crashed), sweep = {}, crashed' = crashed,
         NEW e, e.kind # "overturn", Sweeping!Accept(e) \/ Sweeping!Refuse(e)
  PROVE  Swept(rec', sweep', crashed')
<1>1. CASE Sweeping!Accept(e)
  <2>1. PICK row : row = Sweeping!Stamped(e, now) OBVIOUS
  <2>2. row.kind # "overturn" BY <2>1 DEF Sweeping!Stamped
  <2>3. rec' = Append(rec, row) /\ sweep' \in {{}, Sweeping!SweepOf(rec')}
    BY <2>1, <1>1 DEF Sweeping!Accept
  <2> QED BY <2>2, <2>3, RowLands
<1>2. CASE Sweeping!Refuse(e)
  <2>1. CASE rec' = rec
    BY <2>1, <1>2 DEF Sweeping!Refuse
  <2>2. CASE rec' # rec
    <3>1. PICK row : row.kind = "refused" /\ rec' = Append(rec, row)
      BY <2>2, <1>2 DEF Sweeping!Refuse
    <3>2. sweep' \in {{}, Sweeping!SweepOf(rec')} BY <1>2 DEF Sweeping!Refuse
    <3> QED BY <3>1, <3>2, RowLands
  <2> QED BY <2>1, <2>2
<1> QED BY <1>1, <1>2

(* The guard each overturn meets again lets it in, so none is dropped.      *)
LEMMA CommitsKeepIt ==
  ASSUME Swept(rec, sweep, crashed), Sweeping!Commit
  PROVE  Swept(rec', sweep', crashed')
<1>1. PICK o \in sweep :
        /\ \A p \in sweep : o.of <= p.of
        /\ IF Sweeping!AnchorHolds(rec, o.sweep \cup Sweeping!OverturnedTargets(rec))
           THEN rec' = Append(rec, Sweeping!Overturn(o)) /\ sweep' = sweep \ {o}
           ELSE rec' = rec /\ sweep' = {}
  BY DEF Sweeping!Commit
<1>2. PICK n \in 1..Len(rec) : \E f \in SUBSET (1..(n-1)) : InHand(rec, sweep, n, f)
  BY <1>1 DEF Swept
<1>3. PICK fallen \in SUBSET (1..(n-1)) : InHand(rec, sweep, n, fallen) BY <1>2
<1>4. IsLanding(rec, sweep, n, fallen) BY <1>2, <1>3 DEF IsLanding, Swept
<1>5. o.sweep = fallen /\ o.law = n BY <1>1, <1>3 DEF InHand
<1>6. Sweeping!AnchorHolds(rec, fallen \cup Sweeping!OverturnedTargets(rec)) BY <1>4, GuardHolds
<1>7. rec' = Append(rec, Sweeping!Overturn(o)) /\ sweep' = sweep \ {o} BY <1>1, <1>5, <1>6
<1>8. Lands(rec, sweep, n, fallen, o, rec')
  <2>1. PICK row : row = Sweeping!Overturn(o) OBVIOUS
  <2>2. row.kind = "overturn" /\ row.of = o.of /\ row.law = n /\ row.sweep = fallen
    BY <2>1, <1>5 DEF Sweeping!Overturn
  <2> QED BY <2>1, <2>2, <1>1, <1>4, <1>7 DEF Lands
<1>9. Swept(rec', sweep \ {o}, crashed) BY <1>8, OverturnLands
<1>10. crashed' = crashed BY DEF Sweeping!Commit
<1> QED BY <1>7, <1>9, <1>10

(* No step of the gate, and no crash, takes the invariant away.             *)
LEMMA SweepsGoOn ==
  ASSUME "overturn" \notin Kinds, SweepInvariant, [Sweeping!Next]_(Sweeping!vars)
  PROVE  SweepInvariant'
<1> USE DEF SweepInvariant
<1>1. CASE Sweeping!Tick BY <1>1 DEF Sweeping!Tick
<1>2. CASE Sweeping!Act
  <2>1. PICK e \in Sweeping!Requests : Sweeping!Accept(e) \/ Sweeping!Refuse(e)
    BY <1>2 DEF Sweeping!Act
  <2>2. e.kind # "overturn" BY <2>1 DEF Sweeping!Requests, Sweeping!Entry
  <2>3. sweep = {} /\ crashed' = crashed /\ queue' = queue BY <1>2 DEF Sweeping!Act
  <2>4. Swept(rec', sweep', crashed') BY <2>1, <2>2, <2>3, AnswersKeepIt
  <2> QED BY <2>3, <2>4
<1>3. CASE Sweeping!Submit
  <2>1. PICK e : e.kind = "law" /\ queue' = Append(queue, e)
    BY <1>3 DEF Sweeping!Submit, Sweeping!Entry
  <2>2. PICK S : queue \in Seq(S) /\ \A h \in S : h.kind # "overturn" BY DEF Held
  <2>3. Append(queue, e) \in Seq(S \cup {e})
    <3>1. queue \in Seq(S \cup {e}) /\ e \in S \cup {e} BY <2>2
    <3> QED BY <3>1
  <2>4. \A h \in S \cup {e} : h.kind # "overturn" BY <2>1, <2>2
  <2>5. Held(queue') BY <2>1, <2>3, <2>4 DEF Held
  <2> QED BY <2>5, <1>3 DEF Sweeping!Submit
<1>4. CASE Sweeping!Commit
  <2>1. Swept(rec', sweep', crashed') BY <1>4, CommitsKeepIt
  <2> QED BY <2>1, <1>4 DEF Sweeping!Commit
<1>5. CASE Sweeping!Drain
  <2>1. PICK S : queue \in Seq(S) /\ \A h \in S : h.kind # "overturn" BY DEF Held
  <2>2. sweep = {} /\ queue # << >> /\ queue' = Tail(queue) /\ crashed' = crashed
    BY <1>5 DEF Sweeping!Drain
  <2>3. PICK e : e = Head(queue) OBVIOUS
  <2>4. e \in S /\ Tail(queue) \in Seq(S) BY <2>1, <2>2, <2>3
  <2>5. Sweeping!Accept(e) \/ Sweeping!Refuse(e) BY <1>5, <2>3 DEF Sweeping!Drain
  <2>6. Swept(rec', sweep', crashed') BY <2>1, <2>2, <2>4, <2>5, AnswersKeepIt
  <2>7. Held(queue') BY <2>1, <2>2, <2>4 DEF Held
  <2> QED BY <2>6, <2>7
<1>6. CASE Sweeping!Crash
  <2>1. /\ rec' = rec /\ sweep' = {} /\ queue' = << >> /\ crashed' = TRUE
    BY <1>6 DEF Sweeping!Crash
  <2>2. Swept(rec, {}, TRUE) BY DEF Swept
  <2>3. Held(<< >>)
    <3>1. << >> \in Seq({}) OBVIOUS
    <3> QED BY <3>1 DEF Held
  <2> QED BY <2>1, <2>2, <2>3
<1>7. CASE UNCHANGED Sweeping!vars BY <1>7 DEF Sweeping!vars
<1> QED BY <1>1, <1>2, <1>3, <1>4, <1>5, <1>6, <1>7 DEF Sweeping!Next

(* What the invariant says once no sweep is in hand.                        *)
LEMMA SweptIsSound ==
  ASSUME SweepInvariant
  PROVE  Sweeping!SweepIsSound
<1>1. Swept(rec, sweep, crashed) BY DEF SweepInvariant
<1>2. PICK len \in Nat : len = Len(rec) BY <1>1, RowAppended DEF Swept
<1>3. Reached(rec, Len(rec)) = Sweeping!OverturnedTargets(rec) BY TargetsAreOverturned
<1>4. Sweeping!Overturns = Overturns(rec) BY DEF Sweeping!Overturns, Overturns
<1>5. Sweeping!SweepsLandWhole
  <2> SUFFICES ASSUME Sweeping!Quiet, ~ crashed, NEW k \in Overturns(rec)
               PROVE  rec[k].sweep \subseteq Sweeping!OverturnedTargets(rec)
    BY <1>4 DEF Sweeping!SweepsLandWhole
  <2>1. sweep = {} BY DEF Sweeping!Quiet
  <2>2. rec[k].sweep \subseteq Reached(rec, Len(rec)) \cup {o.of : o \in sweep}
    BY <1>1 DEF Swept, Landing
  <2> QED BY <2>1, <2>2, <1>3
<1>6. Sweeping!RootStands BY <1>1, <1>3 DEF Swept, Stands, Sweeping!RootStands
<1>7. Sweeping!SweepsOrphanNothing
  <2> SUFFICES ASSUME Sweeping!Quiet, ~ crashed, NEW k \in Overturns(rec)
               PROVE  Sweeping!Rootless(rec, 1..Sweeping!Max({j \in Overturns(rec) : rec[j].law = rec[k].law}))
                        \subseteq Sweeping!Rootless(rec, 1..rec[k].law)
    BY <1>4 DEF Sweeping!SweepsOrphanNothing
  <2>1. PICK same \in SUBSET (1..len) : same = {j \in Overturns(rec) : rec[j].law = rec[k].law}
    BY <1>2 DEF Overturns
  <2>2. PICK over : over = Sweeping!Max(same) OBVIOUS
  <2>3. same # {} BY <2>1
  <2>4. over \in same /\ \A j \in same : j <= over BY <2>2, <2>3, GreatestOf
  <2>5. over \in Overturns(rec) /\ rec[over].law = rec[k].law BY <2>1, <2>4
  <2>6. IsOver(rec, sweep, over) BY <2>1, <2>4, <2>5 DEF IsOver, Sweeping!Quiet
  <2>7. Sweeping!Rootless(rec, 1..over) \subseteq Sweeping!Rootless(rec, 1..rec[over].law)
    BY <2>5, <2>6, <1>1 DEF Swept, Unorphaned
  <2> QED BY <2>1, <2>2, <2>5, <2>7
<1> QED BY <1>5, <1>6, <1>7 DEF Sweeping!SweepIsSound

(* A sweep lands whole or not at all, never moves the root, not even        *)
(* between two of its overturns or when a crash cuts it short, and leaves   *)
(* no grant without a root that had one when its law arrived               *)
(* (reconcile.run, _anchor_holds; views.chain_end, _rootless).              *)
THEOREM SweepIsSound ==
  ASSUME "overturn" \notin Kinds
  PROVE  Sweeping!Spec => []Sweeping!SweepIsSound
<1>1. SweepInvariant /\ [Sweeping!Next]_(Sweeping!vars) => SweepInvariant' BY SweepsGoOn
<1>2. SweepInvariant => Sweeping!SweepIsSound BY SweptIsSound
<1> QED BY <1>1, <1>2, SweepsBegin, PTL DEF Sweeping!Spec

-----------------------------------------------------------------------------
(* The rounds only add, and as many rounds as there are candidates reach    *)
(* all there is to reach: a round that adds nothing is the last that could. *)
LEMMA RoundsGrow ==
  ASSUME NEW rc, NEW law, NEW head, NEW out, NEW c, InRounds(rc, law, head, out, c),
         NEW i \in 0..c
  PROVE  out[i] \subseteq out[c]
<1> DEFINE Lost == {j \in i..c : ~ out[i] \subseteq out[j]}
<1>1. c \in Nat /\ \A k \in 1..c : out[k-1] \subseteq out[k] BY DEF InRounds
<1>2. Lost = {}
  <2> SUFFICES ASSUME Lost # {} PROVE FALSE OBVIOUS
  <2>1. PICK j \in Lost : \A m \in Lost : j <= m
    <3>1. Lost \subseteq Nat OBVIOUS
    <3> HIDE DEF Lost
    <3> QED BY <3>1, LeastOf
  <2>2. j # i /\ j \in i..c OBVIOUS
  <2>3. j - 1 \in i..c /\ j \in 1..c /\ ~ (j <= j - 1) BY <1>1, <2>2
  <2>4. out[i] \subseteq out[j-1] BY <2>1, <2>3
  <2> QED BY <1>1, <2>3, <2>4
<1>3. c \in i..c BY <1>1
<1> QED BY <1>2, <1>3

LEMMA RoundsSettle ==
  ASSUME NEW rc, NEW law \in Nat, NEW head, NEW out, NEW c, InRounds(rc, law, head, out, c)
  PROVE  Down(rc, law, head, out[c]) \subseteq out[c]
<1>1. PICK cands : cands = Sweeping!Candidates(rc, law) OBVIOUS
<1>2. IsFiniteSet(cands) /\ c = Cardinality(cands) /\ c \in Nat
  <2>1. cands \subseteq 1..(law-1) BY <1>1, CandidatesArePast
  <2>2. IsFiniteSet(1..(law-1)) BY FS_Interval
  <2>3. IsFiniteSet(cands) BY <2>1, <2>2, FS_Subset
  <2> QED BY <1>1, <2>3, SizeIs DEF InRounds
<1>3. /\ out[0] = {} /\ \A k \in 0..c : out[k] \in SUBSET cands
      /\ \A k \in 1..c : out[k] = out[k-1] \cup Down(rc, law, head, out[k-1])
  BY <1>1 DEF InRounds
<1>4. \A k \in 0..c : IsFiniteSet(out[k]) /\ Cardinality(out[k]) \in Nat
  BY <1>2, <1>3, FS_Subset, FS_CardinalityType
<1> DEFINE Settled(k) == Down(rc, law, head, out[k]) \subseteq out[k]
           Short == {k \in 0..c : ~ (k <= Cardinality(out[k]) \/ Settled(k))}
<1>5. Short = {}
  <2> SUFFICES ASSUME Short # {} PROVE FALSE OBVIOUS
  <2>1. PICK k \in Short : \A j \in Short : k <= j
    <3>1. Short \subseteq Nat OBVIOUS
    <3> HIDE DEF Short
    <3> QED BY <3>1, LeastOf
  <2>2. k # 0
    <3>1. Cardinality(out[0]) = 0 BY <1>3, FS_EmptySet
    <3>2. 0 <= Cardinality(out[0]) BY <3>1
    <3> QED BY <3>2
  <2>3. k \in 1..c /\ k - 1 \in 0..c /\ ~ (k <= k - 1) BY <2>2, <1>2
  <2>4. k - 1 \notin Short BY <2>1, <2>3
  <2>5. out[k] = out[k-1] \cup Down(rc, law, head, out[k-1]) BY <1>3, <2>3
  <2>6. CASE Settled(k-1)
    <3>1. out[k] = out[k-1] BY <2>5, <2>6
    <3> QED BY <3>1, <2>6
  <2>7. CASE ~ Settled(k-1)
    <3>1. k - 1 <= Cardinality(out[k-1]) BY <2>3, <2>4, <2>7
    <3>2. PICK y \in Down(rc, law, head, out[k-1]) : y \notin out[k-1] BY <2>7
    <3>3. IsFiniteSet(out[k-1]) /\ Cardinality(out[k-1]) \in Nat BY <1>4, <2>3
    <3>4. Cardinality(out[k-1] \cup {y}) = Cardinality(out[k-1]) + 1 BY <3>2, <3>3, FS_AddElement
    <3>5. out[k-1] \cup {y} \subseteq out[k] BY <2>5, <3>2
    <3>6. Cardinality(out[k-1] \cup {y}) <= Cardinality(out[k]) BY <3>5, <1>4, FS_Subset
    <3>7. Cardinality(out[k]) \in Nat /\ k \in Nat BY <1>4
    <3>8. k <= Cardinality(out[k]) BY <3>1, <3>3, <3>4, <3>6, <3>7
    <3> QED BY <3>8
  <2> QED BY <2>6, <2>7
<1>6. c \in 0..c BY <1>2
<1>7. CASE Settled(c) BY <1>7
<1>8. CASE c <= Cardinality(out[c])
  <2>1. out[c] \in SUBSET cands BY <1>3, <1>6
  <2>2. Cardinality(out[c]) <= c BY <2>1, <1>2, FS_Subset
  <2>3. Cardinality(out[c]) = c BY <2>2, <1>4, <1>6, <1>8, <1>2
  <2>4. out[c] = cands BY <2>1, <2>3, <1>2, FS_Subset
  <2> QED BY <2>4, <1>1 DEF Down
<1> QED BY <1>5, <1>6, <1>7, <1>8

(* What falls when all that fell is gone fell too.                          *)
LEMMA FixedPoint ==
  ASSUME NEW rc, NEW law \in Nat, NEW head
  PROVE  Down(rc, law, head, Sweeping!Computed(rc, law, head)) \subseteq Sweeping!Computed(rc, law, head)
<1>1. PICK c : /\ InRounds(rc, law, head, Sweeping!Rounds(rc, law, head), c)
               /\ Sweeping!Computed(rc, law, head) = Sweeping!Rounds(rc, law, head)[c]
  BY TheRounds
<1>2. PICK out : out = Sweeping!Rounds(rc, law, head) OBVIOUS
<1>3. Down(rc, law, head, out[c]) \subseteq out[c] BY <1>1, <1>2, RoundsSettle
<1> QED BY <1>1, <1>2, <1>3

(* Sweeps of the same candidates, of which the same fall, fell the same.    *)
LEMMA SameFallen ==
  ASSUME NEW rc, NEW new, NEW law \in Nat, NEW head,
         Sweeping!Candidates(rc, law) = Sweeping!Candidates(new, law),
         \A fallen \in SUBSET Sweeping!Candidates(rc, law) :
            Down(rc, law, head, fallen) = Down(new, law, head, fallen)
  PROVE  Sweeping!Computed(rc, law, head) = Sweeping!Computed(new, law, head)
<1>1. PICK c : /\ InRounds(rc, law, head, Sweeping!Rounds(rc, law, head), c)
               /\ Sweeping!Computed(rc, law, head) = Sweeping!Rounds(rc, law, head)[c]
  BY TheRounds
<1>2. PICK e : /\ InRounds(new, law, head, Sweeping!Rounds(new, law, head), e)
               /\ Sweeping!Computed(new, law, head) = Sweeping!Rounds(new, law, head)[e]
  BY TheRounds
<1>3. PICK f : f = Sweeping!Rounds(rc, law, head) OBVIOUS
<1>4. PICK g : g = Sweeping!Rounds(new, law, head) OBVIOUS
<1>5. PICK cands : cands = Sweeping!Candidates(rc, law) OBVIOUS
<1>6. c = e /\ c \in Nat BY <1>1, <1>2 DEF InRounds
<1>7. /\ f[0] = {} /\ g[0] = {}
      /\ \A k \in 0..c : f[k] \in SUBSET cands
      /\ \A k \in 1..c : f[k] = f[k-1] \cup Down(rc, law, head, f[k-1])
      /\ \A k \in 1..c : g[k] = g[k-1] \cup Down(new, law, head, g[k-1])
  BY <1>1, <1>2, <1>3, <1>4, <1>5, <1>6 DEF InRounds
<1> DEFINE Differ == {k \in 0..c : f[k] # g[k]}
<1>8. Differ = {}
  <2> SUFFICES ASSUME Differ # {} PROVE FALSE OBVIOUS
  <2>1. PICK k \in Differ : \A j \in Differ : k <= j
    <3>1. Differ \subseteq Nat OBVIOUS
    <3> HIDE DEF Differ
    <3> QED BY <3>1, LeastOf
  <2>2. k # 0 BY <1>7
  <2>3. k \in 1..c /\ k - 1 \in 0..c /\ ~ (k <= k - 1) BY <2>2, <1>6
  <2>4. f[k-1] = g[k-1] /\ f[k-1] \in SUBSET cands BY <2>1, <2>3, <1>7
  <2>5. Down(rc, law, head, f[k-1]) = Down(new, law, head, g[k-1]) BY <2>4, <1>5
  <2> QED BY <2>3, <2>4, <2>5, <1>7
<1>9. c \in 0..c BY <1>6
<1> QED BY <1>1, <1>2, <1>3, <1>4, <1>6, <1>8, <1>9

(* Nothing falls where nothing falls at first.                              *)
LEMMA NothingFalls ==
  ASSUME NEW rc, NEW law \in Nat, NEW head, Down(rc, law, head, {}) = {}
  PROVE  Sweeping!Computed(rc, law, head) = {}
<1>1. PICK c : /\ InRounds(rc, law, head, Sweeping!Rounds(rc, law, head), c)
               /\ Sweeping!Computed(rc, law, head) = Sweeping!Rounds(rc, law, head)[c]
  BY TheRounds
<1>2. PICK out : out = Sweeping!Rounds(rc, law, head) OBVIOUS
<1>3. /\ c \in Nat /\ out[0] = {}
      /\ \A k \in 1..c : out[k] = out[k-1] \cup Down(rc, law, head, out[k-1])
  BY <1>1, <1>2 DEF InRounds
<1> DEFINE Some == {k \in 0..c : out[k] # {}}
<1>4. Some = {}
  <2> SUFFICES ASSUME Some # {} PROVE FALSE OBVIOUS
  <2>1. PICK k \in Some : \A j \in Some : k <= j
    <3>1. Some \subseteq Nat OBVIOUS
    <3> HIDE DEF Some
    <3> QED BY <3>1, LeastOf
  <2>2. k # 0 BY <1>3
  <2>3. k \in 1..c /\ k - 1 \in 0..c /\ ~ (k <= k - 1) BY <2>2, <1>3
  <2>4. out[k-1] = {} BY <2>1, <2>3
  <2> QED BY <2>3, <2>4, <1>3
<1>5. c \in 0..c BY <1>3
<1> QED BY <1>1, <1>2, <1>4, <1>5

-----------------------------------------------------------------------------
(* What an act needs, over a world: authority, and no law against it.       *)
Holds(rc, W, e) ==
  \/ e.by \in {Sweeping!System, Sweeping!ChainEnd(rc, W)}
  \/ e.kind \in {"do", "grant"} /\ \E s \in Sweeping!GrantsIn(rc, W) : rc[s].of = e.by

LEMMA AdmitsIs ==
  ASSUME NEW rc, NEW W, NEW e
  PROVE  Sweeping!Admits(rc, W, e) <=> Holds(rc, W, e) /\ ~ Sweeping!Bars(rc, W, e.by)
BY DEF Sweeping!Admits, Holds

(* In a world without what was overturned every grant is live.              *)
LEMMA AllGrantsLive ==
  ASSUME NEW rc, NEW W \in SUBSET (1..Len(rc)), W \cap Sweeping!OverturnedTargets(rc) = {}
  PROVE  Sweeping!GrantsIn(rc, W) = {s \in W : rc[s].kind = "grant"}
<1>1. Sweeping!OverturnedIn(rc, W) \subseteq Sweeping!OverturnedTargets(rc)
  BY DEF Sweeping!OverturnedIn, Sweeping!OverturnedTargets
<1> QED BY <1>1 DEF Sweeping!GrantsIn, Sweeping!Live

(* An act that lost its authority when more was left out, and has it when   *)
(* still more is, lost a grant or a handover recorded before it, and would  *)
(* have that authority if only this one were back.                          *)
LEMMA WhatItLost ==
  ASSUME NEW rc, NEW n \in Nat, NEW x, NEW V \in SUBSET (1..n), NEW W \in SUBSET V,
         NEW U \in SUBSET W, NEW e,
         n <= Len(rc), Len(rc) \in Nat, V \cap Sweeping!OverturnedTargets(rc) = {},
         Holds(rc, V, e), ~ Holds(rc, W, e)
  PROVE  \E z \in V \ W : rc[z].kind \in {"grant", "handover"} /\ Holds(rc, U \cup {z}, e)
<1> DEFINE OT == Sweeping!OverturnedTargets(rc)
<1>1. \A X \in SUBSET V : Sweeping!GrantsIn(rc, X) = {s \in X : rc[s].kind = "grant"}
  <2>1. 1..n \subseteq 1..Len(rc) OBVIOUS
  <2>2. \A X \in SUBSET V : X \in SUBSET (1..Len(rc)) /\ X \cap OT = {} BY <2>1
  <2> QED BY <2>2, AllGrantsLive
<1>2. e.by # Sweeping!System BY DEF Holds
<1>3. CASE e.kind \in {"do", "grant"} /\ \E s \in Sweeping!GrantsIn(rc, V) : rc[s].of = e.by
  <2>1. PICK z \in V : rc[z].kind = "grant" /\ rc[z].of = e.by BY <1>1, <1>3
  <2>2. z \notin W BY <1>1, <1>3, <2>1 DEF Holds
  <2>3. U \cup {z} \in SUBSET V BY <2>1
  <2>4. z \in Sweeping!GrantsIn(rc, U \cup {z}) BY <2>1, <2>3, <1>1
  <2>5. Holds(rc, U \cup {z}, e) BY <2>1, <2>4, <1>3 DEF Holds
  <2> QED BY <2>1, <2>2, <2>5
<1>4. CASE e.by = Sweeping!ChainEnd(rc, V)
  <2>1. PICK v \in SUBSET (1..n) : v = Handovers(rc, V) BY DEF Handovers
  <2>2. PICK w \in SUBSET v : w = Handovers(rc, W) BY <2>1 DEF Handovers
  <2>3. e.by = EndOf(rc, v) /\ e.by # EndOf(rc, w) BY <1>4, <2>1, <2>2, ChainEndIs DEF Holds
  <2>4. v # {} BY <2>3, <2>2
  <2>5. PICK z \in v : z = Sweeping!Max(v) /\ \A k \in v : k <= z BY <2>4, GreatestOf
  <2>6. e.by = rc[z].of BY <2>3, <2>4, <2>5 DEF EndOf
  <2>7. z \notin w
    <3> SUFFICES ASSUME z \in w PROVE FALSE OBVIOUS
    <3>1. w \in SUBSET Nat /\ \A k \in w : k <= z BY <2>5
    <3>2. Sweeping!Max(w) = z BY <3>1, GreatestIs
    <3>3. EndOf(rc, w) = rc[z].of BY <3>2 DEF EndOf
    <3> QED BY <3>3, <2>3, <2>6
  <2>8. z \in V /\ z \notin W /\ rc[z].kind = "handover" BY <2>1, <2>2, <2>5, <2>7 DEF Handovers
  <2>9. PICK u : u = Handovers(rc, U \cup {z}) OBVIOUS
  <2>10. u \subseteq v /\ z \in u BY <2>1, <2>8, <2>9 DEF Handovers
  <2>11. u \in SUBSET Nat /\ \A k \in u : k <= z BY <2>5, <2>10
  <2>12. Sweeping!Max(u) = z BY <2>10, <2>11, GreatestIs
  <2>13. EndOf(rc, u) = rc[z].of BY <2>10, <2>12 DEF EndOf
  <2>14. Sweeping!ChainEnd(rc, U \cup {z}) = e.by BY <2>6, <2>9, <2>13, ChainEndIs
  <2>15. Holds(rc, U \cup {z}, e) BY <2>14 DEF Holds
  <2> QED BY <2>8, <2>15
<1> QED BY <1>2, <1>3, <1>4 DEF Holds

(* An act that falls only once more is gone, and does not fall once still   *)
(* more is, would not fall if one earlier act of the first lot were back.   *)
LEMMA SupportRestores ==
  ASSUME NEW rc, NEW n \in Nat, n <= Len(rc), Len(rc) \in Nat, NEW x,
         NEW A, NEW B, NEW T, A \subseteq B, B \subseteq T, Sweeping!OverturnedTargets(rc) \subseteq A,
         ~ Sweeping!Falls(rc, x, A, n), Sweeping!Falls(rc, x, B, n), ~ Sweeping!Falls(rc, x, T, n)
  PROVE  \E z \in B \ A : z < x /\ ~ Sweeping!Falls(rc, x, T \ {z}, n)
<1>1. PICK e : e = rc[x] OBVIOUS
<1> DEFINE World(E) == Sweeping!WorldFor(rc, x, E, n)
<1>2. PICK V \in SUBSET (1..n) : V = World(A) BY DEF Sweeping!WorldFor, Sweeping!WorldAt
<1>3. PICK W \in SUBSET V : W = World(B) BY <1>2 DEF Sweeping!WorldFor, Sweeping!WorldAt
<1>4. PICK U \in SUBSET W : U = World(T) BY <1>3 DEF Sweeping!WorldFor, Sweeping!WorldAt
<1>5. /\ Holds(rc, V, e) /\ ~ Sweeping!Bars(rc, V, e.by)
      /\ ~ (Holds(rc, W, e) /\ ~ Sweeping!Bars(rc, W, e.by))
      /\ Holds(rc, U, e) /\ ~ Sweeping!Bars(rc, U, e.by)
  BY <1>1, <1>2, <1>3, <1>4, AdmitsIs DEF Sweeping!Falls
<1>6. ~ Holds(rc, W, e) BY <1>5 DEF Sweeping!Bars
<1>7. V \cap Sweeping!OverturnedTargets(rc) = {} BY <1>2 DEF Sweeping!WorldFor, Sweeping!WorldAt
<1>8. PICK z \in V \ W : rc[z].kind \in {"grant", "handover"} /\ Holds(rc, U \cup {z}, e)
  BY <1>5, <1>6, <1>7, WhatItLost
<1>9. ~ Sweeping!IsLaw(rc[z]) BY <1>8 DEF Sweeping!IsLaw
<1>10. z \in 1..n /\ z \notin A /\ z < x /\ z \in B
  BY <1>2, <1>3, <1>8, <1>9 DEF Sweeping!WorldFor, Sweeping!WorldAt
<1>11. World(T \ {z}) = U \cup {z}
  BY <1>4, <1>9, <1>10 DEF Sweeping!WorldFor, Sweeping!WorldAt
<1>12. ~ Sweeping!Bars(rc, U \cup {z}, e.by) BY <1>5, <1>9 DEF Sweeping!Bars
<1>13. ~ Sweeping!Falls(rc, x, T \ {z}, n)
  BY <1>1, <1>8, <1>11, <1>12, AdmitsIs DEF Sweeping!Falls
<1> QED BY <1>10, <1>13

(* The return of a later act restores an act only if nothing had to.        *)
LEMMA LaterReturnsAreIdle ==
  ASSUME NEW rc, NEW n \in Nat, n <= Len(rc), Len(rc) \in Nat, NEW x \in Nat, NEW m \in Nat, x < m,
         NEW T, Sweeping!OverturnedTargets(rc) \subseteq T \ {m},
         ~ Sweeping!Falls(rc, x, T \ {m}, n)
  PROVE  ~ Sweeping!Falls(rc, x, T, n)
<1>1. PICK e : e = rc[x] OBVIOUS
<1>2. PICK V \in SUBSET (1..n) : V = Sweeping!WorldFor(rc, x, T \ {m}, n)
  BY DEF Sweeping!WorldFor, Sweeping!WorldAt
<1>3. PICK W \in SUBSET V : W = Sweeping!WorldFor(rc, x, T, n)
  BY <1>2 DEF Sweeping!WorldFor, Sweeping!WorldAt
<1>4. \A s \in V : s \notin W => Sweeping!IsLaw(rc[s])
  <2>1. ~ (m < x) OBVIOUS
  <2>2. \A s \in V : s \notin W => s = m BY <1>2, <1>3 DEF Sweeping!WorldFor, Sweeping!WorldAt
  <2>3. m \in V => Sweeping!IsLaw(rc[m]) BY <1>2, <2>1 DEF Sweeping!WorldFor, Sweeping!WorldAt
  <2> QED BY <2>2, <2>3
<1>5. Holds(rc, V, e) /\ ~ Sweeping!Bars(rc, V, e.by)
  BY <1>1, <1>2, AdmitsIs DEF Sweeping!Falls
<1>6. ~ Sweeping!Bars(rc, W, e.by) BY <1>5 DEF Sweeping!Bars
<1>7. Holds(rc, W, e)
  <2> SUFFICES ASSUME ~ Holds(rc, W, e) PROVE FALSE OBVIOUS
  <2>1. V \cap Sweeping!OverturnedTargets(rc) = {} BY <1>2 DEF Sweeping!WorldFor, Sweeping!WorldAt
  <2>2. PICK z \in V \ W : rc[z].kind \in {"grant", "handover"} /\ Holds(rc, W \cup {z}, e)
    <3>1. W \in SUBSET W OBVIOUS
    <3> QED BY <3>1, <1>5, <2>1, WhatItLost
  <2> QED BY <2>2, <1>4 DEF Sweeping!IsLaw
<1> QED BY <1>1, <1>3, <1>6, <1>7, AdmitsIs DEF Sweeping!Falls

(* What an overturn cites fell with it, and was recorded before it.         *)
LEMMA LeastIs ==
  ASSUME NEW S \in SUBSET Nat, S # {}
  PROVE  Sweeping!Min(S) \in S /\ \A k \in S : Sweeping!Min(S) <= k
<1>1. PICK m \in S : \A k \in S : m <= k BY LeastOf
<1> QED BY <1>1 DEF Sweeping!Min

LEMMA CitesWhatFell ==
  ASSUME NEW rc, NEW n \in Nat, Len(rc) = n, NEW x \in Sweeping!Computed(rc, n, n)
  PROVE  \/ Sweeping!Reaching(rc, n, x) = n
         \/ /\ Sweeping!Reaching(rc, n, x) \in Sweeping!Computed(rc, n, n)
            /\ Sweeping!Reaching(rc, n, x) < x
<1>1. PICK c : /\ InRounds(rc, n, n, Sweeping!Rounds(rc, n, n), c)
               /\ Sweeping!Computed(rc, n, n) = Sweeping!Rounds(rc, n, n)[c]
  BY TheRounds
<1>2. PICK out : out = Sweeping!Rounds(rc, n, n) OBVIOUS
<1>3. PICK OT : OT = Sweeping!OverturnedTargets(rc) OBVIOUS
<1>4. /\ c \in Nat /\ DOMAIN out = 0..c /\ out[0] = {}
      /\ \A k \in 0..c : out[k] \subseteq Sweeping!Candidates(rc, n)
      /\ \A k \in 1..c : out[k] = out[k-1] \cup Down(rc, n, n, out[k-1])
      /\ x \in out[c]
  BY <1>1, <1>2 DEF InRounds
<1>5. x \in Sweeping!Candidates(rc, n) /\ x \in 1..(n-1) /\ Sweeping!Candidates(rc, n) \cap OT = {}
      /\ Sweeping!Candidates(rc, n) \subseteq 1..(n-1)
  <2>1. x \in Sweeping!Candidates(rc, n) /\ Sweeping!Candidates(rc, n) \cap OT = {}
    BY <1>3, FallenArePast DEF Sweeping!Candidates
  <2> QED BY <2>1, CandidatesArePast
<1>6. PICK S \in SUBSET Nat : S = {i \in DOMAIN out : x \in out[i]}
  <2>1. 0..c \subseteq Nat BY <1>4
  <2>2. {i \in DOMAIN out : x \in out[i]} \in SUBSET Nat BY <1>4, <2>1
  <2> QED BY <2>2
<1>7. PICK k : k = Sweeping!Min(S) OBVIOUS
<1>8. k \in 0..c /\ x \in out[k] /\ \A i \in 0..c : x \in out[i] => k <= i
  <2>1. c \in S BY <1>4, <1>6
  <2>2. k \in S /\ \A i \in S : k <= i BY <2>1, <1>7, LeastIs
  <2> QED BY <2>2, <1>4, <1>6
<1>9. k \in 1..c /\ k - 1 \in 0..c /\ x \notin out[k-1]
  <2>1. k # 0 BY <1>4, <1>8
  <2>2. c \in Nat /\ k \in 0..c BY <1>4, <1>8
  <2>3. k \in 1..c /\ k - 1 \in 0..c /\ ~ (k <= k - 1) BY <2>1, <2>2
  <2> QED BY <2>3, <1>8
<1>10. PICK before : before = out[k-1] OBVIOUS
<1>11. PICK taken : taken = before \cup {y \in out[k] : y < x} OBVIOUS
<1>12. PICK restores : restores = {y \in before : ~ Sweeping!Falls(rc, x, (taken \cup OT) \ {y}, n)}
  OBVIOUS
<1>13. Sweeping!Reaching(rc, n, x) = IF restores = {} THEN n ELSE Sweeping!Min(restores)
  BY <1>2, <1>3, <1>6, <1>7, <1>10, <1>11, <1>12 DEF Sweeping!Reaching
<1>14. before \subseteq Sweeping!Computed(rc, n, n) /\ before \subseteq Sweeping!Candidates(rc, n)
  BY <1>1, <1>2, <1>4, <1>9, <1>10, RoundsGrow
<1>15. CASE restores = {} BY <1>13, <1>15
<1>16. CASE restores # {}
  <2>1. PICK m : m = Sweeping!Min(restores) OBVIOUS
  <2>2. restores \in SUBSET Nat /\ restores \subseteq before
    <3>1. restores \subseteq before BY <1>12
    <3>2. before \subseteq 1..(n-1) BY <1>5, <1>14
    <3>3. 1..(n-1) \subseteq Nat OBVIOUS
    <3> QED BY <3>1, <3>2, <3>3
  <2>3. m \in restores /\ m \in Nat /\ \A y \in restores : m <= y BY <1>16, <2>1, <2>2, LeastIs
  <2>4. m \in before /\ m # x BY <2>2, <2>3, <1>9, <1>10
  <2>5. m < x
    <3> SUFFICES ASSUME x < m PROVE FALSE BY <2>3, <2>4, <1>5
    <3>1. ~ Sweeping!Falls(rc, x, taken \cup OT, n)
      <4>1. ~ Sweeping!Falls(rc, x, (taken \cup OT) \ {m}, n) BY <2>3, <1>12
      <4>2. m \notin OT BY <2>4, <1>5, <1>14
      <4>3. OT \subseteq (taken \cup OT) \ {m} BY <4>2
      <4>4. PICK T : T = taken \cup OT OBVIOUS
      <4>5. ~ Sweeping!Falls(rc, x, T, n) BY <4>1, <4>3, <4>4, <1>3, <1>5, <2>3, LaterReturnsAreIdle
      <4> QED BY <4>4, <4>5
    <3>2. k # 1 BY <2>4, <1>4, <1>10
    <3>3. k - 1 \in 1..c /\ k - 2 \in 0..c /\ (k - 1) - 1 = k - 2 BY <3>2, <1>4, <1>9
    <3>4. PICK less : less = out[k-2] OBVIOUS
    <3>5. before = less \cup Down(rc, n, n, less) BY <3>3, <3>4, <1>4, <1>10
    <3>6. ~ Sweeping!Falls(rc, x, OT \cup less, n) BY <3>5, <1>3, <1>5, <1>9, <1>10 DEF Down
    <3>7. Sweeping!Falls(rc, x, OT \cup before, n)
      <4>1. out[k] = before \cup Down(rc, n, n, before) BY <1>4, <1>9, <1>10
      <4> QED BY <4>1, <1>3, <1>8, <1>9, <1>10 DEF Down
    <3>8. PICK z \in (OT \cup before) \ (OT \cup less) :
             z < x /\ ~ Sweeping!Falls(rc, x, (taken \cup OT) \ {z}, n)
      <4>1. OT \cup less \subseteq OT \cup before /\ OT \cup before \subseteq taken \cup OT
            /\ OT \subseteq OT \cup less
        BY <3>5, <1>11
      <4>2. n <= Len(rc) /\ Len(rc) \in Nat OBVIOUS
      <4> QED BY <4>1, <4>2, <3>1, <3>6, <3>7, <1>3, SupportRestores
    <3>9. z \in restores BY <3>8, <1>12
    <3>10. m <= z /\ z \in Nat BY <3>9, <2>2, <2>3
    <3> QED BY <3>8, <3>10, <2>3, <1>5
  <2> QED BY <1>13, <1>14, <1>16, <2>1, <2>4, <2>5
<1> QED BY <1>15, <1>16

-----------------------------------------------------------------------------
(* The record as a law found it, and what fell to that law.                 *)
First(rc, n) == SubSeq(rc, 1, n)
Fell(rc, n)  == Sweeping!Computed(First(rc, n), n, n)

(* What a law found is the record up to it, and stays so.                   *)
LEMMA FirstIs ==
  ASSUME NEW rc, IsRecord(rc), NEW n \in 0..Len(rc)
  PROVE  /\ IsRecord(First(rc, n)) /\ n \in Nat /\ Len(First(rc, n)) = n
         /\ \A k \in 1..n : First(rc, n)[k] = rc[k]
<1>1. PICK S : rc \in Seq(S) BY DEF IsRecord
<1>2. Len(rc) \in Nat BY <1>1
<1>3. \A k \in 1..n : rc[k] \in S BY <1>1, <1>2
<1>4. First(rc, n) \in Seq(S) BY <1>1, <1>3 DEF First
<1>5. Len(First(rc, n)) = n BY <1>1, <1>2 DEF First
<1>6. \A k \in 1..n : First(rc, n)[k] = rc[k] BY <1>1, <1>2 DEF First
<1> QED BY <1>2, <1>4, <1>5, <1>6 DEF IsRecord

FirstsAlike(rc, new) ==
  /\ \A n \in 0..Len(rc) : First(new, n) = First(rc, n) /\ Fell(new, n) = Fell(rc, n)
  /\ First(new, Len(new)) = new

LEMMA FirstStays ==
  ASSUME NEW rc, IsRecord(rc), NEW row, NEW new, new = Append(rc, row)
  PROVE  FirstsAlike(rc, new)
<1>1. PICK S : rc \in Seq(S) BY DEF IsRecord
<1>2. /\ IsRecord(new) /\ Len(rc) \in Nat /\ Len(new) = Len(rc) + 1
      /\ \A k \in 1..Len(rc) : new[k] = rc[k]
  BY RowAppended
<1>3. ASSUME NEW n \in 0..Len(rc) PROVE First(new, n) = First(rc, n)
  <2>1. \A k \in 1..n : new[k] = rc[k] BY <1>2
  <2>2. First(new, n) = [k \in 1..n |-> new[k]] BY <1>2 DEF First
  <2>3. First(rc, n) = [k \in 1..n |-> rc[k]] BY <1>2 DEF First
  <2> QED BY <2>1, <2>2, <2>3
<1>4. First(new, Len(new)) = new
  <2>1. PICK T : new \in Seq(T) BY <1>2 DEF IsRecord
  <2> QED BY <2>1, SubSeqFull DEF First
<1> QED BY <1>3, <1>4 DEF Fell, FirstsAlike

(* Every late law's sweep was withheld whole, or reached all that fell; an  *)
(* overturn is of what fell to its law, follows it with nothing but         *)
(* overturns between, and cites its law or an earlier overturn of that law. *)
Withheld(rc, sw, n) ==
  /\ \A k \in Overturns(rc) : rc[k].law # n
  /\ \A o \in sw : o.law # n
  /\ \/ Fell(rc, n) = {}
     \/ ~ Sweeping!AnchorHolds(First(rc, n), Fell(rc, n) \cup Sweeping!OverturnedTargets(First(rc, n)))

CarriedOut(rc, sw, n) ==
  \A x \in Fell(rc, n) : \/ \E k \in Overturns(rc) : rc[k].law = n /\ rc[k].of = x
                         \/ \E o \in sw : o.law = n /\ o.of = x

Follows(rc, k) ==
  /\ rc[k].of \in Fell(rc, rc[k].law)
  /\ \A m \in (rc[k].law + 1)..k : m \in Overturns(rc)

Cites(rc, k) ==
  rc[k].reach # rc[k].law =>
    \E j \in Overturns(rc) : rc[j].of = rc[k].reach /\ rc[j].law = rc[k].law /\ rc[j].of < rc[k].of

ToCite(rc, o) ==
  /\ o.sweep = Fell(rc, o.law)
  /\ o.reach = o.law \/ (o.reach \in o.sweep /\ o.reach < o.of)

Told(rc, sw, cut) ==
  /\ \A k \in Overturns(rc) : Follows(rc, k) /\ Cites(rc, k)
  /\ \A o \in sw : ToCite(rc, o)
  /\ ~ cut => \A n \in Sweeping!LateLaws(rc) : Withheld(rc, sw, n) \/ CarriedOut(rc, sw, n)

(* A law that lands leaves its sweep to do, or withholds it whole.          *)
LEMMA RowIsTold ==
  ASSUME NEW rc, NEW cut, Swept(rc, {}, cut), Told(rc, {}, cut), NEW row, row.kind # "overturn",
         NEW new, new = Append(rc, row), NEW sw, sw = Sweeping!SweepOf(new)
  PROVE  Told(new, sw, cut)
<1>1. PICK n \in Nat : n = Len(rc) BY RowAppended DEF Swept
<1>2. IsRecord(rc) /\ OfThePast(rc) /\ Stands(rc) BY DEF Swept
<1>3. IsRecord(new) /\ Len(new) = n + 1 /\ (\A k \in 1..n : new[k] = rc[k]) /\ new[n+1] = row
  BY <1>1, <1>2, RowAppended
<1>4. Overturns(new) = Overturns(rc) BY <1>2, StaysStanding
<1>5. /\ \A m \in 0..n : First(new, m) = First(rc, m) /\ Fell(new, m) = Fell(rc, m)
      /\ First(new, n+1) = new
  <2>1. FirstsAlike(rc, new) BY <1>2, FirstStays
  <2>2. Len(new) = n + 1 BY <1>3
  <2> QED BY <2>1, <2>2, <1>1 DEF FirstsAlike
<1>6. ASSUME NEW k \in Overturns(rc)
      PROVE  k \in 1..n /\ new[k] = rc[k] /\ rc[k].law \in 1..(k-1) /\ rc[k].law \in 0..n
  <2>1. k \in 1..n /\ rc[k].law \in 1..(k-1) BY <1>1, <1>2 DEF Overturns, OfThePast
  <2> QED BY <2>1, <1>3
<1>7. ASSUME NEW k \in Overturns(new) PROVE Follows(new, k) /\ Cites(new, k)
  <2>1. Follows(rc, k) /\ Cites(rc, k) BY <1>4, <1>7 DEF Told
  <2>2. Follows(new, k) BY <2>1, <1>4, <1>5, <1>6, <1>7 DEF Follows
  <2>3. Cites(new, k) BY <2>1, <1>4, <1>6, <1>7 DEF Cites
  <2> QED BY <2>2, <2>3
<1>8. PICK m \in Nat : m = n + 1 BY <1>1
<1>9. PICK fallen : fallen = Sweeping!Computed(new, m, m) OBVIOUS
<1>10. Fell(new, m) = fallen BY <1>5, <1>8, <1>9 DEF Fell
<1> DEFINE kept == Sweeping!AnchorHolds(new, fallen \cup Sweeping!OverturnedTargets(new))
           Plan(x) == [of |-> x, sweep |-> fallen, law |-> m, reach |-> Sweeping!Reaching(new, m, x)]
<1>11. sw = {} \/ (kept /\ sw = {Plan(x) : x \in fallen})
  <2>1. Len(new) = m BY <1>3, <1>8
  <2>2. sw = {} \/ sw = Sweeping!Planned(new, m) BY <2>1 DEF Sweeping!SweepOf
  <2>3. Sweeping!Planned(new, m) = IF kept THEN {Plan(x) : x \in fallen} ELSE {}
    BY <2>1, <1>9 DEF Sweeping!Planned
  <2> HIDE DEF kept, Plan
  <2> QED BY <2>2, <2>3
<1>12. ASSUME NEW o \in sw
       PROVE  /\ o.law = m /\ o.of \in fallen /\ o.sweep = fallen
              /\ o.reach = m \/ (o.reach \in fallen /\ o.reach < o.of)
  <2>1. PICK x \in fallen : o = Plan(x)
    <3> HIDE DEF Plan, kept
    <3> QED BY <1>11, <1>12
  <2>2. o.law = m /\ o.of = x /\ o.sweep = fallen /\ o.reach = Sweeping!Reaching(new, m, x) BY <2>1
  <2>3. \/ Sweeping!Reaching(new, m, x) = m
        \/ Sweeping!Reaching(new, m, x) \in fallen /\ Sweeping!Reaching(new, m, x) < x
    <3>1. Len(new) = m /\ x \in Sweeping!Computed(new, m, m) BY <1>3, <1>8, <1>9
    <3> QED BY <3>1, <1>9, CitesWhatFell
  <2> QED BY <2>2, <2>3
<1>13. \A o \in sw : ToCite(new, o) BY <1>10, <1>12 DEF ToCite
<1>14. ASSUME ~ cut, NEW l \in Sweeping!LateLaws(new)
       PROVE  Withheld(new, sw, l) \/ CarriedOut(new, sw, l)
  <2>1. CASE l \in 1..n
    <3>1. l \in Sweeping!LateLaws(rc) BY <1>1, <1>3, <1>14, <2>1 DEF Sweeping!LateLaws
    <3>2. l \in 0..n /\ First(new, l) = First(rc, l) /\ Fell(new, l) = Fell(rc, l) BY <1>5, <2>1
    <3>3. l # m BY <1>8, <2>1
    <3>4. CASE Withheld(rc, {}, l)
      <4>1. \A k \in Overturns(new) : new[k].law # l BY <3>4, <1>4, <1>6 DEF Withheld
      <4>2. \A o \in sw : o.law # l BY <3>3, <1>12
      <4>3. \/ Fell(new, l) = {}
            \/ ~ Sweeping!AnchorHolds(First(new, l),
                                      Fell(new, l) \cup Sweeping!OverturnedTargets(First(new, l)))
        BY <3>2, <3>4 DEF Withheld
      <4> QED BY <4>1, <4>2, <4>3 DEF Withheld
    <3>5. CASE CarriedOut(rc, {}, l)
      <4>1. \A x \in Fell(rc, l) : \E k \in Overturns(rc) : rc[k].law = l /\ rc[k].of = x
        BY <3>5 DEF CarriedOut
      <4>2. \A x \in Fell(new, l) : \E k \in Overturns(new) : new[k].law = l /\ new[k].of = x
        BY <4>1, <3>2, <1>4, <1>6
      <4> QED BY <4>2 DEF CarriedOut
    <3> QED BY <3>1, <3>4, <3>5, <1>14 DEF Told
  <2>2. CASE l = m
    <3>1. sw = Sweeping!Planned(new, m)
      <4>1. Len(new) = m BY <1>3, <1>8
      <4> QED BY <4>1, <1>14, <2>2 DEF Sweeping!SweepOf, Sweeping!LateLaws
    <3>2. sw = IF kept THEN {Plan(x) : x \in fallen} ELSE {}
      <4>1. Len(new) = m BY <1>3, <1>8
      <4> QED BY <3>1, <4>1, <1>9 DEF Sweeping!Planned
    <3>3. CASE kept
      <4>1. \A x : Plan(x).of = x /\ Plan(x).law = m OBVIOUS
      <4>2. \A x \in fallen : \E o \in sw : o.law = m /\ o.of = x
        <5> HIDE DEF Plan, kept
        <5>1. \A x \in fallen : Plan(x) \in sw BY <3>2, <3>3
        <5> QED BY <5>1, <4>1
      <4> HIDE DEF Plan, kept
      <4> QED BY <4>2, <2>2, <1>10 DEF CarriedOut
    <3>4. CASE ~ kept
      <4>1. sw = {}
        <5> HIDE DEF Plan, kept
        <5> QED BY <3>2, <3>4
      <4>2. \A k \in Overturns(new) : new[k].law # m
        <5>1. ASSUME NEW k \in Overturns(new) PROVE new[k].law # m
          <6>1. new[k].law \in 0..n BY <5>1, <1>4, <1>6
          <6>2. \A y \in 0..n : y # n + 1 OBVIOUS
          <6> QED BY <6>1, <6>2, <1>8
        <5> QED BY <5>1
      <4>3. ~ Sweeping!AnchorHolds(First(new, m), Fell(new, m) \cup Sweeping!OverturnedTargets(First(new, m)))
        BY <3>4, <1>5, <1>8, <1>10
      <4> QED BY <4>1, <4>2, <4>3, <2>2 DEF Withheld
    <3> QED BY <3>3, <3>4
  <2>3. l \in 1..n \/ l = m
    <3>1. l \in 1..(n+1) BY <1>3, <1>14 DEF Sweeping!LateLaws
    <3> QED BY <3>1, <1>8
  <2> QED BY <2>1, <2>2, <2>3
<1> HIDE DEF Plan, kept
<1> QED BY <1>7, <1>13, <1>14 DEF Told

(* An overturn that lands finds the one it cites already on the record.     *)
LEMMA OverturnIsTold ==
  ASSUME NEW rc, NEW sw, NEW n, NEW fallen, NEW o, NEW new, Lands(rc, sw, n, fallen, o, new),
         NEW cut, Told(rc, sw, cut), new[Len(new)].reach = o.reach, NEW rest, rest = sw \ {o}
  PROVE  Told(new, rest, cut)
<1>0. Landed(rc, n, fallen, o, new) /\ IsLanding(rc, sw, n, fallen) BY OneLands DEF Lands
<1>1. PICK len \in Nat : len = Len(rc) BY <1>0 DEF Landed
<1>2. PICK last : last = Len(new) OBVIOUS
<1>3. /\ last = len + 1 /\ n \in 1..len /\ n \in Nat /\ n \in 0..len
      /\ \A k \in 1..len : new[k] = rc[k]
      /\ new[last].kind = "overturn" /\ new[last].of = o.of /\ new[last].law = n
      /\ Overturns(new) = Overturns(rc) \cup {last}
      /\ Overturns(rc) \subseteq 1..len
      /\ o.of \in fallen /\ fallen \subseteq 1..(n-1)
  BY <1>0, <1>1, <1>2 DEF Landed
<1>4. o \in sw /\ \A p \in sw : o.of <= p.of BY DEF Lands
<1>5. /\ \A p \in sw : p.law = n /\ p.sweep = fallen /\ p.of \in fallen
      /\ \A k \in (n+1)..len : k \in Overturns(rc) /\ rc[k].law = n
      /\ \A x \in fallen : (\E k \in (n+1)..len : rc[k].of = x) \/ (\E p \in sw : p.of = x)
  BY <1>0, <1>1 DEF IsLanding, InHand
<1>6. \A m \in 0..len : First(new, m) = First(rc, m) /\ Fell(new, m) = Fell(rc, m)
  <2>1. PICK row : new = Append(rc, row) BY DEF Lands
  <2>2. IsRecord(rc) BY <1>0 DEF IsLanding
  <2>3. FirstsAlike(rc, new) BY <2>1, <2>2, FirstStays
  <2> QED BY <2>3, <1>1 DEF FirstsAlike
<1>7. ASSUME NEW k \in Overturns(rc)
      PROVE  k \in 1..len /\ new[k] = rc[k] /\ k \in Overturns(new) /\ rc[k].law \in 0..len
  <2>1. k \in 1..len /\ rc[k].law \in 1..(k-1) BY <1>0, <1>3 DEF IsLanding, OfThePast
  <2> QED BY <2>1, <1>3
<1>8. fallen = Fell(new, n)
  <2>1. o.sweep = Fell(rc, o.law) BY <1>4 DEF Told, ToCite
  <2> QED BY <2>1, <1>3, <1>4, <1>5, <1>6
<1>9. ASSUME NEW k \in Overturns(new) PROVE Follows(new, k) /\ Cites(new, k)
  <2>1. CASE k \in Overturns(rc)
    <3>1. Follows(rc, k) /\ Cites(rc, k) BY <2>1 DEF Told
    <3>2. Follows(new, k) BY <3>1, <2>1, <1>6, <1>7 DEF Follows
    <3>3. Cites(new, k) BY <3>1, <2>1, <1>7 DEF Cites
    <3> QED BY <3>2, <3>3
  <2>2. CASE k = last
    <3>1. Follows(new, last)
      <4>1. \A m \in (n+1)..last : m \in (n+1)..len \/ m = last BY <1>3
      <4>2. \A m \in (n+1)..last : m \in Overturns(new) BY <4>1, <1>3, <1>5
      <4> QED BY <4>2, <1>3, <1>8 DEF Follows
    <3>2. Cites(new, last)
      <4> SUFFICES ASSUME o.reach # n
                   PROVE  \E j \in Overturns(new) : new[j].of = o.reach /\ new[j].law = n /\ new[j].of < o.of
        BY <1>2, <1>3 DEF Cites
      <4>1. o.reach \in fallen /\ o.reach < o.of BY <1>4, <1>5 DEF Told, ToCite
      <4>2. ~ \E p \in sw : p.of = o.reach
        <5> SUFFICES ASSUME NEW p \in sw, p.of = o.reach PROVE FALSE OBVIOUS
        <5>1. o.of <= o.reach BY <1>4
        <5>2. 1..(n-1) \subseteq Nat OBVIOUS
        <5>3. o.of \in Nat /\ o.reach \in Nat BY <5>2, <4>1, <1>3
        <5> QED BY <5>1, <5>3, <4>1
      <4>3. PICK j \in (n+1)..len : rc[j].of = o.reach BY <4>1, <4>2, <1>5
      <4>4. j \in Overturns(rc) /\ rc[j].law = n BY <4>3, <1>5
      <4> QED BY <4>1, <4>3, <4>4, <1>7
    <3> QED BY <3>1, <3>2, <2>2
  <2> QED BY <2>1, <2>2, <1>3
<1>10. ASSUME NEW p \in rest PROVE ToCite(new, p)
  <2>1. ToCite(rc, p) /\ p.law = n BY <1>5 DEF Told
  <2> QED BY <2>1, <1>3, <1>6 DEF ToCite
<1>11. ASSUME ~ cut, NEW l \in Sweeping!LateLaws(new)
       PROVE  Withheld(new, rest, l) \/ CarriedOut(new, rest, l)
  <2>1. l \in 1..len /\ l \in 0..len
    <3>1. l \in 1..last /\ l # last
      BY <1>2, <1>3, <1>11 DEF Sweeping!LateLaws, Sweeping!IsLaw
    <3> QED BY <3>1, <1>3
  <2>2. l \in Sweeping!LateLaws(rc) BY <1>1, <1>3, <1>11, <2>1 DEF Sweeping!LateLaws
  <2>3. First(new, l) = First(rc, l) /\ Fell(new, l) = Fell(rc, l) BY <1>6, <2>1
  <2>4. CASE Withheld(rc, sw, l)
    <3>1. l # n BY <2>4, <1>4, <1>5 DEF Withheld
    <3>2. \A k \in Overturns(new) : new[k].law # l BY <3>1, <2>4, <1>3, <1>7 DEF Withheld
    <3>3. \A p \in rest : p.law # l BY <2>4 DEF Withheld
    <3> QED BY <3>2, <3>3, <2>3, <2>4 DEF Withheld
  <2>5. CASE CarriedOut(rc, sw, l)
    <3> SUFFICES ASSUME NEW x \in Fell(new, l)
                 PROVE  \/ \E k \in Overturns(new) : new[k].law = l /\ new[k].of = x
                        \/ \E p \in rest : p.law = l /\ p.of = x
      BY DEF CarriedOut
    <3>1. \/ \E k \in Overturns(rc) : rc[k].law = l /\ rc[k].of = x
          \/ \E p \in sw : p.law = l /\ p.of = x
      BY <2>3, <2>5 DEF CarriedOut
    <3>2. CASE \E k \in Overturns(rc) : rc[k].law = l /\ rc[k].of = x BY <3>2, <1>7
    <3>3. CASE \E p \in sw : p.law = l /\ p.of = x
      <4>1. PICK p \in sw : p.law = l /\ p.of = x BY <3>3
      <4>2. CASE p = o BY <4>1, <4>2, <1>3, <1>5
      <4>3. CASE p # o BY <4>1, <4>3
      <4> QED BY <4>2, <4>3
    <3> QED BY <3>1, <3>2, <3>3
  <2> QED BY <2>2, <2>4, <2>5, <1>11 DEF Told
<1> QED BY <1>9, <1>10, <1>11 DEF Told

-----------------------------------------------------------------------------
(* The checks say the same over worlds whose records agree, so an act of    *)
(* the first n rows falls to them alike whatever came after.                *)
LEMMA AdmitsAlike ==
  ASSUME NEW rc, NEW new, NEW n \in Nat, NEW W \in SUBSET (1..n), \A s \in W : rc[s] = new[s], NEW e
  PROVE  Sweeping!Admits(rc, W, e) <=> Sweeping!Admits(new, W, e)
<1>1. /\ Sweeping!ChainEnd(rc, W) = Sweeping!ChainEnd(new, W)
      /\ Sweeping!GrantsIn(rc, W) = Sweeping!GrantsIn(new, W)
  BY SameWorld
<1>2. \A s \in Sweeping!GrantsIn(rc, W) : rc[s] = new[s]
  BY DEF Sweeping!GrantsIn, Sweeping!Live
<1>3. Holds(rc, W, e) <=> Holds(new, W, e) BY <1>1, <1>2 DEF Holds
<1>4. Sweeping!Bars(rc, W, e.by) <=> Sweeping!Bars(new, W, e.by)
  BY DEF Sweeping!Bars, Sweeping!IsLaw
<1> QED BY <1>3, <1>4, AdmitsIs

LEMMA FallsAlike ==
  ASSUME NEW rc, NEW new, NEW n \in Nat, \A s \in 1..n : rc[s] = new[s], NEW x \in 1..n, NEW E
  PROVE  Sweeping!Falls(rc, x, E, n) <=> Sweeping!Falls(new, x, E, n)
<1>1. PICK W \in SUBSET (1..n) : W = Sweeping!WorldFor(rc, x, E, n)
  BY DEF Sweeping!WorldFor, Sweeping!WorldAt
<1>2. W = Sweeping!WorldFor(new, x, E, n)
  BY <1>1 DEF Sweeping!WorldFor, Sweeping!WorldAt, Sweeping!IsLaw, Sweeping!InForceAt
<1>3. PICK e : e = rc[x] /\ e = new[x] OBVIOUS
<1>4. \A s \in W : rc[s] = new[s] OBVIOUS
<1>5. Sweeping!Admits(rc, W, e) <=> Sweeping!Admits(new, W, e) BY <1>4, AdmitsAlike
<1> QED BY <1>1, <1>2, <1>3, <1>5 DEF Sweeping!Falls

(* When no overturn is of a later law, what is overturned is what was when  *)
(* this law arrived and what it overturned.                                 *)
LEMMA TargetsThen ==
  ASSUME NEW rc, IsRecord(rc), OfThePast(rc), \A k \in Overturns(rc) : Follows(rc, k),
         NEW n \in 1..Len(rc), n \notin Overturns(rc), \A k \in Overturns(rc) : ~ (rc[k].law > n)
  PROVE  Sweeping!OverturnedTargets(rc) =
           Sweeping!OverturnedTargets(First(rc, n))
             \cup {rc[k].of : k \in {j \in Overturns(rc) : rc[j].law = n}}
<1>1. Len(rc) \in Nat /\ n \in Nat /\ n \in 0..Len(rc) BY RowAppended
<1>2. PICK first : first = First(rc, n) OBVIOUS
<1>3. Len(first) = n /\ \A k \in 1..n : first[k] = rc[k] BY <1>1, <1>2, FirstIs
<1>4. \A k \in Overturns(rc) : k \in 1..Len(rc) BY DEF Overturns
<1>5. ASSUME NEW k \in Overturns(rc), rc[k].law # n PROVE k \in 1..n
  <2> SUFFICES ASSUME k \notin 1..n PROVE FALSE OBVIOUS
  <2>1. PICK l \in 1..(k-1) : l = rc[k].law BY <1>5 DEF OfThePast
  <2>2. k \in 1..Len(rc) /\ l < n BY <2>1, <1>1, <1>4, <1>5
  <2>3. n \in (l+1)..k BY <2>1, <2>2, <1>1
  <2> QED BY <2>1, <2>3 DEF Follows
<1>6. Overturns(first) = {k \in Overturns(rc) : k \in 1..n}
  <2>1. 1..n \subseteq 1..Len(rc) BY <1>1
  <2> QED BY <2>1, <1>3 DEF Overturns
<1>7. Sweeping!OverturnedTargets(first) = {first[k].of : k \in Overturns(first)}
  BY TargetsAre, TargetsAreOverturned
<1>8. Sweeping!OverturnedTargets(rc) = {rc[k].of : k \in Overturns(rc)}
  BY TargetsAre, TargetsAreOverturned
<1>9. \A k \in Overturns(first) : first[k].of = rc[k].of BY <1>3, <1>6
<1> QED BY <1>2, <1>5, <1>6, <1>7, <1>8, <1>9

(* What is left of a sweep that no later law's sweep followed is what the   *)
(* anchor guard was asked about, and refused.                               *)
LEMMA WhatIsLeft ==
  ASSUME NEW rc, Swept(rc, {}, FALSE), Told(rc, {}, FALSE), NEW n \in Sweeping!LateLaws(rc),
         \A k \in Overturns(rc) : ~ (rc[k].law > n),
         NEW left, left = Sweeping!Computed(rc, n, n), left # {}
  PROVE  ~ Sweeping!AnchorHolds(First(rc, n), left \cup Sweeping!OverturnedTargets(First(rc, n)))
<1>1. IsRecord(rc) /\ OfThePast(rc) BY DEF Swept
<1>2. Len(rc) \in Nat /\ n \in 1..Len(rc) /\ n \in 0..Len(rc) /\ n \in Nat
  <2>1. Len(rc) \in Nat /\ n \in 1..Len(rc) BY <1>1, RowAppended DEF Sweeping!LateLaws
  <2> QED BY <2>1
<1>3. n \notin Overturns(rc) BY DEF Sweeping!LateLaws, Sweeping!IsLaw, Overturns
<1>4. PICK first : first = First(rc, n) OBVIOUS
<1>5. IsRecord(first) /\ Len(first) = n /\ \A k \in 1..n : first[k] = rc[k]
  BY <1>1, <1>2, <1>4, FirstIs
<1>6. PICK OT : OT = Sweeping!OverturnedTargets(rc) OBVIOUS
<1>7. PICK old : old = Sweeping!OverturnedTargets(first) OBVIOUS
<1>8. PICK fell : fell = Fell(rc, n) OBVIOUS
<1>9. fell = Sweeping!Computed(first, n, n) BY <1>4, <1>8 DEF Fell
<1>10. OT = old \cup {rc[k].of : k \in {j \in Overturns(rc) : rc[j].law = n}}
  BY <1>1, <1>2, <1>3, <1>4, <1>6, <1>7, TargetsThen DEF Told
<1>11. \A x \in 1..n : \A E : Sweeping!Falls(rc, x, E, n) <=> Sweeping!Falls(first, x, E, n)
  BY <1>2, <1>5, FallsAlike
<1>12. /\ \A x : x \in Sweeping!Candidates(rc, n) =>
               x \in 1..n /\ x \notin OT /\ (x \notin old => x \in Sweeping!Candidates(first, n))
       /\ OT = old => Sweeping!Candidates(rc, n) = Sweeping!Candidates(first, n)
  <2>1. n \in 1..n /\ 1..(n-1) \subseteq 1..n BY <1>2
  <2> QED BY <2>1, <1>5, <1>6, <1>7 DEF Sweeping!Candidates
<1>13. CASE Withheld(rc, {}, n)
  <2>1. OT = old BY <1>10, <1>13 DEF Withheld
  <2>2. Sweeping!Candidates(rc, n) = Sweeping!Candidates(first, n) BY <2>1, <1>12
  <2>3. \A f : Down(rc, n, n, f) = Down(first, n, n, f)
    BY <2>1, <2>2, <1>6, <1>7, <1>11, <1>12 DEF Down
  <2>4. left = fell BY <2>2, <2>3, <1>2, <1>9, SameFallen
  <2> QED BY <2>4, <1>4, <1>8, <1>13 DEF Withheld
<1>14. CASE CarriedOut(rc, {}, n)
  <2>1. OT = old \cup fell
    <3>1. \A x \in fell : \E k \in Overturns(rc) : rc[k].law = n /\ rc[k].of = x
      BY <1>8, <1>14 DEF CarriedOut
    <3>2. \A k \in Overturns(rc) : rc[k].law = n => rc[k].of \in fell BY <1>8 DEF Told, Follows
    <3> QED BY <3>1, <3>2, <1>10
  <2>2. Down(first, n, n, fell) \subseteq fell BY <1>2, <1>9, FixedPoint
  <2>3. Down(rc, n, n, {}) = {}
    <3> SUFFICES ASSUME NEW x \in Down(rc, n, n, {}) PROVE FALSE OBVIOUS
    <3>1. x \in Sweeping!Candidates(rc, n) /\ Sweeping!Falls(rc, x, OT \cup {}, n) BY <1>6 DEF Down
    <3>2. x \in 1..n /\ x \notin OT /\ x \in Sweeping!Candidates(first, n) BY <3>1, <2>1, <1>12
    <3>3. OT \cup {} = old \cup fell BY <2>1
    <3>4. Sweeping!Falls(first, x, old \cup fell, n) BY <3>1, <3>2, <3>3, <1>11
    <3>5. x \in Down(first, n, n, fell) BY <3>2, <3>4, <1>7 DEF Down
    <3> QED BY <3>2, <3>5, <2>1, <2>2
  <2>4. left = {} BY <2>3, <1>2, NothingFalls
  <2> QED BY <2>4
<1> QED BY <1>13, <1>14 DEF Told

-----------------------------------------------------------------------------
(* Every refusal on the record keeps a draft that what was seen then does   *)
(* not admit, and every law a time that had come.                           *)
SeenBy(rc, x, d) == {s \in 1..(x-1) : Sweeping!IsLaw(rc[s]) => rc[s].d < d}

RefusedRightly(rc) ==
  \A x \in 1..Len(rc) :
    rc[x].kind = "refused" =>
      /\ rc[x].of = rc[x].draft.by
      /\ ~ Sweeping!Admits(rc, SeenBy(rc, x, rc[x].draft.d), rc[x].draft)

LawsInTime(rc, time) == \A s \in 1..Len(rc) : Sweeping!IsLaw(rc[s]) => rc[s].d \in 0..time

IsRequest(e, time) ==
  /\ e = Sweeping!Entry(e.kind, e.by, e.of, e.d)
  /\ e.kind \notin {"overturn", "refused"} /\ e.d \in 0..time

HeldInTime(q, time) == \E S : q \in Seq(S) /\ \A e \in S : IsRequest(e, time)

(* A row that is no refusal, or a rightful one, keeps it so.                *)
LEMMA RowIsInTime ==
  ASSUME NEW rc, IsRecord(rc), NEW row, NEW new, new = Append(rc, row), NEW time,
         RefusedRightly(rc), LawsInTime(rc, time),
         row.kind = "refused" =>
           /\ row.of = row.draft.by
           /\ ~ Sweeping!Admits(rc, SeenBy(rc, Len(rc) + 1, row.draft.d), row.draft),
         Sweeping!IsLaw(row) => row.d \in 0..time
  PROVE  RefusedRightly(new) /\ LawsInTime(new, time)
<1>1. PICK n \in Nat : n = Len(rc) BY RowAppended
<1>2. Len(new) = n + 1 /\ (\A k \in 1..n : new[k] = rc[k]) /\ new[n+1] = row BY <1>1, RowAppended
<1>3. LawsInTime(new, time)
  <2>1. \A s \in 1..Len(new) : s \in 1..n \/ s = n + 1 BY <1>2
  <2> QED BY <2>1, <1>1, <1>2 DEF LawsInTime
<1>4. ASSUME NEW x \in 1..(n+1), new[x].kind = "refused"
      PROVE  /\ new[x].of = new[x].draft.by
             /\ ~ Sweeping!Admits(new, SeenBy(new, x, new[x].draft.d), new[x].draft)
  <2>1. PICK e : e = new[x].draft OBVIOUS
  <2>2. 1..(x-1) \subseteq 1..n /\ x \in Nat OBVIOUS
  <2>3. PICK W \in SUBSET (1..n) : W = SeenBy(rc, x, e.d) BY <2>2 DEF SeenBy
  <2>4. SeenBy(new, x, e.d) = W BY <2>2, <2>3, <1>2 DEF SeenBy, Sweeping!IsLaw
  <2>5. \A s \in W : rc[s] = new[s] BY <1>2
  <2>6. Sweeping!Admits(rc, W, e) <=> Sweeping!Admits(new, W, e) BY <2>5, AdmitsAlike
  <2>7. new[x].of = e.by /\ ~ Sweeping!Admits(rc, W, e)
    <3>1. CASE x = n + 1 BY <3>1, <2>1, <2>3, <1>1, <1>2, <1>4
    <3>2. CASE x # n + 1
      <4>1. x \in 1..n /\ new[x] = rc[x] BY <3>2, <1>2
      <4> QED BY <4>1, <2>1, <2>3, <1>1, <1>4 DEF RefusedRightly
    <3> QED BY <3>1, <3>2
  <2> QED BY <2>1, <2>4, <2>6, <2>7
<1>5. RefusedRightly(new) BY <1>2, <1>4 DEF RefusedRightly
<1> QED BY <1>3, <1>5

(* A draft is admitted again only where a law against its actor or a        *)
(* handover is left out.                                                    *)
LEMMA ReasonToAsk ==
  ASSUME NEW rc, IsRecord(rc), OfThePast(rc), \A k \in Overturns(rc) : Follows(rc, k),
         RefusedRightly(rc), NEW law \in 1..Len(rc), NEW x \in Sweeping!RefusalCandidates(rc, law),
         NEW out, out = Sweeping!OverturnsOfLaw(rc, law),
         Sweeping!Admits(rc, Sweeping!WorldAt(rc, rc[x].draft.d, x, out, Len(rc)), rc[x].draft)
  PROVE  \E s \in out : /\ s < x
                        /\ \/ rc[s].kind = "handover"
                           \/ Sweeping!IsLaw(rc[s]) /\ rc[s].of = rc[x].of
<1>1. PICK n \in Nat : n = Len(rc) BY RowAppended
<1>2. PICK e : e = rc[x].draft OBVIOUS
<1>3. x \in 1..n /\ rc[x].kind = "refused" /\ 1..(x-1) \subseteq 1..n
  <2>1. x \in 1..(law-1) /\ rc[x].kind = "refused" /\ law \in 1..n
    BY <1>1 DEF Sweeping!RefusalCandidates
  <2> QED BY <2>1
<1>4. PICK W \in SUBSET (1..n) : W = SeenBy(rc, x, e.d) BY <1>3 DEF SeenBy
<1>5. PICK V \in SUBSET (1..n) : V = Sweeping!WorldAt(rc, e.d, x, out, n) BY DEF Sweeping!WorldAt
<1>6. rc[x].of = e.by /\ ~ Sweeping!Admits(rc, W, e) /\ Sweeping!Admits(rc, V, e)
  BY <1>1, <1>2, <1>3, <1>4, <1>5 DEF RefusedRightly
<1> SUFFICES ASSUME \A s \in out : s < x => /\ rc[s].kind # "handover"
                                          /\ ~ (Sweeping!IsLaw(rc[s]) /\ rc[s].of = e.by)
             PROVE  FALSE
  BY <1>6
<1>7. \A s \in out : rc[s].kind # "overturn"
  <2> SUFFICES ASSUME NEW k \in Overturns(rc), rc[k].law = law
               PROVE  rc[rc[k].of].kind # "overturn"
    BY DEF Sweeping!OverturnsOfLaw, Overturns
  <2>1. law \in Nat /\ law \in 0..Len(rc) BY <1>1
  <2>2. PICK s : s = rc[k].of OBVIOUS
  <2>3. s \in Sweeping!Computed(First(rc, law), law, law) BY <2>2 DEF Follows, Fell
  <2>4. s \in Sweeping!Candidates(First(rc, law), law) /\ s \in 1..(law-1)
    BY <2>1, <2>3, FallenArePast
  <2>5. First(rc, law)[s].kind # "overturn" BY <2>4 DEF Sweeping!Candidates
  <2>6. s \in 1..law BY <2>1, <2>4
  <2>7. First(rc, law)[s] = rc[s] BY <2>1, <2>6, FirstIs
  <2> QED BY <2>2, <2>5, <2>7
<1>8. /\ \A s \in V : ~ Sweeping!IsLaw(rc[s]) => s \in W
      /\ \A s \in W : s < x /\ (s \notin out => s \in V)
  BY <1>3, <1>4, <1>5 DEF SeenBy, Sweeping!WorldAt, Sweeping!InForceAt
<1>9. ~ Sweeping!Bars(rc, W, e.by)
  <2>1. ~ Sweeping!Bars(rc, V, e.by) BY <1>6, AdmitsIs
  <2> QED BY <2>1, <1>8 DEF Sweeping!Bars
<1>10. Handovers(rc, W) = Handovers(rc, V) BY <1>8 DEF Handovers, Sweeping!IsLaw
<1>11. Sweeping!GrantsIn(rc, V) \subseteq Sweeping!GrantsIn(rc, W)
  <2>1. Sweeping!OverturnedIn(rc, W) \subseteq Sweeping!OverturnedIn(rc, V)
    BY <1>7, <1>8 DEF Sweeping!OverturnedIn
  <2> QED BY <2>1, <1>8 DEF Sweeping!GrantsIn, Sweeping!Live, Sweeping!IsLaw
<1>12. Holds(rc, W, e)
  <2>1. Holds(rc, V, e) BY <1>6, AdmitsIs
  <2>2. Sweeping!ChainEnd(rc, W) = Sweeping!ChainEnd(rc, V) BY <1>10, ChainEndIs
  <2> QED BY <2>1, <2>2, <1>11 DEF Holds
<1> QED BY <1>6, <1>9, <1>12, AdmitsIs

-----------------------------------------------------------------------------
(* The whole of it: what is told of the sweeps, and what the record holds   *)
(* of refusals and of times.                                                *)
CompleteInvariant ==
  /\ SweepInvariant
  /\ Told(rec, sweep, crashed)
  /\ RefusedRightly(rec) /\ LawsInTime(rec, now)
  /\ now \in 0..MaxTime /\ HeldInTime(queue, now)

(* Before the first act there is nothing to say.                            *)
LEMMA CompletenessBegins ==
  ASSUME MaxTime \in Nat, Sweeping!Init
  PROVE  CompleteInvariant
<1>1. rec = << >> /\ now = 0 /\ sweep = {} /\ queue = << >> /\ crashed = FALSE BY DEF Sweeping!Init
<1>2. 1..Len(rec) = {} BY <1>1
<1>3. Told(rec, sweep, crashed) BY <1>1, <1>2 DEF Told, Overturns, Sweeping!LateLaws
<1>4. RefusedRightly(rec) /\ LawsInTime(rec, now) BY <1>2 DEF RefusedRightly, LawsInTime
<1>5. HeldInTime(queue, now)
  <2>1. << >> \in Seq({}) OBVIOUS
  <2> QED BY <2>1, <1>1 DEF HeldInTime
<1>6. now \in 0..MaxTime BY <1>1
<1> QED BY <1>3, <1>4, <1>5, <1>6, SweepsBegin DEF CompleteInvariant

(* An answer at the door is told as one: a law with its sweep, a refusal    *)
(* with the draft as it was seen.                                           *)
LEMMA AnswersAreTold ==
  ASSUME Swept(rec, sweep, crashed), Told(rec, sweep, crashed), RefusedRightly(rec),
         LawsInTime(rec, now), now \in 0..MaxTime, MaxTime \in Nat,
         sweep = {}, crashed' = crashed, now' = now, NEW e, IsRequest(e, now),
         \/ Sweeping!Accept(e)
         \/ Sweeping!Refuse(e) /\ (Len(rec) < MaxRec => ~ Sweeping!Admits(rec, Sweeping!DoorWorld(e), e))
  PROVE  Told(rec', sweep', crashed') /\ RefusedRightly(rec') /\ LawsInTime(rec', now)
<1>1. IsRecord(rec) BY DEF Swept
<1>2. e.kind \notin {"overturn", "refused"} /\ e.d \in 0..now BY DEF IsRequest
<1>3. CASE Sweeping!Accept(e)
  <2>1. PICK row : row = Sweeping!Stamped(e, now) OBVIOUS
  <2>2. rec' = Append(rec, row) /\ sweep' = Sweeping!SweepOf(rec') BY <2>1, <1>3 DEF Sweeping!Accept
  <2>3. row.kind = e.kind /\ row.d = e.d BY <2>1 DEF Sweeping!Stamped
  <2>4. Told(rec', sweep', crashed') BY <2>2, <2>3, <1>2, RowIsTold
  <2>5. RefusedRightly(rec') /\ LawsInTime(rec', now) BY <2>2, <2>3, <1>1, <1>2, RowIsInTime
  <2> QED BY <2>4, <2>5
<1>4. CASE Sweeping!Refuse(e) /\ (Len(rec) < MaxRec => ~ Sweeping!Admits(rec, Sweeping!DoorWorld(e), e))
  <2>1. CASE rec' = rec BY <2>1, <1>4 DEF Sweeping!Refuse
  <2>2. CASE rec' # rec
    <3>1. PICK draft : draft = IF e.d = now THEN [e EXCEPT !.d = Sweeping!Undated] ELSE e OBVIOUS
    <3>2. PICK row : row = [kind |-> "refused", by |-> Sweeping!System, of |-> e.by, d |-> now, r |-> now,
                            draft |-> draft]
      OBVIOUS
    <3>3. Len(rec) < MaxRec /\ rec' = Append(rec, row) /\ sweep' = {}
      BY <2>2, <3>1, <3>2, <1>4 DEF Sweeping!Refuse
    <3>4. row.kind = "refused" /\ row.of = e.by /\ row.draft = draft BY <3>2
    <3>5. /\ draft.by = e.by /\ draft.kind = e.kind
          /\ draft.d = IF e.d = now THEN MaxTime + 1 ELSE e.d
      <4>1. e = [kind |-> e.kind, by |-> e.by, of |-> e.of, d |-> e.d] BY DEF IsRequest, Sweeping!Entry
      <4>2. PICK k, b, o, d : e = [kind |-> k, by |-> b, of |-> o, d |-> d] BY <4>1
      <4> QED BY <3>1, <4>2 DEF Sweeping!Undated
    <3>6. PICK n \in Nat : n = Len(rec) BY <1>1, RowAppended
    <3>7. SeenBy(rec, n + 1, draft.d) = Sweeping!DoorWorld(e)
      <4>1. (n + 1) - 1 = n BY <3>6
      <4>2. ASSUME NEW s \in 1..n, Sweeping!IsLaw(rec[s])
            PROVE  rec[s].d < draft.d <=> (e.d < now => rec[s].d < e.d)
        <5>1. PICK d \in 0..now : d = rec[s].d BY <4>2, <3>6 DEF LawsInTime
        <5>2. PICK f \in 0..now : f = e.d BY <1>2
        <5>3. CASE f = now
          <6>1. draft.d = MaxTime + 1 BY <5>2, <5>3, <3>5
          <6>2. d < MaxTime + 1 /\ ~ (f < now) BY <5>3
          <6> QED BY <6>1, <6>2, <5>1, <5>2
        <5>4. CASE f # now
          <6>1. draft.d = f BY <5>2, <5>4, <3>5
          <6>2. f < now BY <5>4
          <6> QED BY <6>1, <6>2, <5>1, <5>2
        <5> QED BY <5>3, <5>4
      <4> QED BY <4>1, <4>2, <3>6 DEF SeenBy, Sweeping!DoorWorld, Sweeping!InForceAt
    <3>8. ~ Sweeping!Admits(rec, SeenBy(rec, Len(rec) + 1, row.draft.d), row.draft)
      <4>1. ~ Sweeping!Admits(rec, Sweeping!DoorWorld(e), e) BY <3>3, <1>4
      <4>2. \A W : Sweeping!Admits(rec, W, e) <=> Sweeping!Admits(rec, W, draft)
        BY <3>5 DEF Sweeping!Admits
      <4> QED BY <4>1, <4>2, <3>4, <3>6, <3>7
    <3>9. RefusedRightly(rec') /\ LawsInTime(rec', now)
      <4>1. ~ Sweeping!IsLaw(row) BY <3>4 DEF Sweeping!IsLaw
      <4>2. row.of = row.draft.by BY <3>4, <3>5
      <4> QED BY <4>1, <4>2, <3>3, <3>8, <1>1, RowIsInTime
    <3>10. sweep' = Sweeping!SweepOf(rec')
      <4>1. rec'[Len(rec')] = row BY <3>3, <1>1, RowAppended
      <4> QED BY <4>1, <3>3, <3>4 DEF Sweeping!SweepOf, Sweeping!IsLaw
    <3>11. Told(rec', sweep', crashed') BY <3>3, <3>4, <3>10, RowIsTold
    <3> QED BY <3>9, <3>11
  <2> QED BY <2>1, <2>2
<1> QED BY <1>3, <1>4

(* An overturn that lands is told with what it cites (Gate._maybe_sweep).   *)
LEMMA CommitsAreTold ==
  ASSUME Swept(rec, sweep, crashed), Told(rec, sweep, crashed), RefusedRightly(rec),
         LawsInTime(rec, now), Sweeping!Commit
  PROVE  Told(rec', sweep', crashed') /\ RefusedRightly(rec') /\ LawsInTime(rec', now)
<1>1. PICK o \in sweep :
        /\ \A p \in sweep : o.of <= p.of
        /\ IF Sweeping!AnchorHolds(rec, o.sweep \cup Sweeping!OverturnedTargets(rec))
           THEN rec' = Append(rec, Sweeping!Overturn(o)) /\ sweep' = sweep \ {o}
           ELSE rec' = rec /\ sweep' = {}
  BY DEF Sweeping!Commit
<1>2. PICK n \in 1..Len(rec) : \E f \in SUBSET (1..(n-1)) : InHand(rec, sweep, n, f)
  BY <1>1 DEF Swept
<1>3. PICK fallen \in SUBSET (1..(n-1)) : InHand(rec, sweep, n, fallen) BY <1>2
<1>4. IsLanding(rec, sweep, n, fallen) BY <1>2, <1>3 DEF IsLanding, Swept
<1>5. o.sweep = fallen /\ o.law = n BY <1>1, <1>3 DEF InHand
<1>6. Sweeping!AnchorHolds(rec, fallen \cup Sweeping!OverturnedTargets(rec)) BY <1>4, GuardHolds
<1>7. rec' = Append(rec, Sweeping!Overturn(o)) /\ sweep' = sweep \ {o} BY <1>1, <1>5, <1>6
<1>8. PICK row : row = Sweeping!Overturn(o) OBVIOUS
<1>9. /\ row.kind = "overturn" /\ row.of = o.of /\ row.law = n /\ row.sweep = fallen
      /\ row.reach = o.reach
  BY <1>5, <1>8 DEF Sweeping!Overturn
<1>10. Lands(rec, sweep, n, fallen, o, rec') BY <1>1, <1>4, <1>7, <1>8, <1>9 DEF Lands
<1>11. IsRecord(rec) BY DEF Swept
<1>12. rec'[Len(rec')] = row BY <1>7, <1>8, <1>11, RowAppended
<1>13. Told(rec', sweep \ {o}, crashed) BY <1>9, <1>10, <1>12, OverturnIsTold
<1>14. RefusedRightly(rec') /\ LawsInTime(rec', now)
  BY <1>7, <1>8, <1>9, <1>11, RowIsInTime DEF Sweeping!IsLaw
<1>15. crashed' = crashed BY DEF Sweeping!Commit
<1> QED BY <1>7, <1>13, <1>14, <1>15

(* No step of the gate, and no crash, takes it away.                        *)
LEMMA CompletenessGoesOn ==
  ASSUME {"overturn", "refused"} \cap Kinds = {}, MaxTime \in Nat,
         CompleteInvariant, [Sweeping!Next]_(Sweeping!vars)
  PROVE  CompleteInvariant'
<1> DEFINE Rest == /\ Told(rec, sweep, crashed) /\ RefusedRightly(rec) /\ LawsInTime(rec, now)
                   /\ now \in 0..MaxTime /\ HeldInTime(queue, now)
<1>1. SweepInvariant' BY SweepsGoOn DEF CompleteInvariant
<1>2. Swept(rec, sweep, crashed) /\ Rest BY DEF CompleteInvariant, SweepInvariant
<1>3. CASE Sweeping!Tick
  <2>1. now' = now + 1 /\ now < MaxTime /\ UNCHANGED <<rec, sweep, queue, crashed>>
    BY <1>3 DEF Sweeping!Tick
  <2>2. now' \in 0..MaxTime /\ 0..now \subseteq 0..now' BY <2>1, <1>2
  <2>3. LawsInTime(rec, now') BY <2>2, <1>2 DEF LawsInTime
  <2>4. HeldInTime(queue, now') BY <2>2, <1>2 DEF HeldInTime, IsRequest
  <2>5. Rest' BY <2>1, <2>2, <2>3, <2>4, <1>2
  <2> QED BY <2>5, <1>1 DEF CompleteInvariant
<1>4. CASE Sweeping!Act
  <2>1. PICK e \in Sweeping!Requests :
          IF Sweeping!Admits(rec, Sweeping!DoorWorld(e), e) THEN Sweeping!Accept(e) ELSE Sweeping!Refuse(e)
    BY <1>4 DEF Sweeping!Act
  <2>2. IsRequest(e, now)
    <3>1. PICK k \in Kinds, b \in Accounts, o \in Accounts, d \in 0..now : e = Sweeping!Entry(k, b, o, d)
      BY <2>1 DEF Sweeping!Requests
    <3>2. e.kind = k /\ e.by = b /\ e.of = o /\ e.d = d BY <3>1 DEF Sweeping!Entry
    <3> QED BY <3>1, <3>2 DEF IsRequest
  <2>3. sweep = {} /\ crashed' = crashed /\ queue' = queue /\ now' = now BY <1>4 DEF Sweeping!Act
  <2>4. Told(rec', sweep', crashed') /\ RefusedRightly(rec') /\ LawsInTime(rec', now)
    BY <2>1, <2>2, <2>3, <1>2, AnswersAreTold
  <2> QED BY <2>3, <2>4, <1>1, <1>2 DEF CompleteInvariant
<1>5. CASE Sweeping!Submit
  <2>1. PICK b \in Accounts, o \in Accounts, d \in 0..now :
          queue' = Append(queue, Sweeping!Entry("law", b, o, d))
    BY <1>5 DEF Sweeping!Submit
  <2>2. PICK e : e = Sweeping!Entry("law", b, o, d) OBVIOUS
  <2>3. IsRequest(e, now)
    <3>1. e.kind = "law" /\ e.by = b /\ e.of = o /\ e.d = d BY <2>2 DEF Sweeping!Entry
    <3> QED BY <2>2, <3>1 DEF IsRequest
  <2>4. PICK S : queue \in Seq(S) /\ \A h \in S : IsRequest(h, now) BY <1>2 DEF HeldInTime
  <2>5. Append(queue, e) \in Seq(S \cup {e})
    <3>1. queue \in Seq(S \cup {e}) /\ e \in S \cup {e} BY <2>4
    <3> QED BY <3>1
  <2>6. \A h \in S \cup {e} : IsRequest(h, now) BY <2>3, <2>4
  <2>7. HeldInTime(queue', now) BY <2>1, <2>2, <2>5, <2>6 DEF HeldInTime
  <2> QED BY <2>7, <1>1, <1>2, <1>5 DEF Sweeping!Submit, CompleteInvariant
<1>6. CASE Sweeping!Commit
  <2>1. Told(rec', sweep', crashed') /\ RefusedRightly(rec') /\ LawsInTime(rec', now)
    BY <1>2, <1>6, CommitsAreTold
  <2>2. now' = now /\ queue' = queue BY <1>6 DEF Sweeping!Commit
  <2> QED BY <2>1, <2>2, <1>1, <1>2 DEF CompleteInvariant
<1>7. CASE Sweeping!Drain
  <2>1. PICK S : queue \in Seq(S) /\ \A h \in S : IsRequest(h, now) BY <1>2 DEF HeldInTime
  <2>2. sweep = {} /\ queue # << >> /\ queue' = Tail(queue) /\ crashed' = crashed /\ now' = now
    BY <1>7 DEF Sweeping!Drain
  <2>3. PICK e : e = Head(queue) OBVIOUS
  <2>4. e \in S /\ Tail(queue) \in Seq(S) BY <2>1, <2>2, <2>3
  <2>5. \/ Sweeping!Accept(e)
        \/ Sweeping!Refuse(e) /\ (Len(rec) < MaxRec => ~ Sweeping!Admits(rec, Sweeping!DoorWorld(e), e))
    BY <1>7, <2>3 DEF Sweeping!Drain
  <2>6. Told(rec', sweep', crashed') /\ RefusedRightly(rec') /\ LawsInTime(rec', now)
    BY <2>1, <2>2, <2>4, <2>5, <1>2, AnswersAreTold
  <2>7. HeldInTime(queue', now) BY <2>1, <2>2, <2>4 DEF HeldInTime
  <2> QED BY <2>2, <2>6, <2>7, <1>1, <1>2 DEF CompleteInvariant
<1>8. CASE Sweeping!Crash
  <2>1. /\ rec' = rec /\ now' = now /\ sweep' = {} /\ queue' = << >> /\ crashed' = TRUE
    BY <1>8 DEF Sweeping!Crash
  <2>2. Told(rec, {}, TRUE) BY <1>2 DEF Told
  <2>3. HeldInTime(<< >>, now)
    <3>1. << >> \in Seq({}) OBVIOUS
    <3> QED BY <3>1 DEF HeldInTime
  <2> QED BY <2>1, <2>2, <2>3, <1>1, <1>2 DEF CompleteInvariant
<1>9. CASE UNCHANGED Sweeping!vars BY <1>1, <1>2, <1>9 DEF Sweeping!vars, CompleteInvariant
<1> QED BY <1>3, <1>4, <1>5, <1>6, <1>7, <1>8, <1>9 DEF Sweeping!Next

(* What that says of the record once no sweep is in hand.                   *)
LEMMA ToldIsComplete ==
  ASSUME CompleteInvariant
  PROVE  Sweeping!SweepIsComplete
<1>1. Swept(rec, sweep, crashed) /\ Told(rec, sweep, crashed) /\ RefusedRightly(rec)
  BY DEF CompleteInvariant, SweepInvariant
<1>2. IsRecord(rec) /\ OfThePast(rec) BY <1>1 DEF Swept
<1>3. Sweeping!Overturns = Overturns(rec) BY DEF Sweeping!Overturns, Overturns
<1>4. Sweeping!WhatIsLeftWasRefused
  <2> SUFFICES ASSUME Sweeping!Quiet, ~ crashed, NEW n \in Sweeping!LateLaws(rec),
                      Sweeping!Pending(rec)[n].would # {},
                      \A k \in Overturns(rec) : ~ (rec[k].law > n)
               PROVE  ~ Sweeping!AnchorHolds(First(rec, n),
                          Sweeping!Pending(rec)[n].would \cup Sweeping!OverturnedTargets(First(rec, n)))
    BY <1>3 DEF Sweeping!WhatIsLeftWasRefused, First
  <2>1. Sweeping!Pending(rec)[n].would = Sweeping!Computed(rec, n, n) BY DEF Sweeping!Pending
  <2>2. Swept(rec, {}, FALSE) /\ Told(rec, {}, FALSE)
    <3>1. sweep = {} BY DEF Sweeping!Quiet
    <3> QED BY <3>1, <1>1 DEF Swept, Told
  <2> QED BY <2>1, <2>2, WhatIsLeft
<1>5. Sweeping!CitationsWalkBack BY <1>1, <1>3 DEF Told, Cites, Sweeping!CitationsWalkBack
<1>6. Sweeping!ReAskedForAReason
  <2> SUFFICES ASSUME NEW c \in Sweeping!ReAsk(rec)
               PROVE  \E s \in Sweeping!OverturnsOfLaw(rec, c[1]) :
                        /\ s < c[2]
                        /\ \/ rec[s].kind = "handover"
                           \/ Sweeping!IsLaw(rec[s]) /\ rec[s].of = rec[c[2]].of
    BY DEF Sweeping!ReAskedForAReason
  <2>1. PICK law \in Sweeping!LateLaws(rec) :
          \E y \in Sweeping!ReAskCases(rec, law, Sweeping!OverturnsOfLaw(rec, law), Len(rec)) : c = <<law, y>>
    BY DEF Sweeping!ReAsk
  <2>2. PICK x \in Sweeping!ReAskCases(rec, law, Sweeping!OverturnsOfLaw(rec, law), Len(rec)) :
          c = <<law, x>>
    BY <2>1
  <2>3. c[1] = law /\ c[2] = x BY <2>2
  <2>4. /\ x \in Sweeping!RefusalCandidates(rec, law)
        /\ Sweeping!Admits(rec, Sweeping!WorldAt(rec, rec[x].draft.d, x,
                                                Sweeping!OverturnsOfLaw(rec, law), Len(rec)), rec[x].draft)
    BY <2>2 DEF Sweeping!ReAskCases
  <2>5. law \in 1..Len(rec) BY <2>1 DEF Sweeping!LateLaws
  <2>6. \A k \in Overturns(rec) : Follows(rec, k) BY <1>1 DEF Told
  <2>7. \E s \in Sweeping!OverturnsOfLaw(rec, law) :
           /\ s < x
           /\ \/ rec[s].kind = "handover"
              \/ Sweeping!IsLaw(rec[s]) /\ rec[s].of = rec[x].of
    BY <2>4, <2>5, <2>6, <1>1, <1>2, ReasonToAsk
  <2> QED BY <2>3, <2>7
<1> QED BY <1>4, <1>5, <1>6 DEF Sweeping!SweepIsComplete

(* What a sweep leaves was refused with the whole of it, unless a later law *)
(* has overturned acts since; every overturn cites its law or an earlier    *)
(* overturn of the same sweep; and a refusal is put forward again only for  *)
(* a law against its actor or a handover that fell (reconcile.compute,      *)
(* _reaching_ancestor, pending, reask).  No handler makes the overturns or  *)
(* the refusals but the gate's own: neither is a kind it is asked for.      *)
THEOREM SweepIsComplete ==
  ASSUME {"overturn", "refused"} \cap Kinds = {}, MaxTime \in Nat
  PROVE  Sweeping!Spec => []Sweeping!SweepIsComplete
<1>1. Sweeping!Init => CompleteInvariant BY CompletenessBegins
<1>2. CompleteInvariant /\ [Sweeping!Next]_(Sweeping!vars) => CompleteInvariant'
  BY CompletenessGoesOn
<1>3. CompleteInvariant => Sweeping!SweepIsComplete BY ToldIsComplete
<1> QED BY <1>1, <1>2, <1>3, PTL DEF Sweeping!Spec
=============================================================================
