---------------------------- MODULE RootAuthority ----------------------------
(***************************************************************************)
(* Who holds root authority: the succession ceremony, the keys that leash  *)
(* it and the watcher brake (kernel/gate.py _decide, _constitution_guard,  *)
(* _pairing_step, _signed_door; kernel/views.py and kernel/keys.py folds;  *)
(* the operations of founding/founding-pack.json).                         *)
(*                                                                         *)
(* Nothing here is stored by the program: every value is a fold over the   *)
(* record, read again at every act.  A variable below is the fold's value; *)
(* what a reader computes with other facts at read time (Verified,         *)
(* CurrentSuccessor, Halted, Band) stays an operator.  An act the gate     *)
(* refuses appends an op-refused row that none of these folds reads, so a  *)
(* refused act is a disabled action.  Acts are serialised by the decide    *)
(* region (module GroupCommit), so one act is one step.                    *)
(***************************************************************************)
EXTENDS Naturals, Sequences, FiniteSets

CONSTANTS
  Owner,      \* the anchor minted with root-instruction-authority
  System,     \* the SYSTEM anchor: the recorder
  Accounts,   \* ids a CREATE-ACCOUNT may found
  None,       \* "absent"
  Ops,        \* the registered operations, a subset of OpNames
  Classes,    \* the actor-classes pack
  Targets,    \* what a VERIFY-ACCOUNT may carry as `target`
  Covered,    \* the actors some live grant covers (all, under openness)
  Keys,       \* public keys
  HolderOf,   \* which actor can sign with a key
  Ids,        \* bound: the ids that the account and key operations name
  MaxChecks,  \* bound: distinct (account, verifier) verifications
  MaxBrakes   \* bound: recorded HALT-WATCHER and RESOLVE-WATCHER acts

Anchors == {Owner, System}
Actors  == Anchors \cup Accounts

OpNames == {"CREATE-ACCOUNT", "VERIFY-ACCOUNT", "DESIGNATE-SUCCESSOR", "ACCEPT-SUCCESSION",
            "REVOKE-SUCCESSION", "HANDOVER", "key-bind", "key-rotate", "key-revoke",
            "HALT-WATCHER", "RESOLVE-WATCHER"}

ASSUME AnchorsAssumption == Owner # System /\ Anchors \cap Accounts = {}
ASSUME AccountsAssumption == IsFiniteSet(Accounts)
ASSUME NoneAssumption == None \notin Actors \cup Keys \cup Classes
ASSUME OpsAssumption == Ops \subseteq OpNames
ASSUME ClassesAssumption == {"human", "ai"} \subseteq Classes
ASSUME TargetsAssumption == None \in Targets
ASSUME KeysAssumption == HolderOf \in [Keys -> Actors]
ASSUME IdsAssumption == Ids \subseteq Actors
ASSUME BoundsAssumption == MaxChecks \in Nat /\ MaxBrakes \in Nat

VARIABLES
  root,      \* views.chain_end: the founding root, moved by each HANDOVER
  class,     \* actor_class of the latest CREATE-ACCOUNT, per id
  checks,    \* VERIFY-ACCOUNT records as <<account, verifier>>
  band,      \* target of the latest classifying VERIFY-ACCOUNT, per actor
  named,     \* the latest designation standing: the designated successor
  namer,     \* history: who recorded that designation
  accepted,  \* whether the designated successor accepted it since
  willing,   \* history: who recorded an acceptance since that designation
  key,       \* keys.bound_key, per account
  brakes     \* the HALT-WATCHER and RESOLVE-WATCHER records, in seq order

accountVars    == <<class, checks, band>>
successionVars == <<named, namer, accepted, willing>>
vars == <<root, accountVars, successionVars, key, brakes>>

BrakeRecord == [act : {"halt", "resolve"}, by : Actors, watcher : Actors]

TypeOK ==
  /\ root \in Actors
  /\ class \in [Actors -> Classes \cup {None}]
  /\ checks \subseteq Actors \X Actors
  /\ band \in [Actors -> Targets \cup {None}]
  /\ named \in Actors \cup {None}
  /\ namer \in Actors \cup {None}
  /\ accepted \in BOOLEAN
  /\ willing \subseteq Actors
  /\ key \in [Actors -> Keys \cup {None}]
  /\ brakes \in Seq(BrakeRecord)

Init ==
  /\ root = Owner
  /\ class = [a \in Actors |-> None]
  /\ checks = {}
  /\ band = [a \in Actors |-> None]
  /\ named = None /\ namer = None /\ accepted = FALSE /\ willing = {}
  /\ key = [a \in Actors |-> None]
  /\ brakes = <<>>

-----------------------------------------------------------------------------
(* What the views compute at read time *)

(* Mutant: any verifier grounds a verification. *)
GroundedByAnyone(V) ==
  \A c \in checks : c[1] \in Accounts => c[1] \in V

(* V holds every account a grounded verifier vouched for. *)
ClosedUnderChecks(V) ==
  \A c \in checks : c[1] \in Accounts /\ c[2] \in Anchors \cup V => c[1] \in V

(* Mutant: a verification may name an anchor. *)
VerifiedAnchorsToo ==
  {a \in Actors : \A V \in SUBSET Actors :
     (\A c \in checks : c[2] \in Anchors \cup V => c[1] \in V) => a \in V}

(* views._verified_accounts: the least fixpoint over the founding anchors; *)
(* an anchor is never a verified account.                                  *)
Verified == {a \in Accounts : \A V \in SUBSET Accounts : ClosedUnderChecks(V) => a \in V}

(* An account founded on the record: resolve_asserted_by answers itself. *)
Founded(a) == a \in Anchors \/ class[a] # None

(* views._accounts: an anchor keeps the class its CREATE-ACTOR gave it,    *)
(* whatever a later CREATE-ACCOUNT says of its id.                         *)
AccountClass(a) == CASE a = Owner  -> "human"
                     [] a = System -> None
                     [] OTHER      -> class[a]

(* views.current_successor: the accepted designation, valid only while the *)
(* successor is verified and human at the moment of the read.              *)
CurrentSuccessor ==
  IF accepted /\ named \in Verified /\ AccountClass(named) = "human" THEN named ELSE None

KeyValid(a) == key[a] # None

(* keys.successor_key_bound *)
SuccessorKeyBound == CurrentSuccessor # None /\ KeyValid(CurrentSuccessor)

(* views.halted_watchers: a halt stands until a later RESOLVE-WATCHER of   *)
(* the root as it is now; SYSTEM and the root as it is now are exempt.     *)
Halted ==
  {w \in Actors \ {System, root} :
     \E i \in 1 .. Len(brakes) :
       /\ brakes[i].act = "halt" /\ brakes[i].watcher = w
       /\ \A j \in i + 1 .. Len(brakes) :
            ~ (brakes[j].act = "resolve" /\ brakes[j].watcher = w /\ brakes[j].by = root)}

(* views.class_band: the latest classify act, else the account's class; a  *)
(* token outside the class list is no band.                                *)
Band(a) ==
  LET token == IF band[a] # None THEN band[a] ELSE AccountClass(a)
  IN IF token \in Classes THEN token ELSE None

(* The pairing at a structured cell: an AI is not its arm. *)
Paired(a) == a = System \/ Band(a) # "ai"

(* gate._signed_door: a founded account with a bound key signs with it. *)
SignedDoor(a) == Founded(a) /\ KeyValid(a) => HolderOf[key[a]] = a

(* The part of gate._decide common to every operation: the brake, the      *)
(* registry, the authority step, the pairing and the signed door.          *)
Admitted(a, op) ==
  /\ a \notin Halted
  /\ op \in Ops
  /\ a \in Covered \cup {root, System}
  /\ Paired(a)
  /\ SignedDoor(a)

-----------------------------------------------------------------------------
(* The operations *)

(* Mutant: without the class-domain write closure of _pairing_step. *)
CreateAccountOfAnyClass(a, id, c) ==
  /\ Admitted(a, "CREATE-ACCOUNT")
  /\ class' = [class EXCEPT ![id] = c]
  /\ UNCHANGED <<root, checks, band, successionVars, key, brakes>>

(* An id may be founded again, by anybody: the latest record's class       *)
(* counts.  A class outside the list cannot be written.                    *)
CreateAccount(a, id, c) ==
  /\ Admitted(a, "CREATE-ACCOUNT")
  /\ c \in Classes
  /\ class' = [class EXCEPT ![id] = c]
  /\ UNCHANGED <<root, checks, band, successionVars, key, brakes>>

(* The account must have been founded; a target makes the act a classify. *)
VerifyAccount(a, id, target) ==
  /\ Admitted(a, "VERIFY-ACCOUNT")
  /\ class[id] # None
  /\ Cardinality(checks \cup {<<id, a>>}) <= MaxChecks
  /\ checks' = checks \cup {<<id, a>>}
  /\ band' = IF target = None THEN band ELSE [band EXCEPT ![id] = target]
  /\ UNCHANGED <<root, class, successionVars, key, brakes>>

(* Mutant: a designation does not reset an earlier acceptance. *)
DesignateKeepingAcceptance(a, s) ==
  /\ Admitted(a, "DESIGNATE-SUCCESSOR")
  /\ a = root /\ s \in Verified /\ AccountClass(s) = "human"
  /\ named' = s /\ namer' = a /\ willing' = {} /\ UNCHANGED accepted
  /\ UNCHANGED <<root, accountVars, key, brakes>>

DesignateSuccessor(a, s) ==
  /\ Admitted(a, "DESIGNATE-SUCCESSOR")
  /\ a = root
  /\ s \in Verified /\ AccountClass(s) = "human"
  /\ named' = s /\ namer' = a /\ accepted' = FALSE /\ willing' = {}
  /\ UNCHANGED <<root, accountVars, key, brakes>>

(* Anyone may record an acceptance; only the designated one's counts. *)
AcceptSuccession(a) ==
  /\ Admitted(a, "ACCEPT-SUCCESSION")
  /\ accepted' = (accepted \/ named = a)
  /\ willing' = willing \cup {a}
  /\ UNCHANGED <<root, accountVars, named, namer, key, brakes>>

RevokeSuccession(a) ==
  /\ Admitted(a, "REVOKE-SUCCESSION")
  /\ a = root
  /\ named' = None /\ namer' = None /\ accepted' = FALSE /\ willing' = {}
  /\ UNCHANGED <<root, accountVars, key, brakes>>

(* Mutant: the succession key half is dropped. *)
HandoverIgnoringKeys(a) ==
  /\ Admitted(a, "HANDOVER")
  /\ a = root
  /\ CurrentSuccessor # None
  /\ root' = CurrentSuccessor
  /\ UNCHANGED <<accountVars, successionVars, key, brakes>>

(* The root hands over; the designation it was made by stays standing. A   *)
(* keyed root hands over only to a keyed successor.                        *)
Handover(a) ==
  /\ Admitted(a, "HANDOVER")
  /\ a = root
  /\ CurrentSuccessor # None
  /\ KeyValid(root) => KeyValid(CurrentSuccessor)
  /\ root' = CurrentSuccessor
  /\ UNCHANGED <<accountVars, successionVars, key, brakes>>

(* key-bind is not leashed by the anchor guard. *)
KeyBind(a, id, k) ==
  /\ Admitted(a, "key-bind")
  /\ key' = [key EXCEPT ![id] = k]
  /\ UNCHANGED <<root, accountVars, successionVars, brakes>>

(* The leash of the root key: no rotate and no revoke without a successor  *)
(* key bound through the ceremony.                                         *)
RootKeyLeash(id) == id = root => SuccessorKeyBound

KeyRotate(a, id, k) ==
  /\ Admitted(a, "key-rotate")
  /\ RootKeyLeash(id)
  /\ key' = [key EXCEPT ![id] = k]
  /\ UNCHANGED <<root, accountVars, successionVars, brakes>>

KeyRevoke(a, id) ==
  /\ Admitted(a, "key-revoke")
  /\ RootKeyLeash(id)
  /\ key' = [key EXCEPT ![id] = None]
  /\ UNCHANGED <<root, accountVars, successionVars, brakes>>

Brake(record) ==
  /\ Len(brakes) < MaxBrakes
  /\ brakes' = Append(brakes, record)
  /\ UNCHANGED <<root, accountVars, successionVars, key>>

HaltWatcher(a, w) ==
  /\ Admitted(a, "HALT-WATCHER")
  /\ w \notin {System, root}
  /\ Brake([act |-> "halt", by |-> a, watcher |-> w])

ResolveWatcher(a, w) ==
  /\ Admitted(a, "RESOLVE-WATCHER")
  /\ a = root
  /\ Brake([act |-> "resolve", by |-> a, watcher |-> w])

ActBy(a) ==
  \/ \E id \in Ids, c \in Classes \cup {"unlisted"} : CreateAccount(a, id, c)
  \/ \E id \in Ids, t \in Targets : VerifyAccount(a, id, t)
  \/ \E s \in Actors : DesignateSuccessor(a, s)
  \/ AcceptSuccession(a)
  \/ RevokeSuccession(a)
  \/ Handover(a)
  \/ \E id \in Ids, k \in Keys : KeyBind(a, id, k) \/ KeyRotate(a, id, k)
  \/ \E id \in Ids : KeyRevoke(a, id)
  \/ \E w \in Actors : HaltWatcher(a, w) \/ ResolveWatcher(a, w)

Next == \E a \in Actors : ActBy(a)

Spec == Init /\ [][Next]_vars

-----------------------------------------------------------------------------
(* Properties *)

(* A chain of vouchers from a to a founding anchor, each account on it     *)
(* vouched for by the next, none twice.                                    *)
VouchedFor(a) ==
  \E n \in 1 .. Cardinality(Accounts) :
    \E chain \in [1 .. n -> Accounts] :
      /\ chain[1] = a
      /\ \A i, j \in 1 .. n : i # j => chain[i] # chain[j]
      /\ \A i \in 1 .. n - 1 : <<chain[i], chain[i + 1]>> \in checks
      /\ \E anchor \in Anchors : <<chain[n], anchor>> \in checks

(* Root authority never reaches an account that only a circle of accounts  *)
(* vouches for: the holder is the founding root or a chain of recorded     *)
(* verifications leads from it to an anchor, whatever order those records  *)
(* were made in (views._verified_accounts, read by current_successor).     *)
RootIsVouchedFor == root = Owner \/ VouchedFor(root)

(* Root authority moves only to an account that the holder giving it up    *)
(* itself designated, that recorded its acceptance since that designation  *)
(* and that is human when it takes over - although the designation         *)
(* outlives the handover it was made for, acceptances may come from        *)
(* anybody at any time, and classes may be rewritten in between            *)
(* (views.current_successor, chain_end; the gate's anchor guard).          *)
LawfulTransfer ==
  [][root' # root => /\ namer = root
                     /\ root' \in willing
                     /\ AccountClass(root') = "human"]_vars

(* What LawfulTransfer rests on: a standing designation of someone other   *)
(* than the root was made by the root in office, and an acceptance counts  *)
(* only if the designated one recorded it (views.current_successor).       *)
CeremonyOK ==
  /\ named # None /\ named # root => namer = root
  /\ accepted => named \in willing

(* The ceremony as a whole: no designation, acceptance or verification left *)
(* over from an earlier ceremony makes a root of its own (the gate's anchor *)
(* guard over views.current_successor).                                    *)
CeremonyIsWhole == CeremonyOK /\ RootIsVouchedFor

(* The founding root, once departed, never holds root authority again: an  *)
(* anchor can be no successor, whatever verifications name it.             *)
FoundingRootNeverReturns == [][root # Owner => root' # Owner]_vars

(* Keyed authority never passes to a keyless successor, although keys may  *)
(* be bound, rotated and revoked by anybody at any point of the ceremony   *)
(* (the succession key half of the anchor guard).                          *)
KeyedAuthorityStaysKeyed == [][root' # root /\ KeyValid(root) => key'[root'] # None]_vars

(* A resolved brake stays resolved: with no new brake record nobody but    *)
(* a departing root becomes braked (the fold of views.halted_watchers).    *)
ResolveLasts == [][brakes' = brakes => Halted' \ Halted \subseteq {root}]_vars

(* The root's key is revoked only while a successor other than the root    *)
(* itself holds a bound key (the root key's leash in the anchor guard).    *)
NoRootKeyRetiresAlone ==
  [][root' = root /\ KeyValid(root) /\ ~ KeyValid(root)'
       => CurrentSuccessor \in Accounts \ {root} /\ KeyValid(CurrentSuccessor)]_vars
=============================================================================
