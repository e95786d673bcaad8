--------------------------- MODULE MCRootAuthority ---------------------------
(* Root authority for TLC: one account beside the anchors with keys,        *)
(* classes and brakes, or two accounts that verify one another.  A          *)
(* behaviour is one of the two.                                             *)
EXTENDS RootAuthority, TLC

CONSTANTS owner, system, alice, bob, carol, k1, k2

VARIABLE part

Two   == {alice, bob}

Ceremony == {"CREATE-ACCOUNT", "VERIFY-ACCOUNT", "DESIGNATE-SUCCESSOR", "ACCEPT-SUCCESSION",
             "REVOKE-SUCCESSION", "HANDOVER"}
WithKeys   == Ceremony \cup {"key-bind", "key-rotate", "key-revoke"}
WithBrakes == Ceremony \cup {"HALT-WATCHER", "RESOLVE-WATCHER"}

Everyone  == {owner, system} \cup Accounts
AllButBob == {owner, system, alice}

JustAlice == {alice}
AliceAndOwner == {alice, owner}

HumanOrAi == {"human", "ai"}
Untargeted == {None}
Reclassed == {None, "ai"}

(* Who can sign with which key. *)
RootAndAlice == (k1 :> owner) @@ (k2 :> alice)
TwoHolders == (k1 :> alice) @@ (k2 :> bob)

(* Vouching: both accounts, three verifications, so that they can vouch for *)
(* each other and one handover can follow another.                          *)
Vouching == INSTANCE RootAuthority WITH
  Ops <- Ceremony, Targets <- {None}, Covered <- Everyone, Ids <- Accounts,
  MaxChecks <- 3, MaxBrakes <- 0

MCInit == Init /\ part \in {"keys", "vouching"}

MCNext ==
  /\ UNCHANGED part
  /\ \/ /\ part = "keys" /\ \E x \in AllButBob : ActBy(x)
        /\ \A i \in 1 .. Len(brakes') : brakes'[i].watcher # bob
        /\ Cardinality(checks') <= 1 \/ brakes' = << >>
     \/ part = "vouching" /\ Vouching!Next

(* Unrestricted, for the runs that look for one failure.                    *)
FreeSpec == Init /\ part = "keys" /\ [][Next /\ UNCHANGED part]_<<part, vars>>

MCSpec == MCInit /\ [][MCNext]_<<part, vars>>
==============================================================================
