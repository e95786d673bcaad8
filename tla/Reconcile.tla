----------------------------- MODULE Reconcile -----------------------------
(* The two times of authority (kernel/reconcile.py, Gate._maybe_sweep).     *)
(* An act is valid by what had been decided when it was decided, and is     *)
(* ordered by when it was recorded.  A law that arrives late is in force    *)
(* for acts recorded before it, so the gate sweeps: it works out, round by  *)
(* round, which acts the law and the fall of others reach, asks whether     *)
(* authority keeps its anchor, and records one overturn per act.            *)
(*                                                                          *)
(* What an act needs of the gate is reduced to two questions: does the      *)
(* actor hold authority (the root, or somebody with a live grant), and does *)
(* a law or a revoked key bar the actor.                                    *)
EXTENDS Naturals, Sequences, FiniteSetsExt

CONSTANTS Accounts, Founder,
          Kinds,       \* the kinds of act the gate is asked for
          MaxRec,      \* bound: length of the record
          MaxTime,     \* bound: the clock
          MaxQueue,    \* bound: laws submitted while a sweep runs
          MaxRefusals, \* bound: refusals on the record
          Crashes      \* may the process stop between two overturns?

VARIABLES rec,       \* the record
          now,       \* the store's clock
          sweep,     \* the overturns of the sweep in hand still to record
          queue,     \* laws submitted while it runs
          crashed    \* history: did a crash cut a sweep short?

vars == <<rec, now, sweep, queue, crashed>>

System == "SYSTEM"

Init == rec = << >> /\ now = 0 /\ sweep = {} /\ queue = << >> /\ crashed = FALSE

Entry(kind, by, of, d) == [kind |-> kind, by |-> by, of |-> of, d |-> d]
Stamped(e, r) == [kind |-> e.kind, by |-> e.by, of |-> e.of, d |-> e.d, r |-> r]

IsLaw(e)       == e.kind \in {"law", "key-revoke"}  \* is_law_family, is_key_legitimacy
Late(e)        == e.d < e.r
InForceAt(e, d) == e.d < d          \* a tie is not in force

----------------------------------------------------------------------------
(* A world is a set of seqs; what follows reads it as the views read a      *)
(* record.                                                                  *)
OverturnedIn(rc, W) == {rc[s].of : s \in {n \in W : rc[n].kind = "overturn"}}
Live(rc, W) == W \ OverturnedIn(rc, W)

GrantsIn(rc, W) == {s \in Live(rc, W) : rc[s].kind = "grant"}

(* chain_end: whoever the last handover of the world names, or the founder. *)
(* Only the fold of the grants leaves out what was overturned; the folds of *)
(* the root and of the law read every row the world holds.                  *)
ChainEnd(rc, W) ==
  LET handovers == {s \in W : rc[s].kind = "handover"}
  IN  IF handovers = {} THEN Founder ELSE rc[Max(handovers)].of

Bars(rc, W, account) == \E s \in W : IsLaw(rc[s]) /\ rc[s].of = account

(* The gate's checks over a world: authority, then law (reconcile.admits).  *)
Admits(rc, W, e) ==
  /\ \/ e.by \in {System, ChainEnd(rc, W)}
     \/ e.kind \in {"do", "grant"} /\ \E s \in GrantsIn(rc, W) : rc[s].of = e.by
  /\ ~ Bars(rc, W, e.by)

(* The world an act is judged in again: law by the time the act was         *)
(* decided, everything else by the order of arrival (WorldStore._selects).  *)
WorldAt(rc, d, x, excluded, head) ==
  {s \in (1..head) \ excluded :
     IF IsLaw(rc[s]) THEN InForceAt(rc[s], d) ELSE s < x}
WorldFor(rc, x, excluded, head) == WorldAt(rc, rc[x].d, x, excluded, head)

(* The door: authority as it is now, law as of the act's own deciding time  *)
(* when it claims one (acceptance_law).                                     *)
DoorWorld(e) ==
  {s \in 1..Len(rec) : IsLaw(rec[s]) /\ e.d < now => InForceAt(rec[s], e.d)}

OverturnedTargets(rc) == {rc[n].of : n \in {k \in 1..Len(rc) : rc[k].kind = "overturn"}}

----------------------------------------------------------------------------
(* The sweep *)
Candidates(rc, law) ==
  {x \in 1..(law - 1) : /\ rc[x].kind \notin {"overturn", "refused"}
                        /\ x \notin OverturnedTargets(rc)
                        /\ rc[law].d < rc[x].d}

Falls(rc, x, excluded, head) == ~ Admits(rc, WorldFor(rc, x, excluded, head), rc[x])

(* Mutant: one round only. *)
OneRound(rc, law, head) ==
  LET fallen == {x \in Candidates(rc, law) : Falls(rc, x, OverturnedTargets(rc), head)}
  IN  [k \in 0..Cardinality(Candidates(rc, law)) |-> IF k = 0 THEN {} ELSE fallen]

(* The rounds: what falls when everything that fell before is left out.     *)
Rounds(rc, law, head) ==
  LET cands == Candidates(rc, law)
      standing == OverturnedTargets(rc)
      out[k \in 0..Cardinality(cands)] ==
        IF k = 0 THEN {}
        ELSE out[k-1] \cup {x \in cands : Falls(rc, x, standing \cup out[k-1], head)}
  IN  out

Computed(rc, law, head) == Rounds(rc, law, head)[Cardinality(Candidates(rc, law))]

(* What an overturn cites: the first earlier casualty whose return alone    *)
(* would put the act back, or else the law.  The acts of a round are taken  *)
(* in record order, and those already taken are left out of the trial.      *)
Reaching(rc, law, x) ==
  LET rounds == Rounds(rc, law, Len(rc))
      k == Min({i \in DOMAIN rounds : x \in rounds[i]})
      before == rounds[k - 1]
      taken  == before \cup {y \in rounds[k] : y < x}
      restores == {y \in before :
                     ~ Falls(rc, x, (taken \cup OverturnedTargets(rc)) \ {y}, Len(rc))}
  IN  IF restores = {} THEN law ELSE Min(restores)

(* Grants nobody anchored stands behind: made neither by the root, nor by   *)
(* SYSTEM, nor by the holder of a grant that is itself rooted.  The rooted  *)
(* ones are the least set closed under that: makers in a circle never enter *)
(* it (_rootless, "a fixpoint on the root and the founding anchors").       *)
ClosedUnderMaking(rc, live, ground, set) ==
  \A g \in live : rc[g].by \in ground \cup {rc[h].of : h \in set} => g \in set

Rootless(rc, W) ==
  LET live   == GrantsIn(rc, W)
      ground == {Founder, System, ChainEnd(rc, W)}
  IN  {g \in live : \E set \in SUBSET live : ClosedUnderMaking(rc, live, ground, set) /\ g \notin set}

(* The anchor law, asked of the difference a sweep would make.              *)
AnchorHolds(rc, excluded) ==
  LET pre  == 1..Len(rc)
      post == pre \ excluded
  IN  /\ ChainEnd(rc, post) = ChainEnd(rc, pre)
      /\ Rootless(rc, post) \subseteq Rootless(rc, pre)

(* run: the overturns to record for this law, none if the anchor would not  *)
(* hold.                                                                    *)
Planned(rc, law) ==
  LET fallen == Computed(rc, law, Len(rc))
  IN  IF AnchorHolds(rc, fallen \cup OverturnedTargets(rc))
      THEN {[of |-> x, sweep |-> fallen, law |-> law, reach |-> Reaching(rc, law, x)] : x \in fallen}
      ELSE {}

SweepOf(rc) ==
  LET last == rc[Len(rc)] IN IF IsLaw(last) /\ Late(last) THEN Planned(rc, Len(rc)) ELSE {}

(* What is left of the sweep of each late law, asked at any time.           *)
LateLaws(rc) == {n \in 1..Len(rc) : IsLaw(rc[n]) /\ Late(rc[n])}
Pending(rc) ==
  [n \in LateLaws(rc) |->
     LET would == Computed(rc, n, n)
     IN  [would |-> would, anchor |-> AnchorHolds(SubSeq(rc, 1, n), would)]]

----------------------------------------------------------------------------
(* Refusals are put before their actors again when a late law's sweep       *)
(* changed what they were decided on.  A draft that claims no time is asked *)
(* under every law there is.                                                *)
Undated == MaxTime + 1

RefusalCandidates(rc, law) ==
  {x \in 1..(law - 1) : rc[x].kind = "refused" /\ rc[law].d < rc[x].d}

ReAskCases(rc, law, excluded, head) ==
  IF excluded = {} /\ Candidates(rc, law) = {} THEN {}
  ELSE {x \in RefusalCandidates(rc, law) :
          LET draft == rc[x].draft
          IN  Admits(rc, WorldAt(rc, draft.d, x, excluded, head), draft)}

OverturnsOfLaw(rc, law) == {rc[n].of : n \in {k \in 1..Len(rc) : rc[k].kind = "overturn" /\ rc[k].law = law}}

(* The list, asked at any time: the overturns of that law left out.         *)
ReAsk(rc) ==
  UNION {{<<law, x>> : x \in ReAskCases(rc, law, OverturnsOfLaw(rc, law), Len(rc))} : law \in LateLaws(rc)}

----------------------------------------------------------------------------
(* The gate.  Nothing else is decided while a sweep runs: it is part of the *)
(* law's own act, under the decide region.                                  *)
Accept(e) ==
  /\ rec' = Append(rec, Stamped(e, now))
  /\ sweep' = SweepOf(rec')

(* Gate.refuse: the draft is kept in the record of its refusal. *)
Refuse(e) ==
  /\ IF Cardinality({n \in 1..Len(rec) : rec[n].kind = "refused"}) < MaxRefusals /\ Len(rec) < MaxRec
     THEN rec' = Append(rec, [kind |-> "refused", by |-> System, of |-> e.by, d |-> now, r |-> now,
                              draft |-> IF e.d = now THEN [e EXCEPT !.d = Undated] ELSE e])
     ELSE UNCHANGED rec
  /\ UNCHANGED sweep

Tick == now < MaxTime /\ now' = now + 1 /\ UNCHANGED <<rec, sweep, queue, crashed>>

Requests == {Entry(k, by, of, d) : k \in Kinds,
                                   by \in Accounts, of \in Accounts, d \in 0..now}

Act ==
  /\ sweep = {} /\ queue = << >> /\ Len(rec) < MaxRec
  /\ \E e \in Requests :
       /\ IF e.kind = "do" THEN e.of = e.by ELSE e.of # e.by
       /\ IF Admits(rec, DoorWorld(e), e) THEN Accept(e) ELSE Refuse(e)
  /\ UNCHANGED <<now, queue, crashed>>

(* A listener of the record submits a law: it is held while a sweep runs.   *)
Submit ==
  /\ sweep # {} /\ Len(queue) < MaxQueue
  /\ \E by \in Accounts, of \in Accounts, d \in 0..now :
       by # of /\ queue' = Append(queue, Entry("law", by, of, d))
  /\ UNCHANGED <<rec, now, sweep, crashed>>

(* The overturns cross the gate in record order, and each meets the anchor  *)
(* guard again.                                                             *)
Overturn(o) == [kind |-> "overturn", by |-> System, of |-> o.of, d |-> now, r |-> now,
                sweep |-> o.sweep, law |-> o.law, reach |-> o.reach]

Commit ==
  /\ \E o \in sweep :
       /\ \A p \in sweep : o.of <= p.of
       /\ IF AnchorHolds(rec, o.sweep \cup OverturnedTargets(rec))
          THEN rec' = Append(rec, Overturn(o)) /\ sweep' = sweep \ {o}
          ELSE rec' = rec /\ sweep' = {}
  /\ UNCHANGED <<now, queue, crashed>>

(* The held laws are decided when the outermost sweep is over, oldest first.*)
Drain ==
  /\ sweep = {} /\ queue # << >>
  /\ queue' = Tail(queue)
  /\ IF Admits(rec, DoorWorld(Head(queue)), Head(queue)) /\ Len(rec) < MaxRec
     THEN Accept(Head(queue))
     ELSE Refuse(Head(queue))
  /\ UNCHANGED <<now, crashed>>

Crash ==
  /\ Crashes /\ sweep # {}
  /\ sweep' = {} /\ queue' = << >> /\ crashed' = TRUE
  /\ UNCHANGED <<rec, now>>

Next == Tick \/ Act \/ Submit \/ Commit \/ Drain \/ Crash

Spec == Init /\ [][Next]_vars

----------------------------------------------------------------------------
Overturns == {n \in 1..Len(rec) : rec[n].kind = "overturn"}
Quiet == sweep = {}

(* A sweep lands whole or not at all: whatever an overturn declares as its  *)
(* sweep is overturned once the sweep is over (reconcile.run).              *)
SweepsLandWhole ==
  (Quiet /\ ~ crashed) =>
    \A n \in Overturns : rec[n].sweep \subseteq OverturnedTargets(rec)

(* The root never moves as a side effect of a sweep: whoever the record     *)
(* names is whoever the acts that still stand name, between the overturns   *)
(* of a sweep too, and whatever a crash cut short.                          *)
RootStands ==
  ChainEnd(rec, (1..Len(rec)) \ OverturnedTargets(rec)) = ChainEnd(rec, 1..Len(rec))

(* When a sweep is over no grant has lost its root that had one when the    *)
(* law arrived.                                                             *)
SweepsOrphanNothing ==
  (Quiet /\ ~ crashed) =>
    \A n \in Overturns :
      LET over == Max({k \in Overturns : rec[k].law = rec[n].law})
      IN  Rootless(rec, 1..over) \subseteq Rootless(rec, 1..rec[n].law)

(* Walking back from an overturn through what it cites ends at its law, and *)
(* every act cited on the way was overturned by the same sweep, before.     *)
CitationsWalkBack ==
  \A n \in Overturns :
    rec[n].reach # rec[n].law =>
      \E k \in Overturns : /\ rec[k].of = rec[n].reach /\ rec[k].law = rec[n].law
                           /\ rec[k].of < rec[n].of

(* Nothing is left of a sweep that its guard let go: what a law would still *)
(* reach was refused with the whole of its sweep, or a later law has        *)
(* overturned acts since.                                                   *)
WhatIsLeftWasRefused ==
  (Quiet /\ ~ crashed) =>
    \A n \in LateLaws(rec) :
      LET left  == Pending(rec)[n].would
          first == SubSeq(rec, 1, n)
      IN  left # {} => \/ ~ AnchorHolds(first, left \cup OverturnedTargets(first))
                      \/ \E k \in Overturns : rec[k].law > n

(* A refusal is put forward again only if that sweep overturned what may    *)
(* have stood against it when it was made: a law that barred its actor, or  *)
(* a handover.                                                              *)
ReAskedForAReason ==
  \A c \in ReAsk(rec) :
    \E s \in OverturnsOfLaw(rec, c[1]) :
      /\ s < c[2]
      /\ rec[s].kind = "handover" \/ (IsLaw(rec[s]) /\ rec[s].of = rec[c[2]].of)

(* What a sweep leaves is whole and anchored. *)
SweepIsSound == SweepsLandWhole /\ RootStands /\ SweepsOrphanNothing

(* What a sweep reaches is all it should, and says why. *)
SweepIsComplete ==
  WhatIsLeftWasRefused /\ CitationsWalkBack /\ ReAskedForAReason

=============================================================================
