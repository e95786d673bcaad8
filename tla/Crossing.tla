------------------------------ MODULE Crossing ------------------------------
(* The crossing (kernel/crossing.py): a station hands a question out to an  *)
(* answerer outside and the answer returns as a record that cites it.  No   *)
(* future waits in memory: whether a hand-out is open, answered or          *)
(* superseded is a fold over the record.  The hand-out seals the content of *)
(* its pack, a view whose version is pinned; an answer is taken only while  *)
(* the pack, under that version, has that content.  A hand-out may claim to *)
(* have been decided earlier than it is recorded, as far back as the world  *)
(* it seals.  A record's seq is the time it was recorded at.                *)
EXTENDS Naturals, Sequences, FiniteSets, FiniteSetsExt

CONSTANTS Objects, Values,
          Budget,   \* re-asks the station's policy allows a chain
          Claims,   \* the earlier times a hand-out may claim
          MaxRec,   \* bound: length of the record
          None

VARIABLE rec

Entry == [k |-> "write", obj |-> None, val |-> None, ref |-> 0, parent |-> 0,
          seal |-> None, guard |-> 0, pass |-> FALSE, claim |-> 0]

(* Records match a view by the objects its definition names.                *)
Matching(rc, objs) == {n \in 1..Len(rc) : rc[n].k = "write" /\ rc[n].obj \in objs}

Versions(rc, name) == {n \in 1..Len(rc) : rc[n].k = "view" /\ rc[n].obj = name}
Current(rc, name) == Max(Versions(rc, name))

(* The newest value of each object, under one version of the view.          *)
PackContent(rc, version) ==
  LET hits == Matching(rc, rc[version].val)
  IN  {[obj |-> rc[n].obj, val |-> rc[n].val] :
         n \in {h \in hits : ~ \E later \in hits : later > h /\ rc[later].obj = rc[h].obj}}

Handouts(rc) == {n \in 1..Len(rc) : rc[n].k = "handout"}
Children(rc, h) == {n \in Handouts(rc) : rc[n].parent = h}
Answers(rc, h) == {n \in 1..Len(rc) : rc[n].k = "answer" /\ rc[n].ref = h}

StateOf(rc, h) ==
  IF h \notin Handouts(rc) THEN "missing"
  ELSE IF Answers(rc, h) # {} THEN "answered"
  ELSE IF \E c \in Children(rc, h) : c > h THEN "superseded"
  ELSE "open"

CredentialVerified(rc, h) ==
  LET told == {n \in 1..Len(rc) : rc[n].k = "credential" /\ rc[n].ref = h}
  IN  told # {} /\ rc[Max(told)].pass

(* Mutant: sealed under the version of now. *)
HoldsByName(rc, h) ==
  PackContent(rc, Current(rc, "pack")) = rc[h].seal

(* The fingerprint: the pinned pack has the content that was handed out.    *)
Holds(rc, h) == PackContent(rc, rc[h].val) = rc[h].seal

(* The interval guard: nothing it matches was recorded since.               *)
IntervalMoved(rc, h) ==
  rc[h].guard # 0 /\ \E n \in Matching(rc, rc[rc[h].guard].val) : n > h

(* The seal bound: a claimed deciding time is allowed if the sealed content *)
(* was the pack's in some state from its view to that time.                 *)
SealBound(rc, e) ==
  e.claim # 0 =>
    \E n \in e.val..Len(rc) : n <= e.claim /\ PackContent(SubSeq(rc, 1, n), e.val) = e.seal

(* How far a chain of re-asks has gone, counted from the record.            *)
Spent(rc, h) ==
  LET depth[n \in 0..Len(rc)] == IF n = 0 \/ rc[n].parent \notin 1..(n-1) THEN 0
                                 ELSE 1 + depth[rc[n].parent]
  IN  depth[h]

StaleCrossings == {h \in Handouts(rec) : StateOf(rec, h) = "open" /\ ~ Holds(rec, h)}
MayReJudge(h) == Spent(rec, h) < Budget

----------------------------------------------------------------------------
(* The record begins with the view the station's questions are put over.    *)
Init == rec = << [Entry EXCEPT !.k = "view", !.obj = "pack", !.val = Objects] >>
Record(e) == Len(rec) < MaxRec /\ rec' = Append(rec, e)

Write == \E o \in Objects, v \in Values : Record([Entry EXCEPT !.obj = o, !.val = v])

DefineView ==
  \E name \in {"pack", "guard"}, objs \in (SUBSET Objects) \ {{}} :
    Record([Entry EXCEPT !.k = "view", !.obj = name, !.val = objs])

(* The fields of a hand-out: the pack and the guard by their versions of    *)
(* now, and the seal.  The parent is whatever the act names.                *)
Handout(guarded, parent) ==
  [Entry EXCEPT !.k = "handout", !.val = Current(rec, "pack"), !.parent = parent,
                !.seal = PackContent(rec, Current(rec, "pack")),
                !.guard = IF guarded THEN Current(rec, "guard") ELSE 0]

HandOut ==
  /\ Versions(rec, "pack") # {}
  /\ \E guarded \in BOOLEAN, parent \in {0} \cup Handouts(rec),
        claim \in {0} \cup (Claims \cap 1..Len(rec)) :
       LET e == [Handout(guarded, parent) EXCEPT !.claim = claim]
       IN  /\ guarded => Versions(rec, "guard") # {}
           /\ SealBound(rec, e)
           /\ Record(e)

(* A re-ask of the same question, at the present head.                      *)
ReJudge ==
  \E h \in Handouts(rec) :
    /\ MayReJudge(h)
    /\ Record(Handout(rec[h].guard # 0, h))

(* Mutant: an answer is asked only whether its hand-out exists. *)
BindsToAny(h) == StateOf(rec, h) # "missing"

(* What cites a hand-out is refused unless that is open.                    *)
Binds(h) == StateOf(rec, h) = "open"

CheckFingerprint(h) == Binds(h) /\ Holds(rec, h) /\ ~ IntervalMoved(rec, h)

Answer ==
  \E h \in 1..Len(rec) :
    /\ CheckFingerprint(h)
    /\ Record([Entry EXCEPT !.k = "answer", !.ref = h, !.pass = TRUE])

CredentialOutcome ==
  \E h \in 1..Len(rec), match \in BOOLEAN :
    Binds(h) /\ Record([Entry EXCEPT !.k = "credential", !.ref = h, !.pass = match])

Next == Write \/ DefineView \/ HandOut \/ ReJudge \/ Answer \/ CredentialOutcome
Spec == Init /\ [][Next]_rec

----------------------------------------------------------------------------
(* An answer was given to the question as it stood: whatever was written,   *)
(* redefined or asked again since the hand-out, every object its pack       *)
(* looked at had the value it had then, and no guard's record came between. *)
(* And no hand-out claims to have been decided on a world still to come:    *)
(* its objects had these values at once, with its view, by the time claimed.*)
Prefix(n) == SubSeq(rec, 1, n)
Seen(h, n) ==
  [o \in rec[rec[h].val].val |->
     LET own == Matching(Prefix(n), {o}) IN IF own = {} THEN None ELSE rec[Max(own)].val]

AnswersAreFresh ==
  \A n \in 1..Len(rec) :
    rec[n].k = "answer" =>
      /\ Seen(rec[n].ref, rec[n].ref) = Seen(rec[n].ref, n)
      /\ rec[rec[n].ref].guard # 0 =>
           \A m \in rec[n].ref..n :
             rec[m].k = "write" => rec[m].obj \notin rec[rec[rec[n].ref].guard].val
      /\ rec[rec[n].ref].claim # 0 =>
           \E m \in rec[rec[n].ref].val..rec[rec[n].ref].claim :
             Seen(rec[n].ref, m) = Seen(rec[n].ref, n)

(* What is closed stays closed: an answered question is not answered again, *)
(* and one that was asked anew gets no late answer, nor does word of its    *)
(* credential arrive; and an open one whose ground has moved gets none.     *)
ClosedStaysClosedStep ==
  /\ \A h \in StaleCrossings : Answers(rec', h) = Answers(rec, h)
  /\ \A h \in Handouts(rec) :
       StateOf(rec, h) # "open" =>
         /\ Answers(rec', h) = Answers(rec, h)
         /\ CredentialVerified(rec', h) = CredentialVerified(rec, h)
         /\ StateOf(rec', h) = StateOf(rec, h)

=============================================================================
