---------------------------- MODULE Obligations ----------------------------
(* The obligation executor (kernel/obligations.py).  An obligation is a     *)
(* record: when its time has elapsed on the recorded ticks, or the act it   *)
(* awaits is on the record, its outcome is due; a driver computes what is   *)
(* due once and fires it, one act after another, through the gate, which    *)
(* may refuse.  That it has fired is read from the record: an act of the    *)
(* outcome that cites the obligation and comes after its present version.   *)
EXTENDS Naturals, Sequences, FiniteSets, SequencesExt

CONSTANTS Obls, Drivers,
          Refused,   \* obligations whose outcome the gate refuses
          Outcomes,  \* parameters of an outcome
          MaxNow,    \* bound: the clock
          MaxAmends  \* bound: versions of one obligation

VARIABLES now,  \* the newest tick
          obl,  \* obligation -> its version, when it is due, what fired since
          todo  \* driver -> what it found due and has not fired

vars == <<now, obl, todo>>

(* A version: made at a tick, due after a time or when an act was seen.     *)
NewVersion(n, at, kind, outcome) ==
  [version |-> n, made |-> at, kind |-> kind, outcome |-> outcome,
   seen |-> FALSE, fired |-> 0]

(* Fired: an act with the parameters of this version came after it.         *)
Fired(o) == obl[o].fired > 0

Ripe(o) == IF obl[o].kind = "elapsed" THEN now > obl[o].made ELSE obl[o].seen

Due(o) == obl[o].version > 0 /\ Ripe(o) /\ ~ Fired(o)

----------------------------------------------------------------------------
Init ==
  /\ now = 0
  /\ obl = [o \in Obls |-> NewVersion(0, 0, "elapsed", CHOOSE c \in Outcomes : TRUE)]
  /\ todo = [d \in Drivers |-> << >>]

Tick == now < MaxNow /\ now' = now + 1 /\ UNCHANGED <<obl, todo>>

(* An obligation is made, or made anew: the new version has not fired.      *)
Create(o) ==
  /\ obl[o].version < MaxAmends
  /\ \E kind \in {"elapsed", "await"}, outcome \in Outcomes :
       obl' = [obl EXCEPT ![o] = NewVersion(@.version + 1, now, kind, outcome)]
  /\ UNCHANGED <<now, todo>>

(* The act obligations await.                                               *)
AwaitedAct ==
  /\ obl' = [o \in Obls |-> [obl[o] EXCEPT !.seen = TRUE]]
  /\ UNCHANGED <<now, todo>>

Begin(d) ==
  /\ todo[d] = << >> /\ \E o \in Obls : Due(o)
  /\ todo' = [todo EXCEPT ![d] =
       LET due == SetToSeq({o \in Obls : Due(o)})
       IN  [i \in 1..Len(due) |-> [o |-> due[i], outcome |-> obl[due[i]].outcome]]]
  /\ UNCHANGED <<now, obl>>

(* Mutant: a refusal ends the pass. *)
FireUntilRefused(d) ==
  /\ todo[d] # << >>
  /\ LET f == Head(todo[d])
     IN  IF f.o \in Refused THEN todo' = [todo EXCEPT ![d] = << >>] /\ UNCHANGED <<now, obl>>
         ELSE /\ todo' = [todo EXCEPT ![d] = Tail(@)]
              /\ obl' = IF obl[f.o].outcome = f.outcome
                        THEN [obl EXCEPT ![f.o].fired = @ + 1] ELSE obl
              /\ UNCHANGED now

(* One act of the pass, with the parameters of when the pass began; one     *)
(* that the gate refuses, or one of a version that asks otherwise by now, is  *)
(* not the firing of the present version.                                   *)
Fire(d) ==
  /\ todo[d] # << >>
  /\ todo' = [todo EXCEPT ![d] = Tail(@)]
  /\ LET f == Head(todo[d])
     IN  obl' = IF f.o \notin Refused /\ obl[f.o].outcome = f.outcome
                THEN [obl EXCEPT ![f.o].fired = @ + 1] ELSE obl
  /\ UNCHANGED now

Next ==
  \/ Tick \/ AwaitedAct
  \/ \E o \in Obls : Create(o)
  \/ \E d \in Drivers : Begin(d) \/ Fire(d)

Fairness == \A d \in Drivers : WF_vars(Begin(d)) /\ WF_vars(Fire(d))
Spec == Init /\ [][Next]_vars /\ Fairness

----------------------------------------------------------------------------
(* What is due fires or is made anew, also behind one the gate refuses.     *)
RipeIsFired ==
  \A o \in Obls \ Refused : Due(o) ~> ~ Due(o)
=============================================================================
