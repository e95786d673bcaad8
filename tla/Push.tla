-------------------------------- MODULE Push --------------------------------
(* The standing push worker and the priority lanes (kernel/push.py).  One   *)
(* engine, stepped once per record, delivers records to the channel a view  *)
(* moves them to and laws to the sessions whose view they reach, under a    *)
(* budget that is itself law.  It has two drivers: the worker, as records   *)
(* are appended, and the derivation, over the whole record.                 *)
(*                                                                          *)
(* One view and one channel; a record is of a topic, and the view asks for  *)
(* one topic.                                                               *)
EXTENDS Naturals, Sequences, SequencesExt, FiniteSets, FiniteSetsExt

CONSTANTS Topics, Sessions,
          Budgets,     \* values of the budget rule, see NoLimit
          MaxRec,      \* bound: length of the record
          MaxWaiting,  \* bound: submissions waiting at the intake
          Infinite,    \* no cap, a number above every count
          None

VARIABLES rec, engine, move,  \* the record, the worker's engine and its definition
          intake,             \* submissions waiting
          moved               \* history: a restart, a policy undone, a session returned

vars == <<rec, engine, move, intake, moved>>

Channel == 0  \* the queue of the channel, no session's name

NoLimit == [cycle |-> Infinite, reserve |-> 0, depth |-> Infinite, first |-> "law"]

Entry(k, topic, value) == [k |-> k, topic |-> topic, value |-> value]
IsLaw(e) == e.k \in {"law", "budget"}
LaneOf(e) == IF IsLaw(e) THEN "law" ELSE "ordinary"

(* The engine.  Sessions are kept in the order they came in: a session that  *)
(* is live has the number of the record that brought it, another has 0.     *)
NoSessions == [s \in Sessions |-> 0]

NewEngine(budget, sessions) ==
  [budget |-> budget, sessions |-> sessions, channel |-> << >>, delivered |-> << >>,
   dangling |-> {}, pending |-> << >>, shed |-> << >>, starved |-> << >>]

(* The current view: the topic it asks for, whether it moves records, and   *)
(* the record that defined it.                                              *)
ViewOf(rc) ==
  LET defs == {n \in 1..Len(rc) : rc[n].k = "view"}
  IN  IF defs = {} THEN None
      ELSE [topic |-> rc[Max(defs)].topic, moves |-> rc[Max(defs)].value, seq |-> Max(defs)]

(* The registry of sessions keeps a closed one in its place, to which it    *)
(* returns when it is opened again.                                         *)
LiveSessions(rc) ==
  [s \in Sessions |->
     LET own == {n \in 1..Len(rc) : rc[n].k \in {"open", "close"} /\ rc[n].value = s}
     IN  IF own # {} /\ rc[Max(own)].k = "open" THEN Min({n \in own : rc[n].k = "open"}) ELSE 0]

PolicyValue(rc) ==
  LET live == {n \in 1..Len(rc) : /\ rc[n].k = "budget"
                                  /\ ~ \E u \in 1..Len(rc) : rc[u].k = "undo" /\ rc[u].value = n}
  IN  IF live = {} THEN NoLimit ELSE rc[Max(live)].value

(* Enqueue, and shed the oldest of the lane over its depth.                 *)
OnLane(items, lane) == SelectSeq(items, LAMBDA i : i.lane = lane)

Enqueue(eng, item) ==
  LET with == Append(eng.pending, item)
      same == OnLane(with, item.lane)
  IN  IF Len(same) <= eng.budget.depth THEN [eng EXCEPT !.pending = with]
      ELSE [eng EXCEPT !.pending = Remove(with, Head(same)),
                       !.shed = Append(@, Head(same))]

(* The cycle: the reserve is for its lane, the rest for whoever is first.   *)
Reserve(b) == IF b.cycle = Infinite THEN Infinite
              ELSE IF b.reserve < b.cycle THEN b.reserve ELSE b.cycle
General(b) == IF b.cycle = Infinite THEN Infinite ELSE b.cycle - Reserve(b)

Serve(budget, acc, item) ==
  IF acc.general = Infinite THEN [acc EXCEPT !.served = Append(@, item)]
  ELSE IF item.lane = budget.first /\ acc.reserve > 0
  THEN [acc EXCEPT !.reserve = @ - 1, !.served = Append(@, item)]
  ELSE IF acc.general > 0
  THEN [acc EXCEPT !.general = @ - 1, !.served = Append(@, item)]
  ELSE [acc EXCEPT !.kept = Append(@, item)]

Cycle(budget, pending) ==
  FoldLeft(LAMBDA acc, item : Serve(budget, acc, item),
           [reserve |-> Reserve(budget), general |-> General(budget),
            served |-> << >>, kept |-> << >>], pending)

ToChannel(items) ==
  LET own == SelectSeq(items, LAMBDA i : i.to = Channel)
  IN  [i \in 1..Len(own) |-> own[i].n]
ToSessions(items) == SelectSeq(items, LAMBDA i : i.to # Channel)

Drain(eng) ==
  LET end == Cycle(eng.budget, eng.pending)
  IN  [eng EXCEPT !.pending = end.kept,
                  !.starved = @ \o OnLane(end.kept, eng.budget.first),
                  !.channel = @ \o ToChannel(end.served),
                  !.delivered = @ \o ToSessions(end.served)]

Absorb(eng, e, n) ==
  CASE e.k = "budget" -> [eng EXCEPT !.budget = e.value]
    [] e.k = "open"   -> [eng EXCEPT !.sessions[e.value] = IF @ = 0 THEN n ELSE @]
    [] e.k = "close"  -> [eng EXCEPT !.sessions[e.value] = 0]
    [] OTHER          -> eng

Item(e, n, to) == [lane |-> LaneOf(e), n |-> n, to |-> to]

(* Sessions are told of laws their view reaches, by what it is now.         *)
TargetSessions(eng, e, n, view) ==
  IF ~ IsLaw(e) THEN eng
  ELSE IF view = None
  THEN [eng EXCEPT !.dangling = @ \cup {s \in Sessions : eng.sessions[s] # 0}]
  ELSE IF e.topic # view.topic THEN eng
  ELSE LET at(i) == {s \in Sessions : eng.sessions[s] = i}
           told[i \in 0..n] ==
             IF i = 0 THEN eng
             ELSE IF at(i) = {} THEN told[i-1]
             ELSE Enqueue(told[i-1], Item(e, n, CHOOSE s \in at(i) : TRUE))
       IN  told[n]

(* One record: policy and sessions, the channel, the sessions, a cycle.     *)
Step(eng, e, n, def, view) ==
  LET absorbed == Absorb(eng, e, n)
      moves == def # None /\ def.moves /\ n > def.seq /\ e.topic = def.topic
      queued == IF moves THEN Enqueue(absorbed, Item(e, n, Channel)) ELSE absorbed
  IN  Drain(TargetSessions(queued, e, n, view))

(* The derivation, over every record, by what is defined now.               *)
Along(rc) ==
  LET def == ViewOf(rc)
      after[n \in 0..Len(rc)] ==
        IF n = 0 THEN NewEngine(NoLimit, NoSessions) ELSE Step(after[n-1], rc[n], n, def, def)
  IN  after

Derive(rc) == Along(rc)[Len(rc)]

(* What is told of an engine: deliveries are kept by session.               *)
OwnDeliveries(eng, s) == SelectSeq(eng.delivered, LAMBDA i : i.to = s)
Report(eng) ==
  [eng EXCEPT !.sessions = NoSessions, !.delivered = [s \in Sessions |-> OwnDeliveries(eng, s)]]

----------------------------------------------------------------------------
Init ==
  /\ rec = << >> /\ engine = NewEngine(NoLimit, NoSessions) /\ move = None
  /\ intake = << >> /\ moved = FALSE

(* A new definition throws away what the old one delivered.                 *)
Resync(rc) ==
  /\ engine' = [Derive(rc) EXCEPT !.budget = PolicyValue(rc), !.sessions = LiveSessions(rc)]
  /\ move' = ViewOf(rc)

(* Mutant: a new definition counts from now on. *)
OnAppendWithoutResync(rc) ==
  /\ move' = ViewOf(rc)
  /\ engine' = Step(engine, Last(rc), Len(rc), move, ViewOf(rc))

OnAppend(rc) ==
  IF Last(rc).k = "view" THEN Resync(rc)
  ELSE /\ engine' = Step(engine, Last(rc), Len(rc), move, ViewOf(rc))
       /\ move' = move

Record(e) == rec' = Append(rec, e) /\ OnAppend(rec')

(* What may wait for its turn: traffic and laws.                            *)
Requests == {Entry(k, t, None) : k \in {"traffic", "law"}, t \in Topics}

Act ==
  /\ Len(rec) < MaxRec
  /\ \/ \E e \in Requests : Record(e)
     \/ \E b \in Budgets : Record(Entry("budget", None, b))
     \/ \E t \in Topics, m \in BOOLEAN : Record(Entry("view", t, m))
     \/ \E s \in Sessions : Record(Entry("close", None, s))
  /\ UNCHANGED <<intake, moved>>

(* A session is opened; no guard keeps its identity from being used again.  *)
Returns(rc, s) ==
  \E m, n \in 1..Len(rc) :
    /\ m < n /\ rc[m].k = "open" /\ rc[n].k = "close"
    /\ rc[m].value = s /\ rc[n].value = s

OpenSession ==
  /\ Len(rec) < MaxRec
  /\ \E s \in Sessions :
       /\ Record(Entry("open", None, s))
       /\ moved' = (moved \/ Returns(rec, s))
  /\ UNCHANGED intake

(* A budget in force is undone, by a later rule's retirement or a sweep.    *)
Undo ==
  /\ Len(rec) < MaxRec
  /\ \E n \in 1..Len(rec) :
       rec[n].k = "budget" /\ Record(Entry("undo", None, n))
  /\ moved' = TRUE
  /\ UNCHANGED intake

(* The worker of a new process starts with the policy and the sessions of   *)
(* the record and nothing else.                                             *)
Restart ==
  /\ rec # << >>
  /\ engine' = NewEngine(PolicyValue(rec), LiveSessions(rec))
  /\ move' = ViewOf(rec)
  /\ intake' = << >> /\ moved' = TRUE
  /\ UNCHANGED rec

----------------------------------------------------------------------------
(* The intake: what waits is let through law first, in the order it came.   *)
Submit ==
  /\ Len(intake) < MaxWaiting
  /\ \E e \in Requests : intake' = Append(intake, e)
  /\ UNCHANGED <<rec, engine, move, moved>>

Rank(e) == IF LaneOf(e) = engine.budget.first THEN 0 ELSE 1

Through(n) ==
  \A m \in 1..Len(intake) :
    Rank(intake[n]) < Rank(intake[m]) \/ (Rank(intake[n]) = Rank(intake[m]) /\ n <= m)

LetThrough ==
  /\ Len(rec) < MaxRec
  /\ \E n \in 1..Len(intake) :
       /\ Through(n)
       /\ Record(intake[n])
       /\ intake' = RemoveAt(intake, n)
  /\ UNCHANGED moved

Next == Act \/ OpenSession \/ Undo \/ Restart \/ Submit \/ LetThrough

Spec == Init /\ [][Next]_vars

----------------------------------------------------------------------------
(* The worker holds what the derivation computes, unless it was restarted,  *)
(* a policy was undone, or a session was opened after it was closed: the    *)
(* registry gives that one its old place, the engine the last.              *)
StandingIsDerived == ~ moved => Report(engine) = Report(Derive(rec))

(* The reserve is for its lane: a cycle that leaves some of it waiting has   *)
(* delivered of it all that is reserved, whatever else was waiting.         *)
OfLane(eng, items) == Len(OnLane(items, eng.budget.first))
DeliveredOf(eng) ==
  OfLane(eng, eng.delivered)
    + Len(SelectSeq(eng.channel, LAMBDA n : LaneOf(rec[n]) = eng.budget.first))
ReserveIsKeptStep ==
  (/\ rec' # rec /\ move' = move /\ engine'.budget = engine.budget
   /\ engine'.budget.cycle # Infinite /\ OfLane(engine', engine'.pending) > 0)
  => (DeliveredOf(engine))' >= DeliveredOf(engine) + Reserve(engine.budget)

=============================================================================
