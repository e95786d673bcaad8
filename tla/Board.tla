--------------------------------- MODULE Board ---------------------------------
(* The board of an estate's work (tools/board/board.py): a log of events,    *)
(* one a line, that is only appended to, and the state of each item as the   *)
(* fold of it.  An item can wait for the world and for a seat at once; an    *)
(* event that does not say which of two it ends, ends none, until a later    *)
(* line says which it was.  A line the fold cannot read exactly refuses it   *)
(* whole.  An event is referred to by date and kind, and where these name    *)
(* several by the digest of its text: a prefix is the set of texts it opens. *)
EXTENDS Naturals, Sequences, SequencesExt, FiniteSets, FiniteSetsExt

CONSTANTS None,
          Foundings,  \* logs the board may start from
          Lines,      \* lines that may be appended
          MaxLines    \* bound: lines appended

VARIABLES log, founded

vars == <<log, founded>>

Pending     == {"HELD", "OWED"}
RecordPlane == {"NOTED", "SEATED", "DISAMBIGUATED", "COUNTERSIGNED"}

-----------------------------------------------------------------------------
(* Reading the lines.  Two events may have been glued on one line: they are  *)
(* two if the line was pinned as it is, else the first takes the rest for    *)
(* its clause and the reader is told.                                        *)
Glued(line) == Len(line.events) = 2
Intact(line) == line.pin = "as it is"
ReadLine(line) == IF Glued(line) /\ Intact(line) THEN line.events ELSE <<Head(line.events)>>
Alarmed(line) == ~Intact(line) /\ (Glued(line) \/ line.pin = "changed")

EventsOf(n) == [k \in DOMAIN ReadLine(log[n]) |->
                  ReadLine(log[n])[k] @@ [line |-> n, seed |-> log[n].seed]]
(* What was seeded is folded first, also what was written before the seed.   *)
Ordered(n) ==
  LET read == FlattenSeq([k \in 1..n |-> EventsOf(k)])
  IN SelectSeq(read, LAMBDA e : e.seed) \o SelectSeq(read, LAMBDA e : ~e.seed)

-----------------------------------------------------------------------------
(* References.  A digest is always checked: it must open the text of one     *)
(* event of the record, and of one that the date and the kind name.          *)
Earlier(evs, i, item, ref) ==
  {j \in 1..(i - 1) : evs[j].item = item /\ evs[j].date = ref.date /\ evs[j].kind = ref.kind}
Opens(evs, digest) == {j \in DOMAIN evs : evs[j].text \in digest}
Pinned(evs, ref, candidates) ==
  IF ref.digest = None THEN candidates
  ELSE IF Cardinality(Opens(evs, ref.digest)) = 1 /\ Opens(evs, ref.digest) \subseteq candidates
  THEN Opens(evs, ref.digest) ELSE {}

(* A line that says which state a past ending ended.                         *)
Sayings(evs) == {i \in DOMAIN evs : evs[i].kind = "DISAMBIGUATED"}
Said(evs, i) == Pinned(evs, evs[i].ref, Earlier(evs, i, evs[i].item, evs[i].ref))
SaysOfOne(evs, i) == Cardinality(Said(evs, i)) = 1
Disambiguations(evs) ==
  [e \in UNION {Said(evs, i) : i \in Sayings(evs)} |->
     CHOOSE i \in Sayings(evs) : e \in Said(evs, i)]
SayingsRefuse(evs) ==
  \/ \E i \in Sayings(evs) : ~SaysOfOne(evs, i)
  \/ \E i, k \in Sayings(evs) : i # k /\ Said(evs, i) \cap Said(evs, k) # {}

(* An event that pairs itself with one of another item.                      *)
Pairings(evs) == {i \in DOMAIN evs : evs[i].pair # None}
PairNames(evs, i) == Earlier(evs, i, evs[i].pair.item, evs[i].pair)
PairTarget(evs, i) == Pinned(evs, evs[i].pair, PairNames(evs, i))
PairsRefuse(evs) ==
  \E i \in Pairings(evs) :
    \/ evs[i].pair.digest # None /\ PairTarget(evs, i) = {}
    \/ evs[i].pair.digest = None /\ Cardinality(PairNames(evs, i)) > 1

-----------------------------------------------------------------------------
(* The fold.  A board holds the state of each item, the pendings that stand  *)
(* open in it, the line that closed an event or voided it, how each ending   *)
(* was read, and whether it is refused.                                      *)
Blank(evs) ==
  [state  |-> [item \in {evs[i].item : i \in DOMAIN evs} |-> 0],
   open   |-> [item \in {evs[i].item : i \in DOMAIN evs} |-> {}],
   closed |-> [i \in DOMAIN evs |-> 0], voided |-> [i \in DOMAIN evs |-> 0],
   ending |-> [i \in DOMAIN evs |-> None], refused |-> FALSE]

Close(b, evs, i, these) ==
  [b EXCEPT !.open[evs[i].item] = @ \ these,
            !.closed = [j \in DOMAIN evs |-> IF j \in these THEN evs[i].line ELSE @[j]]]

OpenOf(b, evs, i, kinds) == {j \in b.open[evs[i].item] : evs[j].kind \in kinds}

Open(b, evs, i) ==
  LET closed == Close(b, evs, i, OpenOf(b, evs, i, {evs[i].kind}))
  IN [closed EXCEPT !.open[evs[i].item] = @ \cup {i}]

(* A correction voids the last event its reference names, and ends it if it  *)
(* was pending; of one that names nothing nothing but the line itself stays. *)
Superseded(b, evs, i) ==
  {j \in Earlier(evs, i, evs[i].item, evs[i].ref) : b.voided[j] = 0}
Target(b, evs, i) ==
  IF evs[i].kind # "CORRECTED" \/ evs[i].ref = None \/ Superseded(b, evs, i) = {} THEN {}
  ELSE {Max(Superseded(b, evs, i))}
Named(b, evs, i) == Target(b, evs, i) \cap b.open[evs[i].item]
Correct(b, evs, i) ==
  LET voided == [b EXCEPT !.voided = [j \in DOMAIN evs |->
                                        IF j \in Target(b, evs, i) THEN evs[i].line ELSE @[j]]]
  IN Close(voided, evs, i, Named(b, evs, i))

(* What an ending that names nothing ends: the one that is open, of two none *)
InferredFirst(open) == IF open = {} THEN {} ELSE {Min(open)}
Inferred(open) == IF Cardinality(open) >= 2 THEN {} ELSE open

(* An ending: as a later line says of it, or as it names, or as is inferred. *)
End(b, evs, i, named) ==
  LET open  == b.open[evs[i].item]
      later == Disambiguations(evs)
      kinds == {evs[j].kind : j \in IF named # {} THEN named ELSE open}
  IN IF i \in DOMAIN later
     THEN LET ended == evs[later[i]].ended
          IN [Close(b, evs, i, OpenOf(b, evs, i, {ended})) EXCEPT
                !.ending[i] = "named", !.refused = @ \/ ended \notin kinds]
     ELSE IF named # {} THEN [b EXCEPT !.ending[i] = "named"]
     ELSE [Close(b, evs, i, Inferred(open)) EXCEPT
             !.ending[i] = IF Cardinality(open) >= 2 THEN "ambiguous" ELSE "single"]

Step(b, evs, i) ==
  LET kind == evs[i].kind
      moved == IF kind \in RecordPlane THEN b
               ELSE IF kind \in Pending THEN Open(b, evs, i)
               ELSE End(Correct(b, evs, i), evs, i, Named(b, evs, i))
  IN IF kind \in RecordPlane THEN b ELSE [moved EXCEPT !.state[evs[i].item] = i]

Fold(evs) ==
  LET upto[n \in 0..Len(evs)] == IF n = 0 THEN Blank(evs) ELSE Step(upto[n - 1], evs, n)
      board == upto[Len(evs)]
  IN [board EXCEPT !.refused = @ \/ SayingsRefuse(evs) \/ PairsRefuse(evs)]

(* A side of a pair stands while it is its item's state, or open in it.      *)
Stands(b, evs, i) == b.state[evs[i].item] = i \/ i \in b.open[evs[i].item]
HalfEnded(b, evs) ==
  {i \in Pairings(evs) : \E j \in PairTarget(evs, i) : Stands(b, evs, i) # Stands(b, evs, j)}

(* What one event did, as the echo reports it from the fold of the record.   *)
Echo(b, evs, i) ==
  LET before == {j \in 1..(i - 1) : evs[j].item = evs[i].item /\ evs[j].kind \notin RecordPlane}
      ended  == {j \in DOMAIN evs : b.closed[j] = evs[i].line} \ {i}
  IN [before |-> IF before = {} THEN 0 ELSE Max(before),
      after  |-> IF evs[i].kind \notin RecordPlane THEN i
                 ELSE IF before = {} THEN 0 ELSE Max(before),
      ended  |-> ended,
      opened |-> {i} \cap {j \in DOMAIN evs : evs[j].kind \in Pending},
      voided |-> {j \in DOMAIN evs : b.voided[j] = evs[i].line} \ ended]

(* The subject of an echo: the file's last line, or the one a reference      *)
(* names.  The fold's last event may be of an older line than the seed's.    *)
EchoSubject(evs, ref) ==
  IF ref = None THEN {Max({i \in DOMAIN evs : \A j \in DOMAIN evs : evs[j].line <= evs[i].line})}
  ELSE LET named == Pinned(evs, ref, {j \in DOMAIN evs : evs[j].date = ref.date /\ evs[j].kind = ref.kind})
       IN IF Cardinality(named) = 1 THEN named ELSE {}

-----------------------------------------------------------------------------
Init == founded \in 1..Len(Foundings) /\ log = Foundings[founded]

AppendLine(line) ==
  /\ Len(log) < Len(Foundings[founded]) + MaxLines
  /\ log' = Append(log, line @@ [seed |-> FALSE])
  /\ UNCHANGED founded

Next == \E line \in Lines : AppendLine(line)

Spec == Init /\ [][Next]_vars

-----------------------------------------------------------------------------
Now    == Ordered(Len(log))
Before == Ordered(Len(log) - 1)
Grew   == Len(log) > Len(Foundings[founded])

(* A pending stands open exactly while nothing closed it, and an item has    *)
(* one of a kind open.                                                       *)
OpenIsUnclosed ==
  LET evs == Now
      b == Fold(evs)
  IN \A item \in DOMAIN b.open :
       /\ b.open[item] = {i \in DOMAIN evs : /\ evs[i].item = item /\ evs[i].kind \in Pending
                                             /\ b.closed[i] = 0}
       /\ \A i, j \in b.open[item] : evs[i].kind = evs[j].kind => i = j

(* No line brings back what was closed, voided or ended before it, or makes  *)
(* a pair whole that was half ended, and none makes a record readable that   *)
(* was not (the fold refuses whole).                                         *)
NothingReopens ==
  Grew =>
    LET was == Fold(Before)
        is  == Fold(Now)
    IN /\ was.refused => is.refused
       /\ ~is.refused =>
            \A i \in DOMAIN Before :
              /\ was.closed[i] # 0 => is.closed[i] \in 1..was.closed[i]
              /\ was.voided[i] # 0 => is.voided[i] = was.voided[i]
              /\ ~Stands(was, Before, i) => ~Stands(is, Now, i)
              /\ i \in HalfEnded(was, Before) =>
                   \E j \in {i} \cup PairTarget(Now, i) : ~Stands(is, Now, j)

(* Lines of the record plane leave every item's state and pendings as they   *)
(* are without them, but for the one that says what an ending ended.         *)
RecordPlaneMovesNothing ==
  LET evs   == Now
      plain == SelectSeq(evs, LAMBDA e : e.kind \notin RecordPlane \ {"DISAMBIGUATED"})
      b     == Fold(evs)
      p     == Fold(plain)
      place(i) == CHOOSE k \in DOMAIN plain : plain[k] = evs[i]
  IN ~b.refused /\ ~p.refused =>
       \A item \in DOMAIN p.state :
         /\ b.state[item] # 0 => p.state[item] = place(b.state[item])
         /\ p.open[item] = {place(i) : i \in b.open[item]}

(* The echo of the line just written tells what it changed on the board, if  *)
(* the line is one event and not a saying about a past one.                  *)
EchoTellsTheChange ==
  Grew /\ Len(ReadLine(Last(log))) = 1 /\ Last(log).events[1].kind # "DISAMBIGUATED" =>
    LET evs  == Now
        was  == Fold(Before)
        is   == Fold(evs)
        echo == Echo(is, evs, Len(evs))
        item == Last(evs).item
    IN ~is.refused =>
         /\ EchoSubject(evs, None) = {Len(evs)}
         /\ echo.after = is.state[item]
         /\ echo.before = IF item \in DOMAIN was.state THEN was.state[item] ELSE 0
         /\ echo.ended = {i \in DOMAIN Before : was.closed[i] = 0 /\ is.closed[i] # 0}
         /\ echo.opened \subseteq is.open[item]
         /\ echo.voided \cup echo.ended
              = echo.ended \cup {i \in DOMAIN Before : was.voided[i] = 0 /\ is.voided[i] # 0}

(* An event that is written and not read is one the reader is told of.       *)
NothingIsSwallowed ==
  \A n \in DOMAIN log : Len(ReadLine(log[n])) < Len(log[n].events) => Alarmed(log[n])

BoardIsItsLog ==
  /\ NothingIsSwallowed /\ OpenIsUnclosed /\ NothingReopens /\ RecordPlaneMovesNothing
  /\ EchoTellsTheChange
=============================================================================
