---------------------------- MODULE MCGroupCommit ----------------------------
(* What is started gets done, for TLC: acts that go through the write path, *)
(* audited acts whose writes may fail at any point, acts without end, and,  *)
(* apart from them, obligations that become due.  A behaviour is one of the *)
(* four; the variables of the others keep their initial state.              *)
EXTENDS GroupCommit

CONSTANTS t1, t2, t3

ThreeThreads == {t1, t2, t3}
NoThreads    == {}

VARIABLES part, now, obl, todo, window, kept, told

oblVars  == <<now, obl, todo>>
longVars == <<window, kept, told>>
all      == <<part, vars, oblVars, longVars>>

(* Two drivers (the waking and the clock's tick) over an obligation that    *)
(* fires and one whose outcome the gate refuses.                            *)
Drivers == {"wake", "tick"}

Owed == INSTANCE Obligations WITH
  Obls <- {"bill", "renew"}, Refused <- {"bill"}, Outcomes <- {1, 2},
  MaxNow <- 1, MaxAmends <- 2

(* Two of the threads, whose audited acts meet every failure there is.      *)
Failing == INSTANCE GroupCommit WITH
  Direct <- {}, Audited <- {TRUE}, Faults <- {"countersign", "write", "listener", "barrier"},
  MaxActs <- 1, MaxPubs <- 1, MaxCrashes <- 0

(* Three threads that submit for ever, over a log of their own of which     *)
(* only the end is kept.  No guard of the write path reads a record or      *)
(* compares two places of the log, so nothing waits on what is left out.    *)
Endless == INSTANCE GroupCommit WITH
  events <- window, durable <- kept, acked <- told, Faults <- {}, MaxCrashes <- 0

AtMostOne(i) == IF i > 1 THEN 1 ELSE i

(* A thread whose act ended may begin another, and all that is in the log   *)
(* by now is one record.                                                    *)
Again(t) ==
  /\ pc[t] = "idle" /\ act[t] = MaxActs
  /\ act' = [act EXCEPT ![t] = 0]
  /\ told' = {}
  /\ IF window # <<>>
       THEN /\ window' = << [window[1] EXCEPT !.by = t1, !.saw = 0] >>
            /\ kept' = AtMostOne(kept) /\ mark' = AtMostOne(mark) /\ cur' = AtMostOne(cur) /\ saw' = AtMostOne(saw)
            /\ pending' = [u \in Threads |-> [i \in DOMAIN pending[u] |-> AtMostOne(pending[u][i])]]
       ELSE UNCHANGED <<window, kept, mark, cur, saw, pending>>
  /\ UNCHANGED <<events, durable, acked, crashes, broken, region, pubs, writer, appender, batch,
                 verdict, queue, pc, err, reply>>

InCommit(A) == part = "commit" /\ A /\ UNCHANGED <<part, oblVars, longVars>>
InFailing(A) ==
  part = "failing" /\ A /\ act'[t3] = 0 /\ UNCHANGED <<part, oblVars, longVars>>
InEndless(A) == part = "endless" /\ A /\ UNCHANGED <<part, oblVars, events, durable, acked>>
InOwed(A)   == part = "obligations" /\ A /\ UNCHANGED <<part, vars, longVars>>

MCInit ==
  Init /\ Owed!Init /\ Endless!Init /\ part \in {"commit", "failing", "endless", "obligations"}

(* The estate may have nothing left to do: obligations come to rest, and so *)
(* do the failing acts, whose third thread never starts.                    *)
MCNext ==
  \/ InCommit(Next) \/ InFailing([Failing!Next]_vars) \/ InOwed([Owed!Next]_oblVars)
  \/ InEndless(Endless!Next \/ \E t \in Threads : Again(t))

(* The threads are scheduled, and each driver's pass goes on.               *)
MCSpec ==
  /\ MCInit /\ [][MCNext]_all
  /\ \A t \in Threads : /\ WF_all(InCommit(Step(t))) /\ WF_all(InFailing(Failing!Step(t)))
                        /\ WF_all(InEndless(Endless!Step(t)))
  /\ \A d \in Drivers : WF_all(InOwed(Owed!Begin(d))) /\ WF_all(InOwed(Owed!Fire(d)))

-----------------------------------------------------------------------------
(* What is due fires or is made anew, also behind one the gate refuses      *)
(* (obligations.run_due goes on after a refusal).                           *)
RipeIsFired == Owed!RipeIsFired
=============================================================================
