------------------------------ MODULE Runqueue ------------------------------
(* The runnable set: subsystems/scheduling.py and the SCHED operations of   *)
(* the founding pack.  The set is derived, and what is derived may be       *)
(* killed and rebuilt: a wake whose cause other subsystems recorded as an   *)
(* input is dropped from the rebuilding and found again from that input; a  *)
(* wake nothing else explains must stay.                                    *)
EXTENDS OpChecks

CONSTANTS Procs, Causes, Audited, Actors, MaxRec    \* Audited: causes that get recorded

VARIABLES rec, inputs      \* the record; the causes recorded as inputs
vars == <<rec, inputs>>

SchedAdmit  == Plain("SCHED-ADMIT", {"proc", "priority", "wake_cause"})
Deschedule  == Plain("DESCHEDULE", {"proc", "cause"})
SetPriority == Plain("SET-PRIORITY", {"proc", "priority"})
SchedHalt   == Plain("SCHED-HALT", {"scope"})
SchedResume == Plain("SCHED-RESUME", {"scope"})
SchedKill   == Plain("SCHED-KILL", {"proc"})

SchedulingActions == {"SCHED-ADMIT", "SET-PRIORITY", "DESCHEDULE", "SCHED-KILL",
                      "SCHED-HALT", "SCHED-RESUME"}

Without(f, x) == [y \in DOMAIN f \ {x} |-> f[y]]

(* The views. *)
Runnable(r) ==
  FoldLeft(LAMBDA run, e :
             CASE e.action = "SCHED-ADMIT" ->
                    (e.payload.proc :> IF e.payload.priority = None THEN "normal"
                                       ELSE e.payload.priority) @@ run
               [] e.action = "SET-PRIORITY" /\ e.payload.proc \in DOMAIN run ->
                    [run EXCEPT ![e.payload.proc] = e.payload.priority]
               [] e.action \in {"DESCHEDULE", "SCHED-KILL"} -> Without(run, e.payload.proc)
               [] OTHER -> run,
           << >>, Family(r, SchedulingActions))

Halted(r) ==
  FoldLeft(LAMBDA h, e : IF e.action = "SCHED-HALT" THEN TRUE
                         ELSE IF e.action = "SCHED-RESUME" THEN FALSE ELSE h,
           FALSE, Family(r, SchedulingActions))

(* The runnable set of the full record. *)
RunqueueOf(r) ==
  FoldLeft(LAMBDA run, e : CASE e.action = "SCHED-ADMIT" -> run \cup {e.payload.proc}
                             [] e.action \in {"DESCHEDULE", "SCHED-KILL"}
                                  -> run \ {e.payload.proc}
                             [] OTHER -> run,
           {}, r)

(* The rebuilt one: what runs and what waits for which cause.               *)
Step(q, e, fills) ==
  CASE e.action = "SCHED-ADMIT" /\ e.payload.wake_cause \in fills ->
         [q EXCEPT !.blocked = (e.payload.proc :> e.payload.wake_cause) @@ @]
    [] e.action = "SCHED-ADMIT" /\ e.payload.wake_cause \notin fills ->
         [run |-> q.run \cup {e.payload.proc}, blocked |-> Without(q.blocked, e.payload.proc)]
    [] e.action = "DESCHEDULE" ->
         [run |-> q.run \ {e.payload.proc},
          blocked |-> (e.payload.proc :> e.payload.cause) @@ q.blocked]
    [] e.action = "SCHED-KILL" ->
         [run |-> q.run \ {e.payload.proc}, blocked |-> Without(q.blocked, e.payload.proc)]
    [] OTHER -> q

RebuiltBy(r, recorded, fills) ==
  LET q == FoldLeft(LAMBDA s, e : Step(s, e, fills), [run |-> {}, blocked |-> << >>], r)
  IN  q.run \cup {p \in DOMAIN q.blocked : q.blocked[p] \in recorded}

ReconstructRunqueue(r, recorded) == RebuiltBy(r, recorded, recorded)

-----------------------------------------------------------------------------
Do(op, d, actor, p) ==
  /\ Len(rec) < MaxRec
  /\ Admitted(rec, d, actor, p, << >>)
  /\ rec' = Appended(rec, op, d, actor, p)
  /\ UNCHANGED inputs

Schedule(a, p) ==
  \/ \E c \in Causes \cup {None} :
       Do("SCHED-ADMIT", SchedAdmit, a, [proc |-> p, wake_cause |-> c])
  \/ \E c \in Causes : Do("DESCHEDULE", Deschedule, a, [proc |-> p, cause |-> c])
  \/ Do("SET-PRIORITY", SetPriority, a, [proc |-> p, priority |-> "rt"])
  \/ Do("SCHED-KILL", SchedKill, a, [proc |-> p])
Halt(a)   == Do("SCHED-HALT", SchedHalt, a, << >>)
Resume(a) == Do("SCHED-RESUME", SchedResume, a, << >>)

(* An audited cause occurs, and its subsystem records it. *)
Arrive == /\ \E c \in Audited \ inputs : inputs' = inputs \cup {c}
          /\ UNCHANGED rec

Init == rec = << >> /\ inputs = {}
Next == \/ \E a \in Actors : Halt(a) \/ Resume(a) \/ \E p \in Procs : Schedule(a, p)
        \/ Arrive
Spec == Init /\ [][Next]_vars

-----------------------------------------------------------------------------
(* Killing the derived set loses nobody: whoever runs by the record is in   *)
(* the rebuilt set, in the priority view too, and whoever is there besides  *)
(* was last blocked on a cause that has been recorded.  Pauses move nobody. *)
NobodyIsLost ==
  LET run     == RunqueueOf(rec)
      rebuilt == ReconstructRunqueue(rec, inputs)
  IN  /\ run \subseteq rebuilt
      /\ run = DOMAIN Runnable(rec)
      /\ \A p \in rebuilt \ run :
           Last(SelectSeq(rec, LAMBDA e : e.action \in SchedulingActions \ {"SET-PRIORITY"}
                                          /\ Get(e.payload, "proc") = p)).payload.cause
             \in inputs
      /\ Halted(rec) <=> \E n \in DOMAIN rec :
           rec[n].action = "SCHED-HALT" /\ \A k \in n..Len(rec) : rec[k].action # "SCHED-RESUME"
=============================================================================
