------------------------------ MODULE RecordLog ------------------------------
(***************************************************************************)
(* What the record store promises its callers, with no threads, locks,     *)
(* queues or batches: one append-only log, a prefix of it that is on the   *)
(* disk, and replies that are released only for records of that prefix.    *)
(* A crash may lose any part of the log above the durable prefix, and no   *)
(* part of the prefix.  (kernel/store.py, kernel/commit.py: "a reply is    *)
(* released only after the sync covering its record".)                     *)
(***************************************************************************)
EXTENDS Naturals, Sequences

VARIABLES log,      \* the visible record, in seq order
          durable,  \* length of the prefix a crash cannot take back
          acked     \* the records whose success was reported to a caller

vars == <<log, durable, acked>>

Init == log = <<>> /\ durable = 0 /\ acked = {}

(* One record becomes visible at the end of the log. *)
Publish == /\ Len(log') = Len(log) + 1
           /\ SubSeq(log', 1, Len(log)) = log
           /\ UNCHANGED <<durable, acked>>

(* A barrier completes: the durable prefix grows. *)
Sync == /\ durable' \in durable .. Len(log)
        /\ UNCHANGED <<log, acked>>

(* Replies are released, and only about durable records. *)
Acknowledge == /\ acked \subseteq acked'
               /\ acked' \subseteq acked \cup {log[i] : i \in 1 .. durable}
               /\ UNCHANGED <<log, durable>>

(* The process dies and the record file is opened again. *)
Restart == /\ durable' \in durable .. Len(log)
           /\ log' = SubSeq(log, 1, durable')
           /\ UNCHANGED acked

Next == Publish \/ Sync \/ Acknowledge \/ Restart

Spec == Init /\ [][Next]_vars
=============================================================================
