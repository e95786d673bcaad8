------------------------------ MODULE Postman ------------------------------
(* The carrier of tools/postman: what seats write in their transcripts is   *)
(* captured into an append-only log by a reader, and rung at its addressee  *)
(* by a worker; the log is both the record and the durable form of the      *)
(* queue.  A transcript is the sequence of its complete outputs; an output  *)
(* holds one message, or a start tag with no end.  A kill may come between  *)
(* any two appends.  A message's id is its seat and its body, as in msg_id. *)
(* How long a seat is quiet, and what the configuration file holds when it  *)
(* is read, are choices of the environment.  Of the log's lines, those that *)
(* are only there to be seen (MALFORMED, DEFERRED, DEFER-EXPIRED, REQUEUED, *)
(* IDLE-WAKE) are left out: nothing reads them back.                        *)
EXTENDS Naturals, Sequences, FiniteSets, SequencesExt

CONSTANTS
  Seats,        \* the watched seats
  Outputs,      \* what a seat may write: [to, body], or Unended
  Unended,      \* a start tag with no @@END in the same output
  Oversized,    \* the bodies over max_bytes
  Owner,        \* whom every seat may address
  Configs,      \* the configurations: [allowed, sessions, enabled]
  Unseen,       \* the offset of a transcript that was never read
  Cap,          \* how many ids are remembered as seen (5000)
  MaxOutputs, MaxWakes, MaxCrashes  \* bounds of the model

VARIABLES
  transcript,   \* [Seats -> Seq(Outputs)]
  log,          \* messages_log
  saved,        \* the state file: [offsets, seen] and, for the properties, since when
  cfg,          \* the configuration the process goes by
  pc,           \* where the main loop stands
  st,           \* the state in memory
  todo,         \* what the tick has read and not yet captured
  evs,          \* the MSG records of the tick, or those to requeue
  queue,        \* what waits for the worker
  bell,         \* what the worker has in hand
  crashes

vars == <<transcript, log, saved, cfg, pc, st, todo, evs, queue, bell, crashes>>
loop == <<pc, st, todo, evs>>

Idle    == [at |-> "idle"]
Never   == [s \in Seats |-> Unseen]
Blank   == [offsets |-> Never, since |-> Never, seen |-> << >>, wakes |-> 0]
Off     == pc = "off"
Service == pc \in {"requeue", "tick", "capture", "save", "post"}

Id(r) == <<r.seat, r.body>>

Rec(kind, seat, to, body) == [kind |-> kind, seat |-> seat, to |-> to, body |-> body]
Kept(kind, r) == Rec(kind, r.seat, r.to, r.body)
Append1(r)    == log' = Append(log, r)

OnLog(kinds) == {Id(log[n]) : n \in {k \in 1..Len(log) : log[k].kind \in kinds}}

LastOf(s, n) == IF Len(s) <= n THEN s ELSE SubSeq(s, Len(s) - n + 1, Len(s))

TypeOK ==
  /\ Service \/ pc \in {"off", "once", "once capture", "ringing"}
  /\ cfg \in Configs
  /\ bell.at \in {"idle", "waiting", "rung"}
  /\ Len(st.seen) <= Cap /\ Len(saved.seen) <= Cap

Init ==
  /\ transcript = [s \in Seats |-> << >>] /\ log = << >>
  /\ saved = Blank /\ st = Blank /\ cfg \in Configs
  /\ pc = "off" /\ todo = << >> /\ evs = << >> /\ queue = << >> /\ bell = Idle
  /\ crashes = 0

-----------------------------------------------------------------------------
(* A seat ends an output; the owner's seats do so at any time.              *)
Write(s, o) ==
  /\ FoldFunction(LAMBDA t, n : n + Len(t), 0, transcript) < MaxOutputs
  /\ transcript' = [transcript EXCEPT ![s] = Append(@, o)]
  /\ UNCHANGED <<log, saved, cfg, loop, queue, bell, crashes>>

(* load_state and seed_seen_from_log: the ids of the log that the state     *)
(* file does not remember come after those it does, and the last Cap stay.  *)
Seeded(s) ==
  LET captured == {n \in 1..Len(log) : log[n].kind = "MSG"}
      missing  == SelectSeq([n \in 1..Len(log) |-> IF n \in captured THEN Id(log[n]) ELSE << >>],
                            LAMBDA i : i # << >> /\ i \notin ToSet(s.seen))
  IN  [s EXCEPT !.seen = LastOf(@ \o missing, Cap)]

Terminal == {"DELIVERED", "FAILED", "DRYRUN", "BOUNCED"}

(* requeue_undelivered: each MSG of the log without a terminal receipt.     *)
Undelivered(c) ==
  SelectSeq(log, LAMBDA r : /\ r.kind = "MSG" /\ r.to \in c.sessions
                            /\ Id(r) \notin OnLog(Terminal))

(* main, up to its loop: as the service, or for a single tick (--once).     *)
Start(c, once) ==
  /\ Off
  /\ cfg' = c /\ st' = Seeded(saved)
  /\ IF once THEN pc' = "once" /\ evs' = << >>
             ELSE pc' = "requeue" /\ evs' = Undelivered(c)
  /\ UNCHANGED <<transcript, log, saved, todo, queue, bell, crashes>>

RequeueNext ==
  /\ pc = "requeue" /\ evs # << >>
  /\ queue' = Append(queue, Head(evs)) /\ evs' = Tail(evs)
  /\ UNCHANGED <<transcript, log, saved, cfg, pc, st, todo, bell, crashes>>

RequeueDone ==
  /\ pc = "requeue" /\ evs = << >> /\ pc' = "tick"
  /\ UNCHANGED <<transcript, log, saved, cfg, st, todo, evs, queue, bell, crashes>>

(* The head of a tick reads what is new in every transcript; one that has   *)
(* no offset yet starts at its end.                                         *)
NewOf(s) ==
  IF st.offsets[s] = Unseen THEN << >>
  ELSE [n \in 1..(Len(transcript[s]) - st.offsets[s]) |->
          [seat |-> s, out |-> transcript[s][st.offsets[s] + n]]]

(* The loop reads its configuration anew before each tick.                  *)
Tick(c) ==
  /\ pc \in {"tick", "once"}
  /\ cfg' = IF pc = "once" THEN cfg ELSE c
  /\ todo' = FoldSet(LAMBDA s, t : t \o NewOf(s), << >>, Seats)
  /\ st' = [st EXCEPT !.offsets = [s \in Seats |-> Len(transcript[s])],
                      !.since = [s \in Seats |-> IF @[s] = Unseen THEN Len(transcript[s]) ELSE @[s]]]
  /\ evs' = << >>
  /\ pc' = IF pc = "once" THEN "once capture" ELSE "capture"
  /\ UNCHANGED <<transcript, log, saved, queue, bell, crashes>>

Remember(i) == st' = [st EXCEPT !.seen = LastOf(Append(@, i), Cap)]

(* process_text: one output, one append at most.                            *)
Capture ==
  /\ pc \in {"capture", "once capture"} /\ todo # << >>
  /\ todo' = Tail(todo)
  /\ LET s == Head(todo).seat
         o == Head(todo).out
     IN  \/ o = Unended /\ UNCHANGED <<log, st, evs>>
         \/ /\ o # Unended /\ <<s, o.body>> \in ToSet(st.seen) /\ UNCHANGED <<log, st, evs>>
         \/ /\ o # Unended /\ <<s, o.body>> \notin ToSet(st.seen)
            /\ Remember(<<s, o.body>>)
            /\ IF (<<s, o.to>> \notin cfg.allowed /\ o.to # Owner) \/ o.body \in Oversized
               THEN Append1(Rec("BOUNCED", s, o.to, o.body)) /\ UNCHANGED evs
               ELSE Append1(Rec("MSG", s, o.to, o.body))
                    /\ evs' = Append(evs, Rec("MSG", s, o.to, o.body))
  /\ UNCHANGED <<transcript, saved, cfg, pc, queue, bell, crashes>>

(* idle_wake_check, when every transcript has been quiet for long and the   *)
(* last round of wakes, which the state remembers, was long ago: each seat  *)
(* with a session is rung.                                                  *)
Wake(seat) == Rec("IDLE-WAKE", "postman", seat, "idle")

IdleWake ==
  /\ pc = "capture" /\ todo = << >> /\ st.wakes < MaxWakes
  /\ st' = [st EXCEPT !.wakes = @ + 1]
  /\ queue' = FoldSet(LAMBDA s, q : Append(q, Wake(s)), queue, cfg.sessions)
  /\ pc' = "save"
  /\ UNCHANGED <<transcript, log, saved, cfg, todo, evs, bell, crashes>>

NoIdleWake ==
  /\ pc = "capture" /\ todo = << >> /\ pc' = "save"
  /\ UNCHANGED <<transcript, log, saved, cfg, st, todo, evs, queue, bell, crashes>>

(* save_state comes after the captures and before any delivery.             *)
Save ==
  /\ \/ pc = "save" /\ pc' = "post"
     \/ pc = "once capture" /\ todo = << >> /\ pc' = "ringing"
  /\ saved' = st
  /\ UNCHANGED <<transcript, log, cfg, st, todo, evs, queue, bell, crashes>>

Post ==
  /\ pc = "post" /\ pc' = "tick"
  /\ queue' = queue \o evs /\ evs' = << >>
  /\ UNCHANGED <<transcript, log, saved, cfg, st, todo, bell, crashes>>

-----------------------------------------------------------------------------
(* delivery_worker: one message at a time.  _quiet_wait holds it until its  *)
(* seat has been quiet, or for so long that it is rung all the same.        *)
TakeNext ==
  /\ Service /\ bell = Idle /\ queue # << >>
  /\ bell' = [at |-> "waiting", rec |-> Head(queue)] /\ queue' = Tail(queue)
  /\ UNCHANGED <<transcript, log, saved, cfg, loop, crashes>>

(* deliver: without the switch, or a session, there is only a receipt.      *)
Unrung(r) == IF ~cfg.enabled THEN {"DRYRUN"}
             ELSE IF r.to \notin cfg.sessions THEN {"FAILED"} ELSE {}

DeliverWithoutRinging ==
  /\ bell.at = "waiting"
  /\ \E kind \in Unrung(bell.rec) : Append1(Kept(kind, bell.rec))
  /\ bell' = Idle
  /\ UNCHANGED <<transcript, saved, cfg, loop, queue, crashes>>

Ring ==
  /\ bell.at = "waiting" /\ Unrung(bell.rec) = {} /\ bell' = [bell EXCEPT !.at = "rung"]
  /\ UNCHANGED <<transcript, log, saved, cfg, loop, queue, crashes>>

(* The turn ends, with its code, or does not end in time.                   *)
TurnEnds(kind) ==
  /\ bell.at = "rung" /\ Append1(Kept(kind, bell.rec)) /\ bell' = Idle
  /\ UNCHANGED <<transcript, saved, cfg, loop, queue, crashes>>

(* --once delivers in the loop and exits; its turns are not told apart.     *)
DeliverInLoop ==
  /\ pc = "ringing" /\ evs # << >>
  /\ \E kind \in IF Unrung(Head(evs)) = {} THEN {"DELIVERED", "FAILED"} ELSE Unrung(Head(evs)) :
       Append1(Kept(kind, Head(evs)))
  /\ evs' = Tail(evs)
  /\ UNCHANGED <<transcript, saved, cfg, pc, st, todo, queue, bell, crashes>>

OnceExits ==
  /\ pc = "ringing" /\ evs = << >>
  /\ pc' = "off"
  /\ UNCHANGED <<transcript, log, saved, cfg, st, todo, evs, queue, bell, crashes>>

(* The process is killed: only the log and the state file are left.         *)
Kill ==
  /\ ~Off /\ crashes < MaxCrashes /\ crashes' = crashes + 1
  /\ pc' = "off" /\ todo' = << >> /\ evs' = << >> /\ queue' = << >> /\ bell' = Idle
  /\ UNCHANGED <<transcript, log, saved, cfg, st>>

Next ==
  \/ \E s \in Seats, o \in Outputs : Write(s, o)
  \/ \E c \in Configs : Tick(c) \/ \E once \in BOOLEAN : Start(c, once)
  \/ RequeueNext \/ RequeueDone \/ Capture \/ IdleWake \/ NoIdleWake \/ Save \/ Post
  \/ TakeNext \/ DeliverWithoutRinging \/ Ring
  \/ \E kind \in {"DELIVERED", "FAILED"} : TurnEnds(kind)
  \/ DeliverInLoop \/ OnceExits \/ Kill

Spec == Init /\ [][Next]_vars

-----------------------------------------------------------------------------
CapturesOf(i) == {n \in 1..Len(log) : log[n].kind = "MSG" /\ Id(log[n]) = i}
ReceiptsOf(i) == {n \in 1..Len(log) : log[n].kind \in {"DELIVERED", "FAILED", "DRYRUN"}
                                      /\ Id(log[n]) = i}

(* "An MSG id already standing on it may never be appended again - whatever *)
(* the state file remembers" (postman.py:52), and no message has two ends;  *)
(* what is remembered is a window, so this is of no more messages than Cap. *)
AllRemembered == Cardinality(OnLog({"MSG", "BOUNCED"})) <= Cap

OneCopy ==
  AllRemembered => \A i \in OnLog({"MSG"}) : Cardinality(CapturesOf(i)) = 1
                                             /\ Cardinality(ReceiptsOf(i)) <= 1

(* What was written since the watch of a transcript began and lies before   *)
(* the saved offset is on the log: captures are durable before the offset   *)
(* that skips them is (save_state after tick).                              *)
ReadIsOnTheLog ==
  \A s \in Seats : saved.offsets[s] # Unseen =>
    \A n \in (saved.since[s] + 1)..saved.offsets[s] :
      transcript[s][n] # Unended => <<s, transcript[s][n].body>> \in OnLog({"MSG", "BOUNCED"})

(* "A restart between capture and delivery used to orphan the wake": while  *)
(* the service runs, a message with no receipt is on its way to its seat,   *)
(* if that seat has a session in every configuration (one that gets its     *)
(* session after the start waits for the next start).                       *)
HasSession(to) == \A c \in Configs : to \in c.sessions

NothingIsOrphaned ==
  Service => \A n \in 1..Len(log) :
    (log[n].kind = "MSG" /\ HasSession(log[n].to) /\ Id(log[n]) \notin OnLog(Terminal)) =>
      \/ log[n] \in ToSet(evs) \cup ToSet(queue)
      \/ bell # Idle /\ bell.rec = log[n]

PostIsKept == OneCopy /\ ReadIsOnTheLog /\ NothingIsOrphaned

(* "A delivered message can never re-ring": no turn is started for a        *)
(* message whose receipt stands on the log.                                 *)
NoSecondRing ==
  Ring /\ bell.rec.kind = "MSG" /\ AllRemembered => ReceiptsOf(Id(bell.rec)) = {}
=============================================================================
