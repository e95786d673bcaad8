-------------------------------- MODULE Comms --------------------------------
(* Channels between entities: subsystems/comms.py and the COMMS operations  *)
(* of the founding pack.  An entity opens a channel in one of two roles and *)
(* holds at most one per role; holders send, and whoever asks receives what *)
(* is pending.  Who holds what is folded twice: by the view, and by the     *)
(* check that keeps the roles single.                                       *)
EXTENDS OpChecks

CONSTANTS Entities, Channels, MaxRec

VARIABLE rec
vars == <<rec>>

Roles == {"system-facing", "user-facing"}

OneLivePerRole == [check |-> "live_slot", open |-> "COMMS-OPEN", close |-> "COMMS-CLOSE",
                   instance |-> "channel", slots |-> {"entity", "role"}]

Member(present, self) ==
  [check |-> "live_present", open |-> "COMMS-OPEN", close |-> "COMMS-CLOSE",
   keys |-> {"entity", "channel"}, closer |-> {"entity"}, present |-> present, self |-> self]
ChannelIsLive == Member({"channel"}, {})
CallerHoldsIt == Member({"channel"}, {"entity"})

CommsOpen ==
  [Plain("COMMS-OPEN", {"channel", "entity", "role"}) EXCEPT !.checks =
    <<[check |-> "require_prior", action |-> "CREATE-ACCOUNT", field |-> "account_id",
       param |-> "entity"],
      [check |-> "value_domain", param |-> "role", domain |-> Roles],
      OneLivePerRole>>]

CommsSend ==
  [Plain("COMMS-SEND", {"channel"}) EXCEPT !.checks = <<ChannelIsLive, CallerHoldsIt>>]

CommsRecv ==
  [Plain("COMMS-RECV", {"channel"}) EXCEPT !.checks =
    <<ChannelIsLive,
      [check |-> "fold_threshold", add |-> "COMMS-SEND", sub |-> "COMMS-RECV",
       key |-> "channel", threshold |-> 0]>>]

CommsClose ==
  [Plain("COMMS-CLOSE", {"channel"}) EXCEPT !.checks = <<CallerHoldsIt>>]

-----------------------------------------------------------------------------
(* The view: who holds which channel in which role. *)
LiveChannels(r) ==
  FoldLeft(LAMBDA live, e :
             LET who == <<IF e.action = "COMMS-OPEN" THEN e.payload.entity ELSE e.actor,
                          e.payload.channel>>
                 others == {o \in live : <<o.entity, o.channel>> # who}
             IN  IF e.action = "COMMS-OPEN"
                 THEN others \cup {[entity |-> who[1], channel |-> who[2],
                                    role |-> e.payload.role]}
                 ELSE others,
           {}, Family(r, {"COMMS-OPEN", "COMMS-CLOSE"}))

QueueDepth(r, ch) == Len(Naming(r, "COMMS-SEND", "channel", ch))
                   - Len(Naming(r, "COMMS-RECV", "channel", ch))

-----------------------------------------------------------------------------
Do(op, d, actor, p) ==
  /\ Len(rec) < MaxRec
  /\ Admitted(rec, d, actor, p, << >>)
  /\ rec' = Appended(rec, op, d, actor, p)

Open(a)  == \E e \in Entities, ch \in Channels, role \in Roles :
              Do("COMMS-OPEN", CommsOpen, a, [entity |-> e, channel |-> ch, role |-> role])
Send(a)  == \E ch \in Channels : Do("COMMS-SEND", CommsSend, a, [channel |-> ch])
Recv(a)  == \E ch \in Channels : Do("COMMS-RECV", CommsRecv, a, [channel |-> ch])
Close(a) == \E ch \in Channels : Do("COMMS-CLOSE", CommsClose, a, [channel |-> ch])

Account(e) == [action |-> "CREATE-ACCOUNT", stream |-> "CREATE-ACCOUNT", actor |-> e,
               payload |-> [account_id |-> e]]

Init == rec = SetToSeq({Account(e) : e \in Entities})

Next == \E a \in Entities : Open(a) \/ Send(a) \/ Recv(a) \/ Close(a)

Spec == Init /\ [][Next]_vars

-----------------------------------------------------------------------------
(* Nobody is locked out of a role: a slot that COMMS-OPEN would refuse as   *)
(* taken stands for an opening its entity holds by the view, so a close by  *)
(* that entity is admitted and frees it.                                    *)
TakenSlotsAreHeld ==
  \A s \in LiveSlots(rec, OneLivePerRole) :
     \E o \in LiveChannels(rec) : o.entity = s.slot["entity"] /\ o.channel = s.inst

(* The ledger of a channel is honest: every message was sent by an entity   *)
(* that held the channel when it was sent, and none is taken twice, however *)
(* often the channel was closed, opened again or held by others meanwhile.  *)
LedgerIsHonest ==
  \A n \in DOMAIN rec :
     LET before == SubSeq(rec, 1, n - 1)
         ch     == Get(rec[n].payload, "channel")
     IN  /\ rec[n].action = "COMMS-SEND" =>
              \E o \in LiveChannels(before) : o.entity = rec[n].actor /\ o.channel = ch
         /\ rec[n].action = "COMMS-RECV" => QueueDepth(before, ch) > 0
=============================================================================
