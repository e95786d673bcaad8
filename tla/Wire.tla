-------------------------------- MODULE Wire --------------------------------
(* The socket table and the filter over it: subsystems/sockets.py,          *)
(* subsystems/filter.py and their operations of the founding pack.  Wire    *)
(* acts ask only that somebody once opened a socket of that name; the       *)
(* tables are folds, kept in caches that the reader kills.                  *)
EXTENDS OpChecks

CONSTANTS Entities, Sockets, Peers, Rules, MaxRec

VARIABLES rec, socketCache, filterCache     \* a table, or None
vars == <<rec, socketCache, filterCache>>

Opened == [check |-> "require_prior", action |-> "SOCKET-OPEN", field |-> "socket",
           param |-> "socket"]
Established == [check |-> "require_prior", action |-> "CREATE-ACCOUNT",
                field |-> "account_id", param |-> "entity"]

SocketOpen    == [Plain("SOCKET-OPEN", {"entity", "socket"}) EXCEPT !.checks = <<Established>>]
SocketBind    == [Plain("SOCKET-BIND", {"socket", "address"}) EXCEPT !.checks = <<Opened>>]
SocketListen  == [Plain("SOCKET-LISTEN", {"socket"}) EXCEPT !.checks = <<Opened>>]
SocketConnect == [Plain("SOCKET-CONNECT", {"socket", "target"}) EXCEPT !.checks = <<Opened>>]
SocketAccept  == [Plain("SOCKET-ACCEPT", {"socket", "peer"}) EXCEPT !.checks = <<Opened>>]
SocketClose   == [Plain("SOCKET-CLOSE", {"socket"}) EXCEPT !.checks = <<Opened>>]

FilterDecision ==
  [Plain("FILTER-DECISION", {"entity", "connection", "rule", "decision"}) EXCEPT !.checks =
    <<Established,
      [check |-> "require_prior", action |-> "SOCKET-OPEN", field |-> "socket",
       param |-> "connection"],
      [check |-> "require_prior", action |-> "CREATE-RULE", field |-> "rule_id",
       param |-> "rule"],
      [check |-> "value_domain", param |-> "decision", domain |-> {"admit", "refuse"}]>>]

SocketActions == {"SOCKET-OPEN", "SOCKET-BIND", "SOCKET-LISTEN", "SOCKET-CONNECT",
                  "SOCKET-ACCEPT", "SOCKET-CLOSE"}
StateFor == [a \in SocketActions |->
               CASE a = "SOCKET-BIND" -> "BOUND" [] a = "SOCKET-LISTEN" -> "LISTEN"
                 [] a \in {"SOCKET-CONNECT", "SOCKET-ACCEPT"} -> "CONNECTED"
                 [] OTHER -> "OPEN"]

(* One act on one row of the table; the row of a new opening starts empty.  *)
Carried(row, p) ==
  [f \in {"address", "target", "peer"} |-> IF Get(p, f) # None THEN p[f] ELSE Get(row, f)]

NewRow(t, sid, e) ==
  [entity |-> e.payload.entity, state |-> "OPEN", facts |-> Carried(<< >>, << >>)]

Advance(t, e) ==
  LET sid == e.payload.socket
  IN  CASE e.action = "SOCKET-OPEN"  -> (sid :> NewRow(t, sid, e)) @@ t
        [] e.action = "SOCKET-CLOSE" -> [s \in DOMAIN t \ {sid} |-> t[s]]
        [] e.action \notin {"SOCKET-OPEN", "SOCKET-CLOSE"} /\ sid \in DOMAIN t
             -> [t EXCEPT ![sid].state = StateFor[e.action],
                          ![sid].facts = Carried(@, e.payload)]
        [] OTHER -> t

SocketTable(r) == FoldLeft(Advance, << >>, Family(r, SocketActions))

LiveSockets(r, cache) == IF cache = None THEN SocketTable(r) ELSE cache

ConnectionView(t) == {s \in DOMAIN t : t[s].state = "CONNECTED"}

FilterTable(r) ==
  FoldLeft(LAMBDA t, e : (e.payload.connection :> e.payload) @@ t,
           << >>, Family(r, {"FILTER-DECISION"}))

WhichRuleDecided(r, cache) == IF cache = None THEN FilterTable(r) ELSE cache

-----------------------------------------------------------------------------
Do(op, d, actor, p) ==
  /\ Len(rec) < MaxRec
  /\ Admitted(rec, d, actor, p, << >>)
  /\ rec' = Appended(rec, op, d, actor, p)
  /\ UNCHANGED <<socketCache, filterCache>>

Open(a)    == \E s \in Sockets : Do("SOCKET-OPEN", SocketOpen, a, [entity |-> a, socket |-> s])
Bind(a)    == \E s \in Sockets, x \in Peers :
                Do("SOCKET-BIND", SocketBind, a, [socket |-> s, address |-> x])
Listen(a)  == \E s \in Sockets : Do("SOCKET-LISTEN", SocketListen, a, [socket |-> s])
Connect(a) == \E s \in Sockets, x \in Peers :
                Do("SOCKET-CONNECT", SocketConnect, a, [socket |-> s, target |-> x])
Accept(a)  == \E s \in Sockets, x \in Peers :
                Do("SOCKET-ACCEPT", SocketAccept, a, [socket |-> s, peer |-> x])
Close(a)   == \E s \in Sockets : Do("SOCKET-CLOSE", SocketClose, a, [socket |-> s])
Decide(a)  == \E s \in Sockets, l \in Rules, v \in {"admit", "refuse"} :
                Do("FILTER-DECISION", FilterDecision, a,
                   [entity |-> a, connection |-> s, rule |-> l, decision |-> v])

(* A reader fills a cache on its first read and reads it until it kills it. *)
ReadSockets == /\ socketCache = None
               /\ socketCache' = SocketTable(rec)
               /\ UNCHANGED <<rec, filterCache>>
ReadFilter  == /\ filterCache = None
               /\ filterCache' = FilterTable(rec)
               /\ UNCHANGED <<rec, socketCache>>
KillCaches  == /\ socketCache # None \/ filterCache # None
               /\ socketCache' = None /\ filterCache' = None
               /\ UNCHANGED rec

Founding(a, f, v) == [action |-> a, stream |-> a, actor |-> v, payload |-> (f :> v)]

Init ==
  /\ rec = SetToSeq({Founding("CREATE-ACCOUNT", "account_id", e) : e \in Entities}
                     \cup {Founding("CREATE-RULE", "rule_id", l) : l \in Rules})
  /\ socketCache = None /\ filterCache = None

Next == \/ \E a \in Entities : \/ Open(a) \/ Bind(a) \/ Listen(a) \/ Connect(a)
                               \/ Accept(a) \/ Close(a) \/ Decide(a)
        \/ ReadSockets \/ ReadFilter \/ KillCaches

Spec == Init /\ [][Next]_vars

-----------------------------------------------------------------------------
(* A row of the socket table speaks of one opening: its owner made the      *)
(* latest opening of that name; what it carries, and that it is connected,  *)
(* was recorded after that opening; the row is there until the next close.  *)
RowsSpeakOfOneOpening ==
  \A s \in Sockets :
     LET acts   == {n \in DOMAIN rec : rec[n].action \in SocketActions
                                       /\ rec[n].payload.socket = s}
         opens  == {n \in acts : rec[n].action = "SOCKET-OPEN"}
         closes == {n \in acts : rec[n].action = "SOCKET-CLOSE"}
         table  == SocketTable(rec)
     IN  /\ s \in DOMAIN table <=> \E n \in opens : \A k \in closes : k < n
         /\ s \in DOMAIN table =>
              LET first == CHOOSE n \in opens : \A k \in opens : k <= n
              IN  /\ table[s].entity = rec[first].payload.entity
                  /\ \A f \in DOMAIN table[s].facts : table[s].facts[f] # None =>
                       \E n \in acts : n > first /\ Get(rec[n].payload, f) = table[s].facts[f]
                  /\ s \in ConnectionView(table) => \E n \in acts :
                       n > first /\ rec[n].action \in {"SOCKET-CONNECT", "SOCKET-ACCEPT"}

(* A cached table is the table of some moment of the record, one that no    *)
(* later kill could bring back, and a verdict of the filter, fresh or       *)
(* cached, is that of a recorded decision by a recorded rule.               *)
TablesAreOfTheRecord ==
  /\ \E n \in 0..Len(rec) : LiveSockets(rec, socketCache) = SocketTable(SubSeq(rec, 1, n))
  /\ LET t == WhichRuleDecided(rec, filterCache)
     IN  \A s \in DOMAIN t : \E n \in DOMAIN rec :
           rec[n].action = "FILTER-DECISION" /\ rec[n].payload = t[s]
=============================================================================
