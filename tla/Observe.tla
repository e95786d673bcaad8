-------------------------------- MODULE Observe --------------------------------
(* What the estate records of the world around it (observe/windows.py,       *)
(* seam.py, shadow.py, m1_runner.py).  A window that polls compares what it  *)
(* sees with what it saw at its last read; the file window drains the events *)
(* of the paths it watches; two windows read the record itself.  A runner    *)
(* reads them one after another and submits what each noticed, one by one,   *)
(* through the gate, which may refuse; the world changes meanwhile.  Shadow  *)
(* tables are folds of what was recorded, and are served as current only if  *)
(* they agree with a fresh look.                                             *)
EXTENDS Naturals, Sequences, SequencesExt, FiniteSets, Functions

CONSTANTS None,
          Windows,    \* the windows of a run, in their order
          Keys,       \* what may be seen through a window
          Looks,      \* by window: how it may look, in the field compared and the rest
          Elsewhere,  \* kinds of record that others write
          MaxRec, MaxMoves,  \* bounds: records, and changes of the world
          Capacity    \* events the host keeps for a watcher

VARIABLES world,   \* by window: what is there, and how it looks
          events,  \* what the host keeps for the file window
          memory,  \* by window: what it saw last, or the last row it read
          at,      \* the window whose turn it is
          batch,   \* what it noticed and was not yet submitted
          rec,
          lost,    \* windows that something was lost to, until they begin anew
          again,   \* windows that began anew
          moves

vars == <<world, events, memory, at, batch, rec, lost, again, moves>>

Polled     == {"process", "mount", "device", "connection"}
OverRecord == {"record", "discovery"}
Nothing    == [k \in {} |-> None]

(* The windows over the record are of the file and of the device kind.       *)
KindOf(w) == CASE w = "record" -> "file" [] w = "discovery" -> "device" [] OTHER -> w

(* The class map: what is looked at and not written down.                    *)
Recorded(obs) == obs.act # "opened"

Seen(w, act, key, attrs) == [kind |-> KindOf(w), act |-> act, key |-> key, attrs |-> attrs, from |-> 0]

-----------------------------------------------------------------------------
(* A window that polls: what appeared or changed, then what is gone.  A      *)
(* driver that left makes a change of a device an unbinding.                 *)
Changed(w, attrs) == IF w # "device" THEN "changed"
                     ELSE IF attrs.shown = None THEN "unbound" ELSE "bound"
Differences(w, now) ==
  LET old  == IF memory[w] = None THEN Nothing ELSE memory[w]
      come == {k \in DOMAIN now : k \notin DOMAIN old \/ old[k] # now[k]}
      sees(k) == Seen(w, IF k \in DOMAIN old THEN Changed(w, now[k]) ELSE "appeared", k, now[k])
      gone(k) == Seen(w, "removed", k, old[k])
  IN [i \in 1..Cardinality(come) |-> sees(SetToSeq(come)[i])]
     \o [i \in 1..Cardinality(DOMAIN old \ DOMAIN now) |-> gone(SetToSeq(DOMAIN old \ DOMAIN now)[i])]

(* A window over the record: the rows after the last it read, but its own,   *)
(* and for the devices only what the body says it discovered, of which the   *)
(* observation does not say the key the tables go by.                        *)
Own(w, row) == row.kind = KindOf(w)
Wanted(w, row) == ~Own(w, row) /\ (w = "discovery" => row.kind = "device-discovery")
OfRow(w, n) ==
  [Seen(w, IF w = "record" THEN "modified" ELSE IF rec[n].act = "present" THEN "appeared" ELSE "removed",
        None, None) EXCEPT !.from = n]
RowsAfter(w) ==
  LET new == SelectSeq([n \in 1..Len(rec) |-> n], LAMBDA n : n > memory[w] /\ Wanted(w, rec[n]))
  IN [i \in DOMAIN new |-> OfRow(w, new[i])]

(* A scan may fail in part, and what it then returns is all there is: a      *)
(* process that cannot be read is left out, or comes without its start; a    *)
(* bus that cannot be listed is left out, and a driver that cannot be read   *)
(* is none; a list of mounts or a dump of connections breaks off, and one    *)
(* family may be refused.                                                    *)
Partly(there) == {Restrict(there, set) : set \in SUBSET DOMAIN there}
Without1(there, field) ==
  {[k \in DOMAIN there |-> IF k \in mute THEN [there[k] EXCEPT ![field] = None] ELSE there[k]] :
     mute \in SUBSET DOMAIN there}
ScanProcesses(there)   == UNION {Without1(part, "rest") : part \in Partly(there)}
ScanDevices(there)     == UNION {Without1(part, "shown") : part \in Partly(there)}
ScanMounts(there)      == Partly(there)
ScanConnections(there) == Partly(there)
Scans(w) == CASE w = "process" -> ScanProcesses(world[w]) [] w = "device" -> ScanDevices(world[w])
              [] w = "mount"   -> ScanMounts(world[w])    [] w = "connection" -> ScanConnections(world[w])
              [] OTHER         -> {world[w]}

(* A turn begins when the window before it has nothing left to submit.       *)
Read ==
  LET w == Windows[at]
  IN /\ batch = << >> /\ Len(rec) < MaxRec
     /\ \E now \in Scans(w) :
          /\ now # world[w] => moves < MaxMoves
          /\ moves' = IF now = world[w] THEN moves ELSE moves + 1
          /\ batch' = CASE w \in Polled -> Differences(w, now)
                        [] w \in OverRecord -> RowsAfter(w)
                        [] w = "file" -> events
          /\ memory' = [memory EXCEPT ![w] = CASE w \in Polled -> now
                                               [] w \in OverRecord -> Len(rec)
                                               [] w = "file" -> TRUE]
     /\ events' = IF w = "file" THEN << >> ELSE events
     /\ at' = IF batch' = << >> THEN (at % Len(Windows)) + 1 ELSE at
     /\ UNCHANGED <<world, rec, lost, again>>

(* One observation through the seam: recorded if its class is.               *)
Submit ==
  /\ batch # << >> /\ Len(rec) < MaxRec
  /\ batch' = Tail(batch)
  /\ rec' = IF Recorded(Head(batch)) THEN Append(rec, Head(batch)) ELSE rec
  /\ at' = IF Len(batch) = 1 THEN (at % Len(Windows)) + 1 ELSE at
  /\ UNCHANGED <<world, events, memory, lost, again, moves>>

(* The gate refuses it: the cycle ends there, and what its window noticed    *)
(* and did not submit is forgotten, since the window has read on.            *)
Refuse ==
  /\ batch # << >> /\ Recorded(Head(batch))
  /\ batch' = << >>
  /\ at' = 1
  /\ lost' = lost \cup {Windows[at]}
  /\ UNCHANGED <<world, events, memory, rec, again, moves>>

(* The runner is started again: its windows remember nothing, and the file   *)
(* window watches from its first read.                                       *)
Afresh == [w \in Range(Windows) |-> IF w \in OverRecord THEN 0 ELSE IF w = "file" THEN FALSE ELSE None]
Restart ==
  /\ moves < MaxMoves /\ moves' = moves + 1
  /\ memory' = Afresh /\ at' = 1 /\ batch' = << >> /\ events' = << >>
  /\ lost' = lost \cap {"file"} /\ again' = Range(Windows)
  /\ UNCHANGED <<world, rec>>

-----------------------------------------------------------------------------
(* The world: anything may come, change and go between two looks, others     *)
(* write the record, and the host tells the watcher of every event it has    *)
(* room for.                                                                 *)
Put(w, key, look) ==
  /\ world' = [world EXCEPT ![w] = (key :> look) @@ @]
  /\ UNCHANGED <<events, lost>>
Take(w, key) ==
  /\ key \in DOMAIN world[w]
  /\ world' = [world EXCEPT ![w] = Restrict(@, DOMAIN @ \ {key})]
  /\ UNCHANGED <<events, lost>>

Event(act, key) == Seen("file", act, key, None)
Tell(told) ==
  IF memory["file"] /\ Len(events) + Len(told) <= Capacity
  THEN events' = events \o told /\ UNCHANGED lost
  ELSE UNCHANGED events /\ lost' = lost \cup {"file"}
Files(set) == world' = [world EXCEPT !.file = [k \in set |-> None]]
FileMoves ==
  LET files == DOMAIN world.file
  IN \E k \in Keys :
       \/ k \notin files /\ Files(files \cup {k}) /\ Tell(<<Event("created", k)>>)
       \/ k \in files /\ Files(files \ {k}) /\ Tell(<<Event("removed", k)>>)
       \/ /\ k \in files /\ UNCHANGED world
          /\ \E act \in {"modified", "opened"} : Tell(<<Event(act, k)>>)
       \/ \E to \in Keys \ {k} :
            /\ k \in files /\ Files((files \ {k}) \cup {to})
            /\ Tell(<<Event("moved-from", k), Event("moved-to", to)>>)

TheWorldMoves ==
  /\ moves < MaxMoves /\ moves' = moves + 1
  /\ \/ \E w \in Range(Windows) \cap Polled, k \in Keys :
          Take(w, k) \/ \E look \in Looks[w] : Put(w, k, look)
     \/ "file" \in Range(Windows) /\ FileMoves
  /\ UNCHANGED <<memory, at, batch, rec, again>>

OthersWrite ==
  /\ moves < MaxMoves /\ moves' = moves + 1 /\ Len(rec) < MaxRec
  /\ \E row \in Elsewhere : rec' = Append(rec, row)
  /\ UNCHANGED <<world, events, memory, at, batch, lost, again>>

Init ==
  /\ world = [w \in Range(Windows) |-> Nothing]
  /\ events = << >> /\ batch = << >> /\ rec = << >>
  /\ memory = Afresh /\ at = 1 /\ moves = 0
  /\ lost = {} /\ again = {}

Next == Read \/ Submit \/ Refuse \/ Restart \/ TheWorldMoves \/ OthersWrite

Spec == Init /\ [][Next]_vars

-----------------------------------------------------------------------------
(* The shadow tables: folds of the recorded rows of a window.                *)
Without(table, key) == Restrict(table, DOMAIN table \ {key})
FoldDevice(table, row) ==
  CASE row.act = "appeared" -> (row.key :> row.attrs) @@ table
    [] row.act = "removed"  -> Without(table, row.key)
    [] row.act = "bound"    -> IF row.key \in DOMAIN table THEN [table EXCEPT ![row.key].shown = row.attrs.shown]
                               ELSE (row.key :> row.attrs) @@ table
    [] row.act = "unbound"  -> IF row.key \in DOMAIN table THEN [table EXCEPT ![row.key].shown = None] ELSE table
FoldProcess(table, row) ==
  CASE row.act = "removed" -> Without(table, row.key)
    [] row.act = "changed" /\ row.key \notin DOMAIN table -> table
    [] OTHER -> (row.key :> row.attrs) @@ table
FoldOther(table, row) ==
  IF row.act = "removed" THEN Without(table, row.key) ELSE (row.key :> row.attrs) @@ table
FoldFile(table, row) == (row.key :> row.act) @@ table

Table(w, rows) ==
  FoldLeft(LAMBDA table, row : CASE w = "device"  -> FoldDevice(table, row)
                                 [] w = "process" -> FoldProcess(table, row)
                                 [] w = "file"    -> FoldFile(table, row)
                                 [] OTHER         -> FoldOther(table, row),
           Nothing, SelectSeq(rows, LAMBDA row : row.kind = w))

(* A table is served as current if it agrees with what its window sees now   *)
(* in the keys and the field compared.                                       *)
Shown(table) == [k \in DOMAIN table |-> table[k].shown]
Gone == {"removed", "moved-from"}
Tracks(w) ==
  LET table == Table(w, rec)
  IN IF w = "file" THEN {k \in DOMAIN table : table[k] \notin Gone} = DOMAIN world.file
     ELSE Shown(table) = Shown(world[w])

-----------------------------------------------------------------------------
Pending(w)  == IF Windows[at] = w THEN batch ELSE << >>
InTheEnd(w) == rec \o SelectSeq(Pending(w), Recorded)

(* What a window remembers, its table will say once all it noticed is        *)
(* written: also after a restart, which begins with all that is there, but   *)
(* then what went away between the runs stays in the table.                  *)
TablesFollow ==
  \A w \in (Range(Windows) \cap Polled) \ lost :
    LET table == Table(w, InTheEnd(w))
        known == IF memory[w] = None THEN Nothing ELSE memory[w]
    IN /\ \A k \in DOMAIN known : k \in DOMAIN table /\ table[k] = known[k]
       /\ w \notin again => DOMAIN table = DOMAIN known

(* A table that nothing was lost to, of a world that stands still since it   *)
(* was read, is not refused as stale.                                        *)
QuietTablesServe ==
  \A w \in Range(Windows) \ (OverRecord \cup lost \cup again) :
    /\ Pending(w) = << >>
    /\ IF w = "file" THEN events = << >> ELSE memory[w] = world[w]
    => Tracks(w)

(* A window over the record never observes what it wrote, in its life        *)
(* observes no row twice or out of order, and passes over none.              *)
NoEcho ==
  \A w \in Range(Windows) \cap OverRecord :
    LET all   == InTheEnd(w)
        mine  == {n \in DOMAIN all : all[n].kind = KindOf(w) /\ all[n].from # 0}
    IN /\ \A n \in mine : all[n].from < n /\ all[all[n].from].kind # KindOf(w)
       /\ w \notin again => \A n, m \in mine : n < m => all[n].from < all[m].from
       /\ w \notin lost =>
            \A n \in 1..memory[w] : Wanted(w, rec[n]) => \E m \in mine : all[m].from = n

ObserverIsHonest == TablesFollow /\ QuietTablesServe /\ NoEcho
=============================================================================
