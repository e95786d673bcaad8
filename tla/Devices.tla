------------------------------- MODULE Devices -------------------------------
(* Devices, windows and handles: subsystems/devices.py, the handle custody  *)
(* fold of bridge/custody.py and their operations of the founding pack.     *)
(* Custody of a device is revocable: I/O asks the latest record of the      *)
(* binding stream whether a driver is declared, where the view folds the    *)
(* two actions.  A handle passes from holder to holder by transfers.        *)
EXTENDS OpChecks

CONSTANTS Actors, Drivers, DeviceIds, Windows, Intakes, Entities, Handles, MaxRec

VARIABLE rec
vars == <<rec>>

Prior(action, field, param) ==
  [check |-> "require_prior", action |-> action, field |-> field, param |-> param]
Declares(action, field, value) ==
  [check |-> "prior_value", action |-> action, field |-> field, param |-> field,
   value |-> value, require |-> "established"]

RegisterCapability == Plain("REGISTER-CAPABILITY", {"driver"})

BindDevice == [Plain("BIND-DEVICE", {"device", "driver"}) EXCEPT
                 !.checks = <<Prior("REGISTER-CAPABILITY", "driver", "driver")>>]

(* An unbind lands in the stream of the bindings.                           *)
Unbind == [Plain("UNBIND", {"device"}) EXCEPT
             !.checks = <<Prior("BIND-DEVICE", "device", "device")>>,
             !.stream = "BIND-DEVICE"]

DeclareWindow == Plain("DECLARE-IO-WINDOW", {"window"})

WindowWrite ==
  [Plain("DEVICE-IO-WINDOW-WRITE", {"device", "window"}) EXCEPT !.checks =
     <<Prior("BIND-DEVICE", "device", "device"), Declares("BIND-DEVICE", "device", "driver"),
       Prior("DECLARE-IO-WINDOW", "window", "window")>>]

DeclareIntake == [Plain("DECLARE-INTAKE", {"intake", "window", "max_arrivals"}) EXCEPT
                    !.checks = <<Prior("DECLARE-IO-WINDOW", "window", "window")>>]

IntakeCover ==
  [Plain("DEVICE-INTAKE-COVER", {"intake", "device", "window"}) EXCEPT !.checks =
     <<Prior("BIND-DEVICE", "device", "device"), Declares("BIND-DEVICE", "device", "driver"),
       Prior("DECLARE-INTAKE", "window", "window"),
       Declares("DECLARE-INTAKE", "intake", "max_arrivals")>>]

FileOpen == Plain("FILE-OPEN", {"path"})

CustodyTransfer ==
  [Plain("FILE-CUSTODY-TRANSFER", {"handle", "from_entity", "to_entity", "device"}) EXCEPT
     !.checks =
       <<Prior("CREATE-ACCOUNT", "account_id", "from_entity"),
         Prior("CREATE-ACCOUNT", "account_id", "to_entity"),
         Prior("FILE-OPEN", "path", "handle"), Prior("BIND-DEVICE", "device", "device"),
         [check |-> "bound_field", action |-> "FILE-CUSTODY-TRANSFER", field |-> "handle",
          keyParam |-> "handle", value |-> "to_entity", param |-> "from_entity",
          unbound |-> "permit"]>>]

-----------------------------------------------------------------------------
(* The views. *)
Bindings(r) ==
  FoldLeft(LAMBDA b, e : IF e.action = "BIND-DEVICE"
                         THEN (e.payload.device :> e.payload.driver) @@ b
                         ELSE [d \in DOMAIN b \ {e.payload.device} |-> b[d]],
           << >>, Family(r, {"BIND-DEVICE", "UNBIND"}))

Capabilities(r) == {e.payload.driver : e \in Range(ByAction(r, "REGISTER-CAPABILITY"))}

HandleCustody(r) ==
  FoldLeft(LAMBDA h, e : (e.payload.handle :> e.payload) @@ h,
           << >>, Family(r, {"FILE-CUSTODY-TRANSFER"}))

-----------------------------------------------------------------------------
Do(op, d, actor, p) ==
  /\ Len(rec) < MaxRec
  /\ Admitted(rec, d, actor, p, << >>)
  /\ rec' = Appended(rec, op, d, actor, p)

Custody(a) ==
  \/ \E v \in Drivers : Do("REGISTER-CAPABILITY", RegisterCapability, a, [driver |-> v])
  \/ \E x \in DeviceIds, v \in Drivers :
       Do("BIND-DEVICE", BindDevice, a, [device |-> x, driver |-> v])
  \/ \E x \in DeviceIds : Do("UNBIND", Unbind, a, [device |-> x])

Io(a) ==
  \/ \E w \in Windows : Do("DECLARE-IO-WINDOW", DeclareWindow, a, [window |-> w])
  \/ \E x \in DeviceIds, w \in Windows :
       Do("DEVICE-IO-WINDOW-WRITE", WindowWrite, a, [device |-> x, window |-> w])
  \/ \E i \in Intakes, w \in Windows, n \in {16, None} :
       Do("DECLARE-INTAKE", DeclareIntake, a, [intake |-> i, window |-> w, max_arrivals |-> n])
  \/ \E x \in DeviceIds, i \in Intakes, w \in Windows :
       Do("DEVICE-INTAKE-COVER", IntakeCover, a, [intake |-> i, device |-> x, window |-> w])

Handover(a) ==
  \/ \E h \in Handles : Do("FILE-OPEN", FileOpen, a, [path |-> h])
  \/ \E h \in Handles, f \in Entities, t \in Entities, x \in DeviceIds :
       Do("FILE-CUSTODY-TRANSFER", CustodyTransfer, a,
          [handle |-> h, from_entity |-> f, to_entity |-> t, device |-> x])

Account(e) == [action |-> "CREATE-ACCOUNT", stream |-> "CREATE-ACCOUNT", actor |-> e,
               payload |-> [account_id |-> e]]
Init == rec = SetToSeq({Account(e) : e \in Entities})

Next == \E a \in Actors : Custody(a) \/ Io(a) \/ Handover(a)
Spec == Init /\ [][Next]_vars

-----------------------------------------------------------------------------
(* Custody is revocable: each write and each covering record was made while *)
(* the binding view showed the device bound to a registered driver, and     *)
(* each covering record under an intake whose latest declaration then gave  *)
(* its threshold.                                                           *)
IoNeedsLiveCustody ==
  \A n \in DOMAIN rec :
     LET before == SubSeq(rec, 1, n - 1)
         p      == rec[n].payload
     IN  /\ rec[n].action \in {"DEVICE-IO-WINDOW-WRITE", "DEVICE-INTAKE-COVER"} =>
              /\ p.device \in DOMAIN Bindings(before)
              /\ Bindings(before)[p.device] \in Capabilities(before)
         /\ rec[n].action = "DEVICE-INTAKE-COVER" =>
              Last(Naming(before, "DECLARE-INTAKE", "intake", p.intake)).payload.max_arrivals
                # None

(* A handle is handed on by its holder alone: each transfer starts from the *)
(* entity the custody fold shows at that moment, so the transfers of a      *)
(* handle form one chain that ends at its holder.                           *)
HandoversChain ==
  \A n \in DOMAIN rec :
     LET held == HandleCustody(SubSeq(rec, 1, n - 1)) IN
     rec[n].action = "FILE-CUSTODY-TRANSFER" /\ rec[n].payload.handle \in DOMAIN held
       => held[rec[n].payload.handle].to_entity = rec[n].payload.from_entity
=============================================================================
