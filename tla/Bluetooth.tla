------------------------------ MODULE Bluetooth ------------------------------
(***************************************************************************)
(* BluetoothService over the controller of the system library: which       *)
(* adapter is selected, on which one the shell holds a discovery, and the  *)
(* chain pair - trust - connect.  The controller is external: it takes     *)
(* requests, is busy with their target until it reports their end, and     *)
(* publishes adapters and devices.                                         *)
(***************************************************************************)
EXTENDS Naturals, Sequences, FiniteSetsExt

CONSTANTS Adapters,   \* in the order the controller lists them
          Devices,
          NoTarget

AdapterSet == {Adapters[i] : i \in DOMAIN Adapters}

ASSUME BluetoothAssumption ==
  /\ Adapters \in Seq(AdapterSet)
  /\ AdapterSet \cap Devices = {}
  /\ NoTarget \notin AdapterSet \cup Devices

VARIABLES
  btAdapters,   \* "gone", "off" or "on"
  btDevices,    \* devices the controller lists
  btRequests,   \* requests it has not finished; role: the member that names it
  bluetooth,    \* BluetoothService
  btAsked       \* the device the user wants paired, not in the code

btVars == <<btAdapters, btDevices, btRequests, bluetooth, btAsked>>

BtRequests == [op : {"start", "stop", "power"}, target : AdapterSet, role : {"discovery", "other"}]
  \cup [op : {"Pair", "Trust", "Connect"}, target : Devices, role : {"chain", "other"}]

BtServices ==
  [selected : AdapterSet \cup {NoTarget}, explicit : BOOLEAN, active : BOOLEAN, scan : BOOLEAN,
   release : BOOLEAN, owned : SUBSET AdapterSet, pairing : Devices \cup {NoTarget}]

BluetoothTypeOK ==
  /\ btAdapters \in [AdapterSet -> {"gone", "off", "on"}]
  /\ btDevices \subseteq Devices
  /\ btRequests \subseteq BtRequests
  /\ bluetooth \in BtServices
  /\ btAsked \in Devices \cup {NoTarget}

BluetoothInit ==
  /\ btAdapters = [a \in AdapterSet |-> "gone"]
  /\ btDevices = {}
  /\ btRequests = {}
  /\ bluetooth = [selected |-> NoTarget, explicit |-> FALSE, active |-> FALSE, scan |-> FALSE,
                  release |-> FALSE, owned |-> {}, pairing |-> NoTarget]
  /\ btAsked = NoTarget

----------------------------------------------------------------------------
Busy(requests, t) == \E r \in requests : r.target = t
Running(requests, role) == \E r \in requests : r.role = role

\* The adapters that are to discover.
Desired(b, adapters) == IF b.scan /\ b.selected # NoTarget /\ adapters[b.selected] = "on" THEN {b.selected} ELSE {}

\* reconcileDiscovery: one request at a time, foreign discoveries are ended first.
Discovery(b, requests, adapters) ==
  LET desired == Desired(b, adapters)
      stops == {a \in b.owned \ desired : ~Busy(requests, a)}
      starts == {a \in desired \ b.owned : ~Busy(requests, a)} IN
  IF Running(requests, "discovery") THEN {}
  ELSE IF stops # {} THEN {[op |-> "stop", target |-> a, role |-> "discovery"] : a \in stops}
  ELSE {[op |-> "start", target |-> a, role |-> "discovery"] : a \in starts}

\* The service is b, the requests are these, and one of discovery's is added.
Reconcile(b, requests, adapters) ==
  LET more == Discovery(b, requests, adapters) IN
  /\ bluetooth' = b
  /\ btRequests' \in IF more = {} THEN {requests} ELSE {requests \cup {r} : r \in more}

\* Mutant: the request of the chain is still known.
CancelKeepsChain(requests) == requests

\* cancelPairing: chain_request_ is cleared; the request itself runs on.
CancelChain(requests) == {[r EXCEPT !.role = IF r.role = "chain" THEN "other" ELSE @] : r \in requests}

\* update: an explicit selection holds while the adapter is there, else the first
\* that is powered, or the first.
Updated(b, adapters, devices) ==
  LET listed == {i \in DOMAIN Adapters : adapters[Adapters[i]] # "gone"}
      powered == {i \in listed : adapters[Adapters[i]] = "on"}
      first == IF powered # {} THEN Adapters[Min(powered)] ELSE IF listed # {} THEN Adapters[Min(listed)] ELSE NoTarget
      kept == b.explicit /\ adapters[b.selected] # "gone" IN
  [b EXCEPT !.explicit = kept, !.selected = IF kept THEN @ ELSE first,
            !.owned = {a \in @ : adapters[a] = "on"},
            !.pairing = IF @ \in devices THEN @ ELSE NoTarget]

\* What the controller publishes.
BluetoothSnapshot(adapters, devices) ==
  LET b == Updated(bluetooth, adapters, devices)
      lost == bluetooth.pairing # b.pairing IN
  /\ btAdapters' = adapters /\ btDevices' = devices
  /\ Reconcile(b, IF lost THEN CancelChain(btRequests) ELSE btRequests, adapters)
  /\ btAsked' = IF btAsked \in devices THEN btAsked ELSE NoTarget

AdapterChanges(a) ==
  \E s \in {"gone", "off", "on"} \ {btAdapters[a]} : BluetoothSnapshot([btAdapters EXCEPT ![a] = s], btDevices)
DeviceChanges(d) == BluetoothSnapshot(btAdapters, IF d \in btDevices THEN btDevices \ {d} ELSE btDevices \cup {d})

----------------------------------------------------------------------------
(* What the user asks for.                                                 *)

Cancelled(b) == [b EXCEPT !.pairing = NoTarget]

SelectAdapter(a) ==
  /\ btAdapters[a] # "gone"
  /\ IF bluetooth.selected = a
     THEN /\ bluetooth' = [bluetooth EXCEPT !.explicit = TRUE]
          /\ UNCHANGED <<btRequests, btAsked>>
     ELSE /\ Reconcile([Cancelled(bluetooth) EXCEPT !.selected = a, !.explicit = TRUE], CancelChain(btRequests), btAdapters)
          /\ btAsked' = NoTarget
  /\ UNCHANGED <<btAdapters, btDevices>>

\* setActive: the popup opens and scans; closed, it releases the scan a little later.
SetActive ==
  /\ IF bluetooth.active
     THEN /\ bluetooth' = [Cancelled(bluetooth) EXCEPT !.active = FALSE, !.release = TRUE]
          /\ btRequests' = CancelChain(btRequests)
          /\ btAsked' = NoTarget
     ELSE /\ Reconcile([bluetooth EXCEPT !.active = TRUE, !.release = FALSE, !.scan = TRUE], btRequests, btAdapters)
          /\ UNCHANGED btAsked
  /\ UNCHANGED <<btAdapters, btDevices>>

ReleaseTimeout ==
  /\ bluetooth.release
  /\ Reconcile([bluetooth EXCEPT !.release = FALSE, !.scan = FALSE], btRequests, btAdapters)
  /\ UNCHANGED <<btAdapters, btDevices, btAsked>>

Scan(enabled) ==
  /\ Reconcile([bluetooth EXCEPT !.release = FALSE, !.scan = enabled /\ bluetooth.active], btRequests, btAdapters)
  /\ UNCHANGED <<btAdapters, btDevices, btAsked>>

\* power, discoverable, renameAdapter: the adapter is busy for a while.
AdapterOperation ==
  /\ bluetooth.selected # NoTarget
  /\ btRequests' = btRequests \cup {[op |-> "power", target |-> bluetooth.selected, role |-> "other"]}
  /\ UNCHANGED <<btAdapters, btDevices, bluetooth, btAsked>>

\* action "pair"
Pair(d) ==
  /\ d \in btDevices
  /\ bluetooth' = [bluetooth EXCEPT !.pairing = d]
  /\ btRequests' = CancelChain(btRequests) \cup {[op |-> "Pair", target |-> d, role |-> "chain"]}
  /\ btAsked' = d
  /\ UNCHANGED <<btAdapters, btDevices>>

CancelPairing ==
  /\ bluetooth' = Cancelled(bluetooth)
  /\ btRequests' = CancelChain(btRequests)
  /\ btAsked' = NoTarget
  /\ UNCHANGED <<btAdapters, btDevices>>

----------------------------------------------------------------------------
\* completed: the chain goes on to trust and connect, the discovery is ours or
\* given up, and what waited for the target is asked for.
Completed(r, ok) ==
  /\ r \in btRequests
  /\ LET goesOn == r.role = "chain" /\ ok /\ r.op # "Connect"
         next == [op |-> IF r.op = "Pair" THEN "Trust" ELSE "Connect", target |-> bluetooth.pairing, role |-> "chain"]
         b == [bluetooth EXCEPT
                 !.pairing = IF r.role = "chain" /\ ~goesOn THEN NoTarget ELSE @,
                 !.scan = @ /\ (r.role = "discovery" => ok),
                 !.owned = IF r.role # "discovery" THEN @
                           ELSE IF ok /\ r.op = "start" THEN @ \cup {r.target} ELSE @ \ {r.target}] IN
     /\ Reconcile(b, (btRequests \ {r}) \cup (IF goesOn THEN {next} ELSE {}), btAdapters)
     /\ btAsked' = IF r.role = "chain" /\ ~goesOn THEN NoTarget ELSE btAsked
  /\ UNCHANGED <<btAdapters, btDevices>>

BluetoothNext ==
  \/ \E a \in AdapterSet : AdapterChanges(a) \/ SelectAdapter(a)
  \/ \E d \in Devices : DeviceChanges(d) \/ Pair(d)
  \/ SetActive \/ ReleaseTimeout \/ AdapterOperation \/ CancelPairing
  \/ \E enabled \in BOOLEAN : Scan(enabled)
  \/ \E r \in btRequests, ok \in BOOLEAN : Completed(r, ok)

----------------------------------------------------------------------------
(* Properties.                                                             *)

\* Only what the user still wants paired is trusted and connected, whatever
\* results come after a cancellation, a lost device or another adapter; and once
\* nothing runs, the shell holds a discovery on the selected adapter exactly when
\* it is to scan and is powered, and on no other.
BluetoothFollowsTheUser ==
  /\ \A r \in btRequests : r.role = "chain" => r.target = btAsked /\ r.target = bluetooth.pairing
  /\ bluetooth.pairing # NoTarget => Running(btRequests, "chain")
  /\ ~(\E r \in btRequests : r.target \in AdapterSet) =>
       bluetooth.owned = Desired(bluetooth, btAdapters)
=============================================================================
