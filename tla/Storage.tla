-------------------------------- MODULE Storage --------------------------------
(***************************************************************************)
(* StorageService: the rows of removable devices, the operations on them,  *)
(* the errors these leave behind and the files windows opened after a      *)
(* mount.  The controller it asks (UDisks) is outside the repository: its  *)
(* answer comes at any later moment, also after the device has gone.       *)
(***************************************************************************)
EXTENDS Naturals, FiniteSets

CONSTANTS Drives, Volumes,   \* object identifiers
          DriveOf,           \* the drive of each volume
          Discs,             \* optical drives, which have no volume
          MaxErrors          \* bound: failures, next_error_generation_

ASSUME StorageAssumption ==
  /\ DriveOf \in [Volumes -> Drives] /\ Discs \subseteq Drives /\ Drives \cap Volumes = {}
  /\ MaxErrors \in Nat

Targets == Drives \cup Volumes
Operations == {"mount", "unmount", "eject", "poweroff"}
NoOperation == "none"
NoError == [kind |-> "none", generation |-> 0]
Removals == {"eject", "poweroff"}

VARIABLES
  storageDevices,   \* controller_: available, the drives, those with a medium, the volumes, what is mounted
  storageBusy,      \* controller_: the operation it works on, of each target
  storage,          \* the members of StorageService
  storageTimers,    \* pending single shots: a target and a generation
  storageLaunches,  \* files windows being started, and whether a mounted volume is opened
  storageTold       \* how often a drive was announced since it has a row; safe removals told

storageVars == <<storageDevices, storageBusy, storage, storageTimers, storageLaunches, storageTold>>

StorageTypeOK ==
  /\ storageDevices.drives \subseteq Drives /\ storageDevices.mounted \subseteq storageDevices.volumes
  /\ storageDevices.volumes \subseteq Volumes /\ storageDevices.media \subseteq Drives /\ storageDevices.available \in BOOLEAN
  /\ storageBusy \in [Targets -> Operations \cup {NoOperation}]
  /\ \A t \in DOMAIN storage.inFlight : t \in Targets /\ storage.inFlight[t] \in Operations
  /\ storage.errors \in [Targets -> [kind : Operations \cup {"none", "launch"}, generation : 0..MaxErrors]]
  /\ storage.labels \subseteq Targets /\ storage.openAfter \subseteq Targets
  /\ storage.known \subseteq Drives /\ storage.seeded \in BOOLEAN /\ storage.generation \in 0..MaxErrors
  /\ storageTimers \subseteq [target : Targets, generation : 1..MaxErrors]
  /\ storageLaunches \subseteq Targets
  /\ storageTold.connected \in [Drives -> 0..2] /\ storageTold.removed \subseteq Targets

----------------------------------------------------------------------------
(* The rows.                                                               *)

TargetRow(d, busy, t, drive) ==
  LET occupied == busy[t] # NoOperation \/ busy[drive] # NoOperation IN
  [target |-> t, drive |-> drive, mounted |-> t \in d.mounted, busy |-> occupied,
   can |-> IF occupied THEN {}
           ELSE Removals \cup (IF t \notin Volumes THEN {} ELSE IF t \in d.mounted THEN {"unmount"} ELSE {"mount"})]

\* refresh and appendOpticalDrives: a volume of a drive with its medium, and a disc.
StorageRowsOf(d, busy) ==
  {TargetRow(d, busy, v, DriveOf[v]) : v \in {x \in d.volumes : DriveOf[x] \in d.drives \cap d.media}}
  \cup {TargetRow(d, busy, o, o) : o \in d.drives \cap d.media \cap Discs}

\* The drives with a row.
ShownDrives(d) == ({DriveOf[v] : v \in d.volumes} \cup Discs) \cap d.drives \cap d.media

\* notifyNewlyConnectedDrives: the drives it announces.
NewlyConnected(s, d) == IF d.available /\ s.seeded THEN ShownDrives(d) \ s.known ELSE {}

\* refresh: the rows, and the drives it announces, for the members s.
Refreshed(s, d, busy) ==
  [s EXCEPT !.rows = StorageRowsOf(d, busy),
            !.known = IF d.available THEN ShownDrives(d) ELSE @,
            !.seeded = @ \/ d.available]

RefreshWith(s, d, busy, told) ==
  /\ storageDevices' = d /\ storageBusy' = busy
  /\ storage' = Refreshed(s, d, busy)
  /\ storageTold' = [told EXCEPT !.connected = [x \in Drives |->
                       IF x \notin ShownDrives(d) THEN 0
                       ELSE IF x \in NewlyConnected(s, d) /\ told.connected[x] < 2 THEN told.connected[x] + 1
                       ELSE told.connected[x]]]

StorageInit ==
  /\ storageDevices = [available |-> FALSE, drives |-> {}, media |-> {}, volumes |-> {}, mounted |-> {}]
  /\ storageBusy = [t \in Targets |-> NoOperation]
  /\ storage = [rows |-> {}, inFlight |-> <<>>, labels |-> {}, errors |-> [t \in Targets |-> NoError],
                openAfter |-> {}, known |-> {}, seeded |-> FALSE, generation |-> 0]
  /\ storageTimers = {} /\ storageLaunches = {}
  /\ storageTold = [connected |-> [d \in Drives |-> 0], removed |-> {}]

----------------------------------------------------------------------------
(* The controller's signals.                                               *)

\* The first snapshot: both models are filled before availableChanged.
Snapshot(ds) ==
  /\ ~storageDevices.available
  /\ RefreshWith(storage, [available |-> TRUE, drives |-> ds, media |-> ds, volumes |-> {v \in Volumes : DriveOf[v] \in ds},
                           mounted |-> {}], storageBusy,
                 [storageTold EXCEPT !.connected = [x \in Drives |-> 1]])
  /\ UNCHANGED <<storageTimers, storageLaunches>>

\* A drive is connected, with its medium or without, then its volumes appear; each makes a refresh.
DriveAppears(x) ==
  /\ storageDevices.available /\ x \notin storageDevices.drives
  /\ \E media \in {storageDevices.media, storageDevices.media \cup {x}} :
       RefreshWith(storage, [storageDevices EXCEPT !.drives = @ \cup {x}, !.media = media], storageBusy,
                   [storageTold EXCEPT !.removed = @ \ ({x} \cup {v \in Volumes : DriveOf[v] = x})])
  /\ UNCHANGED <<storageTimers, storageLaunches>>

VolumeAppears(v) ==
  /\ storageDevices.available /\ v \notin storageDevices.volumes /\ DriveOf[v] \in storageDevices.drives
  /\ RefreshWith(storage, [storageDevices EXCEPT !.volumes = @ \cup {v}], storageBusy, storageTold)
  /\ UNCHANGED <<storageTimers, storageLaunches>>

\* A partition is deleted or formatted, or is no longer one to show; its drive stays.
VolumeDisappears(v) ==
  /\ v \in storageDevices.volumes
  /\ RefreshWith(storage, [storageDevices EXCEPT !.volumes = @ \ {v}, !.mounted = @ \ {v}], storageBusy, storageTold)
  /\ UNCHANGED <<storageTimers, storageLaunches>>

\* A medium is put into a drive that stays, or taken out; its volumes come and go on their own.
MediumChanges(x) ==
  /\ storageDevices.available /\ x \in storageDevices.drives
  /\ RefreshWith(storage, [storageDevices EXCEPT !.media = IF x \in @ THEN @ \ {x} ELSE @ \cup {x}],
                 storageBusy, storageTold)
  /\ UNCHANGED <<storageTimers, storageLaunches>>

\* It is pulled out, also during an operation.
DriveDisappears(x) ==
  /\ x \in storageDevices.drives
  /\ LET gone == {v \in Volumes : DriveOf[v] = x} IN
     RefreshWith(storage, [storageDevices EXCEPT !.drives = @ \ {x}, !.media = @ \ {x}, !.volumes = @ \ gone,
                                                 !.mounted = @ \ gone],
                 storageBusy, storageTold)
  /\ UNCHANGED <<storageTimers, storageLaunches>>

\* Another program mounts or unmounts.
MountChanges(v) ==
  /\ v \in storageDevices.volumes
  /\ RefreshWith(storage, [storageDevices EXCEPT !.mounted = IF v \in @ THEN @ \ {v} ELSE @ \cup {v}],
                 storageBusy, storageTold)
  /\ UNCHANGED <<storageTimers, storageLaunches>>

\* operationFinished with an error: it is kept until its timer, or the next operation.
OperationFailed(s, t, op) ==
  [s EXCEPT !.openAfter = @ \ {t}, !.generation = @ + 1,
            !.errors[t] = [kind |-> op, generation |-> s.generation + 1]]

Without(f, t) == [x \in DOMAIN f \ {t} |-> f[x]]

\* operationFinished, and the controller's change of state: a success that changes the
\* devices, or an error.
OperationFinished(t) ==
  LET op == storageBusy[t]
      busy == [storageBusy EXCEPT ![t] = NoOperation]
      s == [storage EXCEPT !.inFlight = Without(@, t), !.labels = @ \ {t}] IN
  /\ op # NoOperation
  /\ \/ LET d == [storageDevices EXCEPT
                    !.mounted = CASE op = "mount" -> @ \cup {t} [] op = "unmount" -> @ \ {t}
                                  [] OTHER -> {v \in @ : v # t /\ DriveOf[v] # t}] IN
        /\ t \in storageDevices.drives \cup storageDevices.volumes
        /\ RefreshWith([s EXCEPT !.errors[t] = NoError,
                                 !.openAfter = IF op = "mount" THEN @ \ {t} ELSE @], d, busy,
                       [storageTold EXCEPT !.removed = IF op \in Removals THEN @ \cup {t} ELSE @])
        /\ storageLaunches' = IF op = "mount" /\ t \in s.openAfter THEN storageLaunches \cup {t} ELSE storageLaunches
        /\ UNCHANGED storageTimers
     \/ /\ storage.generation < MaxErrors
        /\ RefreshWith(OperationFailed(s, t, op), storageDevices, busy, storageTold)
        /\ storageTimers' = storageTimers \cup {[target |-> t, generation |-> storage.generation + 1]}
        /\ UNCHANGED storageLaunches

\* The timer of an error only removes that error.
IsExpired(s, timer) == s.errors[timer.target].generation = timer.generation

ErrorExpires(timer) ==
  /\ timer \in storageTimers
  /\ storageTimers' = storageTimers \ {timer}
  /\ storage' = IF IsExpired(storage, timer)
                THEN Refreshed([storage EXCEPT !.errors[timer.target] = NoError], storageDevices, storageBusy)
                ELSE storage
  /\ UNCHANGED <<storageDevices, storageBusy, storageLaunches, storageTold>>

----------------------------------------------------------------------------
(* The page's operations.                                                  *)

\* visibleTarget, and no operation of the target in flight.
Allowed(s, t, op) ==
  /\ \E r \in s.rows : (r.target = t \/ r.drive = t) /\ op \in r.can
  /\ t \notin DOMAIN s.inFlight

\* beginOperation, and the controller's start.
Begin(s, t, op) ==
  LET begun == [s EXCEPT !.errors[t] = NoError,
                         !.inFlight = [x \in DOMAIN @ \cup {t} |-> IF x = t THEN op ELSE @[x]],
                         !.labels = IF op \in Removals THEN @ \cup {t} ELSE @] IN
  RefreshWith(begun, storageDevices, [storageBusy EXCEPT ![t] = op], storageTold)

\* mount and unmount of a volume, eject and powerOff of a drive.
Operate(t, op) ==
  /\ t \in (IF op \in Removals THEN Drives ELSE Volumes) /\ Allowed(storage, t, op)
  /\ Begin(storage, t, op)
  /\ UNCHANGED <<storageTimers, storageLaunches>>

RetryOperation(t) == storage.errors[t].kind \in Operations /\ Operate(t, storage.errors[t].kind)

\* openVolume of one that is not mounted: its files are opened once it is.
OpenVolume(t) ==
  /\ t \in storageDevices.volumes
  /\ IF t \in storageDevices.mounted
     THEN storageLaunches' = storageLaunches \cup {t} /\ UNCHANGED <<storageDevices, storageBusy, storage, storageTold>>
     ELSE /\ Allowed(storage, t, "mount")
          /\ Begin([storage EXCEPT !.openAfter = @ \cup {t}], t, "mount")
          /\ UNCHANGED storageLaunches
  /\ UNCHANGED storageTimers

\* retry of a failed launch: the error is gone at once, the rows are not refreshed.
RetryLaunch(t) ==
  /\ storage.errors[t].kind = "launch"
  /\ storage' = [storage EXCEPT !.errors[t] = NoError]
  /\ storageLaunches' = storageLaunches \cup {t}
  /\ UNCHANGED <<storageDevices, storageBusy, storageTimers, storageTold>>

\* The callback of launchFiles: its error has no timer.
FilesLaunched(t) ==
  /\ t \in storageLaunches
  /\ storageLaunches' = storageLaunches \ {t}
  /\ \/ storage' = Refreshed([storage EXCEPT !.errors[t] = NoError], storageDevices, storageBusy)
     \/ /\ storage.generation < MaxErrors
        /\ storage' = Refreshed([storage EXCEPT !.generation = @ + 1,
                                   !.errors[t] = [kind |-> "launch", generation |-> storage.generation + 1]],
                                storageDevices, storageBusy)
  /\ UNCHANGED <<storageDevices, storageBusy, storageTimers, storageTold>>

StorageNext ==
  \/ \E ds \in SUBSET Drives : Snapshot(ds)
  \/ \E x \in Drives : DriveAppears(x) \/ DriveDisappears(x) \/ MediumChanges(x)
  \/ \E v \in Volumes : VolumeAppears(v) \/ VolumeDisappears(v) \/ MountChanges(v) \/ OpenVolume(v)
  \/ \E t \in Targets : \/ OperationFinished(t) \/ RetryOperation(t) \/ RetryLaunch(t) \/ FilesLaunched(t)
                        \/ \E op \in Operations : Operate(t, op)
  \/ \E timer \in storageTimers : ErrorExpires(timer)

----------------------------------------------------------------------------
(* Properties.                                                             *)

\* What the page shows and remembers agrees with the devices, through hot plugging,
\* failures and retries: the rows are those of the devices there are; an operation is
\* remembered exactly while the controller works on it; a volume waits to be opened only
\* while it is being mounted; a removal keeps its label; the error of an operation always
\* has its own timer, which an older one does not end; and a drive that has a row was
\* announced once since it has one, or had it in the first snapshot.  A drive whose medium
\* or last volume goes and comes again is announced again.
StorageAgrees ==
  /\ storage.rows = StorageRowsOf(storageDevices, storageBusy)
  /\ storage.inFlight = [t \in {x \in Targets : storageBusy[x] # NoOperation} |-> storageBusy[t]]
  /\ \A t \in storage.openAfter : storageBusy[t] = "mount"
  /\ storage.labels = {t \in Targets : storageBusy[t] \in Removals}
  /\ \A t \in Targets : storage.errors[t].kind \in Operations =>
       [target |-> t, generation |-> storage.errors[t].generation] \in storageTimers
  /\ \A x \in Drives : storageTold.connected[x] = IF \E r \in storage.rows : r.drive = x THEN 1 ELSE 0

\* The timer of an error removes no other error: after it expires, an error with a
\* newer generation is still there.
OnlyOwnErrorExpires ==
  LET gone == storageTimers \ storageTimers' IN
  \A t \in Targets :
    gone # {} /\ storage.errors[t] # storage'.errors[t] =>
      [target |-> t, generation |-> storage.errors[t].generation] \in gone
=============================================================================
