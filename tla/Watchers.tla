------------------------------ MODULE Watchers ------------------------------
(***************************************************************************)
(* The tasks of the daemon that watch the machine and its network, and     *)
(* what becomes of what they see: the scan of the LAN                      *)
(* (daemon/src/lan_devices.rs), the system monitor (run_system_monitor in  *)
(* main.rs, sysmon.rs, units.rs), and the snapshot the pipeline publishes  *)
(* and exports as a file for Prometheus (prometheus_export.rs).            *)
(*                                                                         *)
(* A device is its MAC, a host name belongs to it, an address is lent to   *)
(* it.  A file has its bytes in two halves; what was not synced is lost,   *)
(* whole or half, when the power fails.                                    *)
(***************************************************************************)
EXTENDS Integers, SequencesExt, Maps

CONSTANTS
  Macs, Leases,      \* devices, addresses
  Retention,         \* RETENTION
  MaxDevices,        \* MAX_TRACKED_DEVICES
  Watched, Unwatched,\* units, those in watched_units and others
  MaxHours, MaxScans, MaxPolls, MaxExports, MaxBreakdowns  \* bounds of the model

ASSUME WatchersAssumption ==
  /\ Retention \in Nat /\ MaxDevices \in Nat \ {0} /\ Watched \cap Unwatched = {}

VARIABLES
  hour,       \* the clock
  neighbours, \* the table of the kernel: the lease of a device with a lladdr
  scan,       \* what the scan is at, with the neighbours it has still to name
  known,      \* DeviceRegistry
  shown,      \* what publish_lan_devices published last
  scans,      \* how many scans there were
  sightings,  \* history: the times of the scans that had a device, since it was forgotten
  forgotten,  \* history: what was forgotten while it was within retention, and what stayed
  running,    \* whether the daemon runs
  units,      \* state of the units
  bus,        \* UnitMonitor: whether the D-Bus connection was made
  poll,       \* what the poll at work has measured
  polls,      \* how many there were
  system,     \* set_system_snapshot
  published,  \* number of the snapshot published last
  export,     \* what the export at work is at
  temporary, target,  \* the files
  breakdowns  \* how often something failed

lan == <<neighbours, scan, known, shown, scans, sightings, forgotten>>
monitor == <<units, bus, poll, polls, system>>
exporting == <<published, export, temporary, target>>
watchers == <<hour, running, lan, monitor, exporting, breakdowns>>

None == <<>>
Break == breakdowns < MaxBreakdowns /\ breakdowns' = breakdowns + 1

WatchersInit ==
  /\ hour = 0 /\ running = TRUE /\ breakdowns = 0
  /\ neighbours = <<>> /\ scan = None /\ known = <<>> /\ shown = <<>> /\ scans = 0
  /\ sightings = <<>> /\ forgotten = {}
  /\ units = [u \in Watched \cup Unwatched |-> "active"] /\ bus \in BOOLEAN
  /\ poll = None /\ polls = 0 /\ system = None
  /\ published = 0 /\ export = "idle" /\ temporary = None /\ target = None

Hour == hour < MaxHours /\ hour' = hour + 1 /\ UNCHANGED <<running, lan, monitor, exporting, breakdowns>>

-----------------------------------------------------------------------------
\* Devices come, go and get other leases.  What has no IPv4 address or no lladdr is not
\* among the neighbours (parse_ip_neigh), a ping sweep makes more of them known.

Network ==
  /\ \/ \E m \in Macs, a \in Leases :
          /\ \A n \in DOMAIN neighbours : n # m => neighbours[n] # a
          /\ neighbours' = With(neighbours, m, a)
     \/ \E m \in DOMAIN neighbours : neighbours' = Without(neighbours, {m})
  /\ neighbours' # neighbours
  /\ UNCHANGED <<hour, running, scan, known, shown, scans, sightings, forgotten, monitor, exporting, breakdowns>>

\* run_ip_neigh, after the sweep, and the one reading of the clock of a scan.  If ip
\* cannot be run the scan is left out.
BeginScan ==
  /\ running /\ scan = None /\ scans < MaxScans /\ scans' = scans + 1
  /\ \E left \in SetToSeqs(DOMAIN neighbours) :
       scan' = [at |-> hour, left |-> left, leases |-> neighbours]
  /\ UNCHANGED <<hour, running, neighbours, known, shown, sightings, forgotten, monitor, exporting, breakdowns>>

\* The name of a device, if it answers; otherwise the address stands in for it.
HostName(mac) == <<"name", mac>>

\* Mutant: a device with another address is another device.
ObserveByLease(mac, lease, name, at) ==
  IF mac \in DOMAIN known /\ known[mac].lease = lease
  THEN [known EXCEPT ![mac].last = at, ![mac].name = IF name = None THEN @ ELSE name]
  ELSE With(known, mac, [lease |-> lease, name |-> IF name = None THEN <<"lease", lease>> ELSE name,
                         first |-> at, last |-> at])

\* DeviceRegistry::observe: a name once known is kept, be it the address of then.
Observe(mac, lease, name, at) ==
  IF mac \in DOMAIN known
  THEN [known EXCEPT ![mac].lease = lease, ![mac].last = at,
                     ![mac].name = IF name = None THEN @ ELSE name]
  ELSE With(known, mac, [lease |-> lease, name |-> IF name = None THEN <<"lease", lease>> ELSE name,
                         first |-> at, last |-> at])

\* resolve_display_name of the next neighbour, which takes its time.
Resolve ==
  /\ running /\ scan # None /\ scan.left # <<>>
  /\ LET mac == Head(scan.left)
         before == IF mac \in DOMAIN sightings THEN sightings[mac] ELSE {}
     IN  /\ \E name \in {None, HostName(mac)} : known' = Observe(mac, scan.leases[mac], name, scan.at)
         /\ sightings' = With(sightings, mac, before \cup {scan.at})
         /\ scan' = [scan EXCEPT !.left = Tail(@)]
  /\ UNCHANGED <<hour, running, neighbours, shown, scans, forgotten, monitor, exporting, breakdowns>>

\* prune: what was not seen for too long goes, and of too many those not seen for longest.
Recent(at) == {m \in DOMAIN known : at - known[m].last <= Retention}
Pruned(recent) ==
  {keep \in SUBSET recent :
     /\ Cardinality(keep) = IF Cardinality(recent) > MaxDevices THEN MaxDevices ELSE Cardinality(recent)
     /\ \A m \in keep, n \in recent \ keep : known[m].last >= known[n].last}

EndScan ==
  /\ running /\ scan # None /\ scan.left = <<>> /\ scan' = None
  /\ \E keep \in Pruned(Recent(scan.at)) :
       /\ known' = [m \in keep |-> known[m]] /\ shown' = known'
       /\ sightings' = [m \in keep |-> sightings[m]]
       /\ forgotten' = {[mac |-> m, last |-> CHOOSE t \in sightings[m] : \A s \in sightings[m] : s <= t,
                         at |-> scan.at, stayed |-> known'] : m \in DOMAIN known \ keep}
  /\ UNCHANGED <<hour, running, neighbours, scans, monitor, exporting, breakdowns>>

-----------------------------------------------------------------------------
\* The system monitor.  The connection to D-Bus is tried once, at the start.

UnitChange ==
  /\ \E u \in DOMAIN units, state \in {"active", "failed", "unloaded"} :
       state # units[u] /\ units' = [units EXCEPT ![u] = state]
  /\ hour' = hour + 1 /\ hour < MaxHours
  /\ UNCHANGED <<running, lan, bus, poll, polls, system, exporting, breakdowns>>

\* sysmon.poll: all but the units, with the time before it.
Measure ==
  /\ running /\ poll = None /\ polls < MaxPolls /\ polls' = polls + 1
  /\ poll' = [at |-> hour, units |-> None]
  /\ UNCHANGED <<hour, running, lan, units, bus, system, exporting, breakdowns>>

Loaded == [u \in {v \in DOMAIN units : units[v] # "unloaded"} |-> units[u]]
FilterWatched(raw) == [u \in DOMAIN raw \cap Watched |-> raw[u]]

\* ListUnits of systemd, which knows the units that are loaded; without connection, or if the
\* call fails, there are none.
ListUnits ==
  /\ running /\ poll # None /\ poll' = None
  /\ \/ /\ bus /\ system' = [poll EXCEPT !.units = FilterWatched(Loaded)]
        /\ UNCHANGED breakdowns
     \/ /\ bus => Break
        /\ ~bus => UNCHANGED breakdowns
        /\ system' = poll
  /\ UNCHANGED <<hour, running, lan, units, bus, polls, exporting>>

-----------------------------------------------------------------------------
\* publish_snapshot: the snapshot is exported, then published, whatever became of the export.

File(number, halves, synced) == [number |-> number, halves |-> halves, synced |-> synced]

CreateTemporary ==
  /\ running /\ export = "idle" /\ published < MaxExports
  /\ \/ temporary' = File(published + 1, 0, FALSE) /\ export' = "created" /\ UNCHANGED <<published, breakdowns>>
     \/ Break /\ published' = published + 1 /\ UNCHANGED <<temporary, export>>
  /\ UNCHANGED <<hour, running, lan, monitor, target>>

\* A step of the export, or it fails there and is given up, the file left where it is.
Do(from, to, effect) ==
  /\ running /\ export = from
  /\ \/ effect /\ export' = to /\ UNCHANGED <<published, breakdowns>>
     \/ Break /\ published' = published + 1 /\ export' = "idle" /\ UNCHANGED <<temporary, target>>
  /\ UNCHANGED <<hour, running, lan, monitor>>

WriteHalf == Do("created", "half", temporary' = [temporary EXCEPT !.halves = 1] /\ UNCHANGED target)
WriteRest == Do("half", "written", temporary' = [temporary EXCEPT !.halves = 2] /\ UNCHANGED target)
\* Mutant: closed, but not synced.
CloseOnly == Do("written", "synced", UNCHANGED <<temporary, target>>)
Sync == Do("written", "synced", temporary' = [temporary EXCEPT !.synced = TRUE] /\ UNCHANGED target)
Rename == Do("synced", "renamed", target' = temporary /\ temporary' = None)
Publish ==
  /\ running /\ export = "renamed" /\ export' = "idle" /\ published' = published + 1
  /\ UNCHANGED <<hour, running, lan, monitor, temporary, target, breakdowns>>

\* The daemon is killed, or the power fails, and it starts again with another number for
\* its temporary file, or with the same; what was left under another is never removed.
After(file, powerFails) ==
  IF file = None \/ ~powerFails \/ file.synced THEN {file}
  ELSE {[file EXCEPT !.halves = h] : h \in 0..file.halves}
Die(powerFails) ==
  /\ running /\ running' = FALSE /\ Break
  /\ temporary' \in After(temporary, powerFails) /\ target' \in After(target, powerFails)
  /\ export' = "idle" /\ scan' = None /\ poll' = None
  /\ known' = <<>> /\ shown' = <<>> /\ sightings' = <<>> /\ forgotten' = {} /\ system' = None
  /\ UNCHANGED <<hour, neighbours, scans, units, bus, polls, published>>
Restart ==
  /\ ~running /\ running' = TRUE /\ bus' \in BOOLEAN
  /\ temporary' \in {None, temporary}
  /\ UNCHANGED <<hour, lan, units, poll, polls, system, published, export, target, breakdowns>>

LanNext == Network \/ BeginScan \/ Resolve \/ EndScan
MonitorNext == UnitChange \/ Measure \/ ListUnits
ExportNext == CreateTemporary \/ WriteHalf \/ WriteRest \/ Sync \/ Rename \/ Publish
                \/ Restart \/ \E powerFails \in BOOLEAN : Die(powerFails)

-----------------------------------------------------------------------------
(* Properties                                                              *)

\* What is shown of a device was seen: since when, till when, and by its name if it ever told
\* it; and what is not shown was not seen for longer than Retention, or less recently than a
\* full registry of others (observe, prune).
DevicesAreKept ==
  /\ \A m \in DOMAIN shown :
       /\ \E t \in sightings[m] : shown[m].first = t /\ \A s \in sightings[m] : s >= t
       /\ shown[m].last \in sightings[m]
       /\ \A t \in sightings[m] : t <= shown[m].last \/ (scan # None /\ t = scan.at)
  /\ \A f \in forgotten :
       \/ f.at - f.last > Retention
       \/ Cardinality(DOMAIN f.stayed) = MaxDevices
          /\ \A m \in DOMAIN f.stayed : f.stayed[m].last >= f.last

\* Whoever reads the exported file finds one snapshot, whole, and not an older one than the
\* last but the export at work, unless an export failed (write_prometheus_textfile).
ExportIsWhole ==
  /\ target # None => target.halves = 2
  /\ breakdowns = 0 /\ published > 0 => target.number \in {published, published + 1}
=============================================================================
