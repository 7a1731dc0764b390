----------------------------- MODULE IpamdLife -----------------------------
(***************************************************************************)
(* The life of one node's ipamd process: at its start it moves the v1      *)
(* address pool into the pool of the default subnet (svc.go), and on nodes *)
(* with UNI support it offers its interfaces to kubelet as a device plugin *)
(* (pkg/deviceplugin), which must be registered with every kubelet anew.   *)
(* The only sign of a kubelet restart that the plugin looks for is that    *)
(* its own socket file has disappeared.  Any error of the plugin ends the  *)
(* whole process; the DaemonSet starts the next one.                       *)
(***************************************************************************)
EXTENDS Integers, FiniteSets

CONSTANTS
  Addr,         \* the addresses in the v1 pool before the upgrade
  Name,         \* socket names: the start times of processes
  FaultKinds,   \* the kinds of fault the environment may inject
  MaxFaults,    \* bound: how many faults it injects
  MaxRestarts,  \* bound: how often kubelet is restarted
  None

ASSUME LifeAssumption ==
  /\ IsFiniteSet(Addr) /\ IsFiniteSet(Name)
  /\ None \notin Addr \cup Name
  /\ Cardinality(Name) > MaxFaults + 1   \* a new start time is never used up
  /\ MaxFaults \in Nat /\ MaxRestarts \in Nat

VARIABLES
  life,      \* the main goroutine of ipamd
  held,      \* ... the address it has popped from the v1 pool
  old,       \* database: the v1 pool
  new,       \* database: the pool of the default subnet
  me,        \* the socket name of the current process
  dp,        \* the goroutine of the device plugin
  server,    \* the socket name a gRPC server of the process listens on
  socks,     \* the *-uni.sock files in kubelet's device plugin directory
  kubelet,   \* kubelet's registration server
  endpoint,  \* the plugin socket kubelet has a ListAndWatch stream to
  restarts, faults,   \* bounded counters
  losses     \* history: the exits with an address in hand

poolVars == <<held, old, new>>
plugVars == <<server, socks, endpoint>>
vars == <<life, poolVars, me, dp, plugVars, kubelet, restarts, faults, losses>>

TypeOK ==
  /\ life \in {"down", "migrate", "put", "start", "serve"}
  /\ held \in (IF life = "put" THEN Addr ELSE {None}) /\ old \in SUBSET Addr /\ new \in SUBSET Addr
  /\ dp \in (IF life = "serve" THEN {"clean", "listen", "register", "watch"} ELSE {"off"})
  /\ me \in Name \cup {None} /\ server \in {me, None} /\ endpoint \in {server, None}
  /\ socks \in SUBSET Name
  /\ kubelet \in {"down", "clean", "up"}
  /\ restarts \in 0..MaxRestarts /\ faults \in 0..MaxFaults /\ losses \in 0..faults

(* The first process after the upgrade.                                    *)
Init ==
  /\ life = "down" /\ held = None /\ old = Addr /\ new = {}
  /\ me = None /\ dp = "off" /\ server = None /\ socks = {}
  /\ kubelet = "up" /\ endpoint = None
  /\ restarts = 0 /\ faults = 0 /\ losses = 0

Fault(k) == k \in FaultKinds /\ faults < MaxFaults /\ faults' = faults + 1

(* The process ends: its server and kubelet's stream go, the file stays.   *)
Exit ==
  /\ life' = "down" /\ dp' = "off" /\ held' = None
  /\ server' = None /\ endpoint' = None
  /\ losses' = IF held # None THEN losses + 1 ELSE losses

-----------------------------------------------------------------------------
(* The main goroutine.                                                     *)

Launch ==
  /\ life = "down" /\ life' = "migrate"
  /\ UNCHANGED <<poolVars, me, dp, plugVars, kubelet, restarts, faults, losses>>

migratePop ==
  /\ life = "migrate"
  /\ \/ \E a \in old : old' = old \ {a} /\ held' = a /\ life' = "put"
     \/ old = {} /\ life' = "start" /\ UNCHANGED <<old, held>>
  /\ UNCHANGED <<new, me, dp, plugVars, kubelet, restarts, faults, losses>>

(* An address that cannot be put is gone with the process.                 *)
migratePut_KeepsHeld ==
  /\ life = "put" /\ new' = new \cup {held} /\ life' = "migrate"
  /\ UNCHANGED <<old, held, me, dp, plugVars, kubelet, restarts, faults, losses>>
migratePut_Skipped ==
  /\ life = "put" /\ life' = "migrate" /\ held' = None
  /\ UNCHANGED <<old, new, me, dp, plugVars, kubelet, restarts, faults, losses>>
migratePut ==
  /\ life = "put"
  /\ \/ /\ new' = new \cup {held} /\ held' = None /\ life' = "migrate"
        /\ UNCHANGED <<dp, server, endpoint, faults, losses>>
     \/ Fault("db") /\ Exit /\ UNCHANGED new
  /\ UNCHANGED <<old, me, socks, kubelet, restarts>>

(* The plugin is named after the time of its start.                        *)
NewUNIDevicePlugin == \E n \in Name \ (socks \cup {me}) : me' = n

startDevicePlugin ==
  /\ life = "start" /\ life' = "serve" /\ dp' = "clean"
  /\ NewUNIDevicePlugin
  /\ UNCHANGED <<poolVars, plugVars, kubelet, restarts, faults, losses>>

(* A signal, a crash, or one of the many Fatalf calls.                     *)
Crash ==
  /\ life # "down" /\ Fault("crash") /\ Exit
  /\ UNCHANGED <<old, new, me, socks, kubelet, restarts>>

-----------------------------------------------------------------------------
(* The device plugin.                                                      *)

(* Start removes every plugin socket; what cannot be removed is left.      *)
cleanup ==
  \/ socks' = {} /\ UNCHANGED faults
  \/ Fault("unlink") /\ socks' \in SUBSET socks

StartClean ==
  /\ dp = "clean" /\ cleanup /\ dp' = "listen"
  /\ UNCHANGED <<life, poolVars, me, server, kubelet, endpoint, restarts, losses>>

(* Start fails if it cannot listen or cannot dial its own socket; then the *)
(* file may be there.                                                      *)
StartListen ==
  /\ dp = "listen"
  /\ \/ /\ me \notin socks
        /\ socks' = socks \cup {me} /\ server' = me /\ dp' = "register"
        /\ UNCHANGED <<life, held, endpoint, losses, faults>>
     \/ /\ (me \in socks /\ UNCHANGED faults) \/ Fault("listen")
        /\ Exit /\ socks' \in {socks, socks \cup {me}}
  /\ UNCHANGED <<old, new, me, kubelet, restarts>>

(* kubelet answers and dials the socket.  Without the file it either       *)
(* refuses or, in its older versions, finds out after it has answered.     *)
Register ==
  /\ dp = "register" /\ kubelet = "up"
  /\ dp' = "watch"
  /\ endpoint' = IF me \in socks THEN me ELSE None
  /\ UNCHANGED <<life, poolVars, me, server, socks, kubelet, restarts, faults, losses>>

Stop == server' = None /\ endpoint' = None /\ cleanup

(* No kubelet within five seconds, or a refusal: Serve stops the server    *)
(* before it fails, watchKubeletRestart does not.                          *)
RegisterFails ==
  /\ dp = "register" /\ (kubelet # "up" \/ me \notin socks)
  /\ Stop \/ UNCHANGED <<socks, faults>>
  /\ Exit
  /\ UNCHANGED <<old, new, me, kubelet, restarts>>

(* Stop, and then Start and Register again.                                *)
watchKubeletRestart_Ignored ==
  dp = "watch" /\ me \notin socks /\ UNCHANGED vars
watchKubeletRestart_NoRegister ==
  /\ dp = "watch" /\ me \notin socks
  /\ server' = me /\ endpoint' = None /\ socks' = {me}
  /\ UNCHANGED <<life, poolVars, me, dp, kubelet, restarts, faults, losses>>
watchKubeletRestart ==
  /\ dp = "watch" /\ me \notin socks
  /\ Stop /\ dp' = "clean"
  /\ UNCHANGED <<life, poolVars, me, kubelet, restarts, losses>>

-----------------------------------------------------------------------------
(* kubelet: a new one empties the directory before it listens.             *)

KubeletStop ==
  /\ kubelet = "up" /\ restarts < MaxRestarts
  /\ kubelet' = "down" /\ endpoint' = None /\ restarts' = restarts + 1
  /\ UNCHANGED <<life, poolVars, me, dp, server, socks, faults, losses>>

KubeletStart ==
  \/ /\ kubelet = "down" /\ kubelet' = "clean" /\ socks' = {}
     /\ UNCHANGED <<life, poolVars, me, dp, server, endpoint, restarts, faults, losses>>
  \/ /\ kubelet = "clean" /\ kubelet' = "up"
     /\ UNCHANGED <<life, poolVars, me, dp, plugVars, restarts, faults, losses>>

Main == Launch \/ migratePop \/ migratePut \/ startDevicePlugin
Plugin == StartClean \/ StartListen \/ Register \/ RegisterFails \/ watchKubeletRestart

Next == Main \/ Plugin \/ Crash \/ KubeletStop \/ KubeletStart

Spec == Init /\ [][Next]_vars

(* The DaemonSet restarts ipamd, systemd restarts kubelet, goroutines are  *)
(* scheduled, and the watch looks every 30 seconds.                        *)
FairSpec == Spec /\ WF_vars(Main) /\ WF_vars(Plugin) /\ WF_vars(KubeletStart)

-----------------------------------------------------------------------------
(* Properties.                                                             *)

(* While the watch sees its socket the running kubelet has the plugin: it  *)
(* does nothing else to find out, so a registration missed in this state   *)
(* would never be made up for.                                             *)
WatchSuffices ==
  (dp = "watch" /\ me \in socks) => (endpoint = me \/ kubelet = "down")

(* ipamd serves only after the v1 pool has been moved; an address is in    *)
(* one of the pools at most, and missing from both only if a process ended *)
(* between the pop and the put.                                            *)
ServesMigrated ==
  /\ life = "serve" => old = {}
  /\ old \cap new = {} /\ held \notin old \cup new
  /\ Cardinality(Addr \ (old \cup new \cup {held})) <= losses

(* After the last restart of kubelet and the last fault the plugin is      *)
(* registered for good, with every address that is left in the new pool.   *)
Registered == <>[](endpoint = me /\ me \in socks /\ life = "serve" /\ old = {})
=============================================================================
