-------------------------- MODULE IpamdLifeProofs --------------------------
(***************************************************************************)
(* The start of ipamd and the device plugin's registration, for every v1   *)
(* pool, every number of faults and every number of kubelet restarts.      *)
(***************************************************************************)
EXTENDS IpamdLife, FiniteSetTheorems, TLAPS

(* TypeOK is not inductive by itself: a stream of kubelet is one to the    *)
(* server of this process only because a process has no server before it   *)
(* serves, and has one under its own name when it registers.               *)
ServerInv ==
  /\ life # "serve" => server = None
  /\ life = "serve" => me \in Name
  /\ dp = "register" => server = me

(* What ServesMigrated needs: the plugin, and with it the service, starts  *)
(* only on an empty v1 pool.                                               *)
MigratedInv == life \in {"start", "serve"} => old = {}

IInv == TypeOK /\ ServerInv /\ MigratedInv

----------------------------------------------------------------------------
(* Types.                                                                  *)

LEMMA CleanupType ==
  ASSUME TypeOK, cleanup
  PROVE  socks' \in SUBSET Name /\ socks' \subseteq socks
         /\ faults' \in 0..MaxFaults /\ losses \in 0..faults'
BY LifeAssumption DEF cleanup, Fault, TypeOK

(* A process that ends with an address in hand ends by a fault: a plugin   *)
(* step, which may end it without one, runs when nothing is held.          *)
LEMMA ExitKeeps ==
  ASSUME IInv, Exit, faults' \in 0..MaxFaults,
         losses' \in 0..faults',
         UNCHANGED <<old, me, kubelet, restarts>>,
         new' = new, socks' \in SUBSET Name
  PROVE  IInv'
BY LifeAssumption DEF IInv, ServerInv, MigratedInv, TypeOK, Exit

LEMMA ServeHoldsNothing ==
  ASSUME TypeOK, dp # "off"
  PROVE  life = "serve" /\ held = None /\ dp \in {"clean", "listen", "register", "watch"}
BY DEF TypeOK

(* One step per action: the database, the server and the socket directory  *)
(* stay within their types, and the server belongs to the process.         *)
LEMMA IInvStep == IInv /\ [Next]_vars => IInv'
<1> SUFFICES ASSUME IInv, [Next]_vars PROVE IInv'
  OBVIOUS
<1> USE LifeAssumption
<1>1. CASE Launch
  BY <1>1 DEF Launch, IInv, ServerInv, MigratedInv, TypeOK, poolVars, plugVars
<1>2. CASE migratePop
  BY <1>2 DEF migratePop, IInv, ServerInv, MigratedInv, TypeOK, plugVars
<1>3. CASE migratePut
  <2>1. CASE Fault("db") /\ Exit /\ UNCHANGED new /\ UNCHANGED <<old, me, socks, kubelet, restarts>>
    <3>1. faults' \in 0..MaxFaults /\ losses' \in 0..faults'
      BY <2>1 DEF Fault, Exit, IInv, TypeOK
    <3>2. socks' \in SUBSET Name
      BY <2>1 DEF IInv, TypeOK
    <3> QED BY <2>1, <3>1, <3>2, ExitKeeps
  <2>2. CASE ~(Fault("db") /\ Exit /\ UNCHANGED new)
    BY <1>3, <2>2 DEF migratePut, IInv, ServerInv, MigratedInv, TypeOK
  <2> QED BY <1>3, <2>1, <2>2 DEF migratePut
<1>4. CASE startDevicePlugin
  BY <1>4 DEF startDevicePlugin, NewUNIDevicePlugin, IInv, ServerInv, MigratedInv, TypeOK,
              poolVars, plugVars
<1>5. CASE Crash
  <2>1. faults' \in 0..MaxFaults /\ losses' \in 0..faults'
    BY <1>5 DEF Crash, Fault, Exit, IInv, TypeOK
  <2>2. socks' \in SUBSET Name
    BY <1>5 DEF Crash, IInv, TypeOK
  <2> QED BY <1>5, <2>1, <2>2, ExitKeeps DEF Crash
<1>6. CASE StartClean
  <2>1. socks' \in SUBSET Name /\ faults' \in 0..MaxFaults /\ losses \in 0..faults'
    BY <1>6, CleanupType DEF StartClean, IInv
  <2> QED BY <1>6, <2>1 DEF StartClean, IInv, ServerInv, MigratedInv, TypeOK, poolVars
<1>7. CASE StartListen
  <2>1. dp = "listen" /\ life = "serve" /\ held = None /\ me \in Name \cup {None}
    BY <1>7, ServeHoldsNothing DEF StartListen, IInv, TypeOK
  <2>2. me \in Name
    BY <2>1 DEF IInv, ServerInv
  <2>3. CASE Exit /\ faults' = faults
    BY <1>7, <2>1, <2>2, <2>3, ExitKeeps DEF StartListen, Exit, IInv, TypeOK
  <2>4. CASE Exit /\ Fault("listen")
    <3>1. faults' \in 0..MaxFaults /\ losses' \in 0..faults'
      BY <2>1, <2>4 DEF Fault, Exit, IInv, TypeOK
    <3> QED BY <1>7, <2>2, <2>4, <3>1, ExitKeeps DEF StartListen, IInv, TypeOK
  <2>5. CASE ~Exit
    BY <1>7, <2>1, <2>2, <2>5 DEF StartListen, IInv, ServerInv, MigratedInv, TypeOK
  <2> QED BY <1>7, <2>3, <2>4, <2>5 DEF StartListen
<1>8. CASE Register
  BY <1>8 DEF Register, IInv, ServerInv, MigratedInv, TypeOK, poolVars
<1>9. CASE RegisterFails
  <2>1. held = None
    BY <1>9, ServeHoldsNothing DEF RegisterFails, IInv
  <2>2. socks' \in SUBSET Name /\ faults' \in 0..MaxFaults /\ losses \in 0..faults'
    BY <1>9, CleanupType DEF RegisterFails, Stop, IInv, TypeOK
  <2>3. losses' = losses
    BY <1>9, <2>1 DEF RegisterFails, Exit
  <2>4. new' = new /\ Exit /\ UNCHANGED <<old, me, kubelet, restarts>>
    BY <1>9 DEF RegisterFails
  <2> QED BY <2>2, <2>3, <2>4, ExitKeeps
<1>10. CASE watchKubeletRestart
  <2>1. socks' \in SUBSET Name /\ faults' \in 0..MaxFaults /\ losses \in 0..faults'
    BY <1>10, CleanupType DEF watchKubeletRestart, Stop, IInv
  <2> QED BY <1>10, <2>1 DEF watchKubeletRestart, Stop, IInv, ServerInv, MigratedInv, TypeOK, poolVars
<1>11. CASE KubeletStop
  BY <1>11 DEF KubeletStop, IInv, ServerInv, MigratedInv, TypeOK, poolVars
<1>12. CASE KubeletStart
  BY <1>12 DEF KubeletStart, IInv, ServerInv, MigratedInv, TypeOK, poolVars, plugVars
<1>13. CASE UNCHANGED vars
  BY <1>13 DEF vars, IInv, ServerInv, MigratedInv, TypeOK, poolVars, plugVars
<1> QED BY <1>1, <1>2, <1>3, <1>4, <1>5, <1>6, <1>7, <1>8, <1>9, <1>10, <1>11, <1>12, <1>13
        DEF Next, Main, Plugin

----------------------------------------------------------------------------
(* The migration of the v1 pool.                                           *)

Missing == Addr \ (old \cup new \cup {held})

Migration ==
  /\ old \cap new = {} /\ held \notin old \cup new
  /\ Cardinality(Missing) <= losses

LEMMA MissingFinite == IsFiniteSet(Missing) /\ Cardinality(Missing) \in Nat
BY LifeAssumption, FS_Subset, FS_CardinalityType DEF Missing

(* Every step but the end of a process leaves the set of missing addresses *)
(* alone.                                                                  *)
LEMMA MissingSame ==
  ASSUME Migration, Missing' = Missing, losses' = losses,
         old' \cap new' = {}, held' \notin old' \cup new'
  PROVE  Migration'
BY DEF Migration

(* The end of a process adds the address it holds, and counts it.          *)
LEMMA ExitLoses ==
  ASSUME TypeOK, Migration, Exit, UNCHANGED <<old, new>>
  PROVE  Migration'
<1>1. None \notin old \cup new
  BY LifeAssumption DEF TypeOK
<1>2. CASE held = None
  <2>1. Missing' = Missing /\ losses' = losses /\ held' = None
    BY <1>2 DEF Missing, Exit
  <2> QED BY <1>1, <2>1 DEF Migration
<1>3. CASE held # None
  <2>1. Missing' = Missing \cup {held} /\ held \notin Missing
    BY <1>3, LifeAssumption DEF Missing, Exit, TypeOK, Migration
  <2>2. Cardinality(Missing') = Cardinality(Missing) + 1
    BY <2>1, MissingFinite, FS_AddElement
  <2>3. losses' = losses + 1 /\ held' = None /\ losses \in Nat
    BY <1>3, LifeAssumption DEF Exit, TypeOK
  <2> QED BY <1>1, <2>2, <2>3, MissingFinite DEF Migration
<1> QED BY <1>2, <1>3

LEMMA MigrationStep == IInv /\ Migration /\ [Next]_vars => Migration'
<1> SUFFICES ASSUME IInv, Migration, [Next]_vars PROVE Migration'
  OBVIOUS
<1> USE LifeAssumption
<1>1. CASE migratePop
  <2>1. CASE UNCHANGED <<old, held>>
    BY <1>1, <2>1 DEF migratePop, Migration, Missing
  <2>2. ASSUME NEW a \in old, old' = old \ {a}, held' = a, new' = new, losses' = losses, held = None
        PROVE  Migration'
    <3>1. None \notin Addr /\ old \subseteq Addr
      BY DEF IInv, TypeOK
    <3>2. Missing' = Missing
      BY <2>2, <3>1 DEF Missing
    <3> QED BY <2>2, <3>2, MissingSame DEF Migration
  <2>3. held = None
    BY <1>1 DEF migratePop, IInv, TypeOK
  <2> QED BY <1>1, <2>1, <2>2, <2>3 DEF migratePop
<1>2. CASE migratePut
  <2>1. CASE Exit /\ UNCHANGED new
    BY <1>2, <2>1, ExitLoses DEF migratePut, IInv
  <2>2. CASE new' = new \cup {held} /\ held' = None /\ UNCHANGED <<old, losses>>
    <3>1. None \notin Addr /\ old \subseteq Addr /\ new \subseteq Addr /\ held \in Addr
      BY <1>2 DEF migratePut, IInv, TypeOK
    <3>2. Missing' = Missing
      BY <2>2, <3>1 DEF Missing
    <3> QED BY <2>2, <3>1, <3>2, MissingSame DEF Migration
  <2> QED BY <1>2, <2>1, <2>2 DEF migratePut
<1>3. CASE Crash
  BY <1>3, ExitLoses DEF Crash, IInv
<1>4. CASE StartListen
  <2>1. CASE Exit
    BY <1>4, <2>1, ExitLoses DEF StartListen, IInv
  <2>2. CASE ~Exit
    BY <1>4, <2>2 DEF StartListen, Migration, Missing
  <2> QED BY <2>1, <2>2
<1>5. CASE RegisterFails
  BY <1>5, ExitLoses DEF RegisterFails, IInv
<1>6. CASE Launch \/ startDevicePlugin \/ StartClean \/ Register \/ watchKubeletRestart
           \/ KubeletStop \/ KubeletStart \/ UNCHANGED vars
  <2>1. UNCHANGED <<old, new, held, losses>>
    BY <1>6 DEF Launch, startDevicePlugin, StartClean, Register, watchKubeletRestart,
                KubeletStop, KubeletStart, vars, poolVars
  <2> QED BY <2>1 DEF Migration, Missing
<1> QED BY <1>1, <1>2, <1>3, <1>4, <1>5, <1>6 DEF Next, Main, Plugin

----------------------------------------------------------------------------
(* The registration.                                                       *)

(* In state watch the socket directory only loses files, so a socket that  *)
(* is still there was there when the plugin registered; and a kubelet that *)
(* has come back has emptied the directory before.                         *)
LEMMA WatchStep == IInv /\ WatchSuffices /\ [Next]_vars => WatchSuffices'
<1> SUFFICES ASSUME IInv, WatchSuffices, [Next]_vars, dp' = "watch", me' \in socks'
             PROVE  endpoint' = me' \/ kubelet' = "down"
  BY DEF WatchSuffices
<1>1. CASE Register
  BY <1>1 DEF Register
<1>2. CASE KubeletStop \/ KubeletStart
  BY <1>2 DEF KubeletStop, KubeletStart, WatchSuffices, plugVars
<1>3. CASE Exit \/ StartClean \/ watchKubeletRestart \/ startDevicePlugin
  BY <1>3 DEF Exit, StartClean, watchKubeletRestart, startDevicePlugin
<1>4. CASE StartListen
  BY <1>3, <1>4 DEF StartListen
<1>5. CASE migratePut \/ Crash \/ RegisterFails \/ Launch \/ migratePop
  <2>1. dp' = "off" \/ (UNCHANGED dp /\ life # "serve")
    BY <1>5 DEF migratePut, Crash, RegisterFails, Launch, migratePop, Exit
  <2> QED BY <2>1 DEF IInv, TypeOK
<1>6. CASE UNCHANGED vars
  BY <1>6 DEF vars, plugVars, WatchSuffices
<1> QED BY <1>1, <1>2, <1>3, <1>4, <1>5, <1>6 DEF Next, Main, Plugin

----------------------------------------------------------------------------
LEMMA InitHolds == Init => IInv /\ Migration /\ WatchSuffices
<1> SUFFICES ASSUME Init PROVE IInv /\ Migration /\ WatchSuffices
  OBVIOUS
<1>1. IInv /\ WatchSuffices
  BY LifeAssumption DEF Init, IInv, TypeOK, ServerInv, MigratedInv, WatchSuffices
<1>2. Missing = {}
  BY DEF Init, Missing
<1>3. Migration
  BY <1>2, FS_EmptySet, LifeAssumption DEF Init, Migration
<1> QED BY <1>1, <1>3

(* The types, for every number of faults and restarts: a process has a     *)
(* server and a stream of kubelet only under its own socket name, holds an *)
(* address only between a pop and its put (svc.go), and runs the plugin    *)
(* only while it serves.                                                   *)
THEOREM LifeTypes == Spec => []TypeOK
<1>1. IInv => TypeOK
  BY DEF IInv
<1> QED BY <1>1, InitHolds, IInvStep, PTL DEF Spec

(* While the device plugin sees its own socket file, kubelet has it, or no *)
(* kubelet runs: the file's disappearance is enough of a signal for        *)
(* watchKubeletRestart to register anew.                                   *)
THEOREM WatchIsEnough == Spec => []WatchSuffices
BY InitHolds, IInvStep, WatchStep, PTL DEF Spec

(* ipamd serves pods only after the whole v1 pool has moved to the new     *)
(* one; no address is in both, and every address that is in neither was in *)
(* the hands of a process that ended between its pop and its put.          *)
THEOREM MigrationIsComplete == Spec => []ServesMigrated
<1>1. IInv /\ Migration => ServesMigrated
  BY DEF IInv, MigratedInv, Migration, Missing, ServesMigrated
<1> QED BY <1>1, InitHolds, IInvStep, MigrationStep, PTL DEF Spec
=============================================================================
