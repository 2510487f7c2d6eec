---------------------------- MODULE Migrate_proofs ----------------------------
(***************************************************************************)
(* Proofs about Migrate, for any number of migrations, reboots and stops.  *)
(***************************************************************************)
EXTENDS Migrate, TLAPS

BudgetOK == budget \in [runs : Nat, reboots : Nat, stops : Nat]

\* Only a verified migration goes on to remove what is legacy.
VerifiedFirst == pc \in {"purge", "archive"} => verified

Inv == TypeOK /\ BudgetOK /\ VerifiedFirst /\ WayBack

-----------------------------------------------------------------------------
LEMMA InitInv == Init => Inv
<1> SUFFICES ASSUME Init PROVE Inv
  OBVIOUS
<1>1. machine.legacy \in Legacy
  BY DEF Init, Machines
<1>2. TypeOK
  BY <1>1 DEF Init, TypeOK, PCs, Services, Legacy, NoService, System, User, New
<1>3. BudgetOK
  BY MigrateAssumption DEF Init, BudgetOK
<1>4. unit[machine.legacy] = "installed"
  BY <1>1 DEF Init, Services
<1>5. QED
  BY <1>2, <1>3, <1>4 DEF Init, Inv, VerifiedFirst, WayBack

-----------------------------------------------------------------------------
(* What the shared operators do to the services. *)

LEMMA StopType ==
    ASSUME TypeOK, NEW S, Stop(S)
    PROVE  /\ wanted' \subseteq Services
           /\ holder' \in Services \cup {NoService}
           /\ \A s \in Services : s = holder' => s \in wanted'
BY DEF TypeOK, Stop, Without, NoService, Services, Legacy, System, User, New

LEMMA StartNewType ==
    ASSUME TypeOK, StartNew
    PROVE  /\ unit' \in [Services -> {"absent", "installed", "renamed"}]
           /\ enabled' \subseteq Services /\ wanted' \subseteq Services
           /\ \A s \in Services : s = holder' => s \in wanted'
           /\ \A s \in Legacy : unit'[s] = unit[s]
BY DEF TypeOK, StartNew, Services, Legacy, System, User, New

LEMMA LegacyIsService ==
    ASSUME TypeOK PROVE machine.legacy \in Legacy
BY DEF TypeOK, Machines

-----------------------------------------------------------------------------
(* The rest of the machine. *)

LEMMA MachineStep ==
    ASSUME Inv, GuardTick \/ (\E s \in Services : Binds(s)) \/ NewServiceStops \/ Reboot
    PROVE  Inv'
<1> USE DEF Inv, TypeOK, BudgetOK, VerifiedFirst, WayBack
<1>1. CASE GuardTick
  <2>1. StartNew /\ UNCHANGED <<pc, stopped, tick, dir, verified, machine, budget>>
    BY <1>1 DEF GuardTick
  <2>2. TypeOK'
    BY <2>1, StartNewType DEF StartNew
  <2>3. WayBack'
    BY <2>1, StartNewType, LegacyIsService
  <2>4. QED
    BY <2>1, <2>2, <2>3
<1>2. CASE \E s \in Services : Binds(s)
  BY <1>2 DEF Binds, Services, Legacy, System, User, New, NoService
<1>3. CASE NewServiceStops
  BY <1>3, StopType DEF NewServiceStops
<1>4. CASE Reboot
  BY <1>4 DEF Reboot, PCs, Over, Services, Legacy, System, User, New, NoService
<1>5. QED
  BY <1>1, <1>2, <1>3, <1>4

-----------------------------------------------------------------------------
(* The migration. *)

LEMMA BeforeVerified ==
    ASSUME Inv, Prepare \/ StopSystem \/ StopUser \/ Load
    PROVE  Inv'
<1> USE DEF Inv, TypeOK, BudgetOK, VerifiedFirst, WayBack, PCs
<1>1. CASE Prepare
  <2>1. budget' \in [runs : Nat, reboots : Nat, stops : Nat]
    BY <1>1 DEF Prepare
  <2>2. QED
    BY <1>1, <2>1 DEF Prepare, svc
<1>2. CASE StopSystem
  <2>1. PICK active \in Active(System) :
            /\ stopped' = active
            /\ IF active /\ Privileged THEN Stop({System}) ELSE UNCHANGED <<wanted, holder>>
    BY <1>2 DEF StopSystem
  <2>2. stopped' \in BOOLEAN
    BY <2>1 DEF Active
  <2>3. /\ wanted' \subseteq Services
        /\ holder' \in Services \cup {NoService}
        /\ \A s \in Services : s = holder' => s \in wanted'
    BY <2>1, StopType
  <2>4. QED
    BY <1>2, <2>2, <2>3 DEF StopSystem
<1>3. CASE StopUser
  <2> DEFINE user == IF unit[User] = "installed" THEN {User} ELSE {}
             any == stopped \/ user # {}
             killed == IF any /\ machine.priv = "root" THEN {holder} ELSE {}
  <2>1. /\ enabled' = enabled \ user
        /\ stopped' = any
        /\ Stop(user \cup killed)
    BY <1>3 DEF StopUser
  <2> HIDE DEF user, killed
  <2>2. /\ wanted' \subseteq Services
        /\ holder' \in Services \cup {NoService}
        /\ \A s \in Services : s = holder' => s \in wanted'
    BY <2>1, StopType
  <2>3. enabled' \subseteq Services /\ stopped' \in BOOLEAN
    BY <2>1
  <2>4. UNCHANGED <<tick, unit, dir, verified, machine, budget>> /\ pc' = "load"
    BY <1>3 DEF StopUser
  <2>5. QED
    BY <2>2, <2>3, <2>4
<1>4. CASE Load
  <2>1. unit' \in [Services -> {"absent", "installed", "renamed"}]
    <3>1. unit' = unit \/ unit' = [unit EXCEPT ![New] = "installed"]
      BY <1>4 DEF Load
    <3>2. QED
      BY <3>1
  <2>2. unit'[machine.legacy] = unit[machine.legacy]
    <3>1. unit' = unit \/ unit' = [unit EXCEPT ![New] = "installed"]
      BY <1>4 DEF Load
    <3>2. machine.legacy # New /\ machine.legacy \in Services
      BY LegacyIsService DEF Services, Legacy, System, User, New
    <3>3. QED
      BY <3>1, <3>2
  <2>3. enabled' \subseteq Services /\ wanted' \subseteq Services /\ wanted \subseteq wanted'
    BY <1>4 DEF Load, Services
  <2>4. QED
    BY <1>4, <2>1, <2>2, <2>3 DEF Load
<1>5. QED
  BY <1>1, <1>2, <1>3, <1>4

LEMMA VerifyStep ==
    ASSUME Inv, VerifyService \/ VerifyPort \/ VerifyExit \/ Killed
    PROVE  Inv'
<1> USE DEF Inv, TypeOK, BudgetOK, VerifiedFirst, WayBack, PCs, svc
<1>1. CASE VerifyService
  BY <1>1 DEF VerifyService
<1>2. CASE VerifyPort
  BY <1>2 DEF VerifyPort
<1>3. CASE VerifyExit
  BY <1>3 DEF VerifyExit
<1>4. CASE Killed
  BY <1>4 DEF Killed
<1>5. QED
  BY <1>1, <1>2, <1>3, <1>4

LEMMA RollbackStep ==
    ASSUME Inv, Rollback \/ RollbackNew
    PROVE  Inv'
<1> USE DEF Inv, TypeOK, BudgetOK, VerifiedFirst, WayBack, PCs
<1>1. CASE Rollback
  <2>1. /\ unit' \in [Services -> {"absent", "installed", "renamed"}]
        /\ unit[machine.legacy] = "installed" => unit'[machine.legacy] = "installed"
    BY <1>1, LegacyIsService DEF Rollback, Services, Legacy
  <2>2. enabled' \subseteq Services /\ wanted' \subseteq Services /\ wanted \subseteq wanted'
    BY <1>1 DEF Rollback, Services, Legacy
  <2>3. QED
    BY <1>1, <2>1, <2>2 DEF Rollback
<1>2. CASE RollbackNew
  BY <1>2, StopType DEF RollbackNew
<1>3. QED
  BY <1>1, <1>2

LEMMA RemoveStep ==
    ASSUME Inv, Purge \/ Archive
    PROVE  Inv'
<1> USE DEF Inv, TypeOK, BudgetOK, VerifiedFirst, WayBack, PCs
<1>1. CASE Purge
  <2>1. PICK system, user :
            /\ enabled' = enabled \ (system \cup user)
            /\ Stop(system \cup user)
            /\ unit' = [s \in Services |-> IF s \in system THEN "renamed" ELSE unit[s]]
    BY <1>1 DEF Purge
  <2>2. unit' \in [Services -> {"absent", "installed", "renamed"}]
    BY <2>1
  <2>3. QED
    BY <1>1, <2>1, <2>2, StopType DEF Purge
<1>2. CASE Archive
  BY <1>2 DEF Archive, svc
<1>3. QED
  BY <1>1, <1>2

LEMMA NextInv == Inv /\ [Next]_vars => Inv'
<1> SUFFICES ASSUME Inv, [Next]_vars PROVE Inv'
  OBVIOUS
<1>1. CASE Migration
  BY <1>1, BeforeVerified, VerifyStep, RollbackStep, RemoveStep DEF Migration
<1>2. CASE Killed
  BY <1>2, VerifyStep
<1>3. CASE GuardTick \/ (\E s \in Services : Binds(s)) \/ NewServiceStops \/ Reboot
  BY <1>3, MachineStep
<1>4. CASE UNCHANGED vars
  BY <1>4 DEF vars, Inv, TypeOK, BudgetOK, VerifiedFirst, WayBack
<1>5. QED
  BY <1>1, <1>2, <1>3, <1>4 DEF Next

LEMMA Invariance == Spec => []Inv
<1>1. QED
  BY InitInv, NextInv, PTL DEF Spec

-----------------------------------------------------------------------------
(***************************************************************************)
(* The state is well typed, and only a service that is wanted has the      *)
(* port.                                                                   *)
(***************************************************************************)
THEOREM TypeCorrect == Spec => []TypeOK
<1>1. Inv => TypeOK
  BY DEF Inv
<1>2. QED
  BY <1>1, Invariance, PTL

(***************************************************************************)
(* The way back stays open until the new service has been verified.        *)
(***************************************************************************)
THEOREM WayBackStaysOpen == Spec => []WayBack
<1>1. Inv => WayBack
  BY DEF Inv
<1>2. QED
  BY <1>1, Invariance, PTL
=============================================================================
