------------------------------- MODULE Migrate -------------------------------
(***************************************************************************)
(* `gnpc migrate` on a Linux machine: the minute tick is wired, the legacy *)
(* services give up the proxy's port, the new service is loaded and        *)
(* verified, and then the legacy ones are removed, or installed again.     *)
(* Meanwhile the tick's guard runs, services start, and the machine may be *)
(* rebooted or the migration killed.  Before the port changes hands, the   *)
(* migration only writes files of its own (steps 1 to 3), which are left   *)
(* out; config.json exists from then on.                                   *)
(***************************************************************************)
EXTENDS Naturals

CONSTANTS
    MaxRuns,     \* bound: migrations started
    MaxReboots,  \* bound: reboots of the machine
    MaxStops     \* bound: times the new service is stopped or dies

ASSUME MigrateAssumption == {MaxRuns, MaxReboots, MaxStops} \subseteq Nat

System == "gnp-proxy"   \* stands for LEGACY_SYSTEMD
User == "sing-box"      \* LEGACY_SYSTEMD_USER
New == "gnpc"           \* SYSTEMD_CLIENT
Legacy == {System, User}
Services == Legacy \cup {New}
NoService == "none"

VARIABLES
    pc,        \* where `gnpc migrate` stands
    stopped,   \* its list of stopped services is not empty
    tick,      \* the crontab has the tick line
    unit,      \* the unit files: absent, installed, or renamed to .disabled
    enabled,   \* what starts at boot
    wanted,    \* what systemd runs, or runs again after a failure
    holder,    \* who listens on port 1080
    dir,       \* the legacy directory is in its place
    verified,  \* history: a migration has verified the new service
    machine,   \* who runs gnpc there, what works; never changes
    budget     \* what is left of the bounds

vars == <<pc, stopped, tick, unit, enabled, wanted, holder, dir, verified, machine, budget>>
svc == <<unit, enabled, wanted, holder>>

PCs == {"idle", "stop", "stopUser", "load", "verify", "port", "exit",
        "rollback", "rollbackNew", "purge", "archive", "done", "aborted"}
Over == {"idle", "done", "aborted"}

\* The migration runs as root, as a user with sudo that asks for no
\* password, or as one without; the tick runs as the user.
Machines == {m \in [priv : {"root", "sudo", "none"}, tickPriv : BOOLEAN,
                    works : BOOLEAN, legacy : Legacy] :
                /\ m.priv = "sudo" => m.tickPriv
                /\ m.priv = "none" => ~m.tickPriv}
Privileged == machine.priv # "none"

Init ==
    /\ pc = "idle" /\ stopped = FALSE /\ tick = FALSE
    /\ machine \in Machines
    /\ unit = [s \in Services |-> IF s = machine.legacy THEN "installed" ELSE "absent"]
    /\ enabled = {machine.legacy} /\ wanted = {machine.legacy}
    /\ holder = machine.legacy
    /\ dir = TRUE /\ verified = FALSE
    /\ budget = [runs |-> MaxRuns, reboots |-> MaxReboots, stops |-> MaxStops]
-----------------------------------------------------------------------------
(***************************************************************************)
(* systemd.  A service of Type=simple is active for a moment even when the *)
(* port is taken and it fails at once, so is-active may say either then.   *)
(***************************************************************************)
Runs(s) == unit[s] = "installed" /\ (IF s = New THEN machine.works ELSE dir)
Active(s) == {a \in BOOLEAN : IF holder = s THEN a ELSE a => s \in wanted}
Without(S) == IF holder \in S THEN NoService ELSE holder

Binds(s) ==
    /\ s \in wanted /\ Runs(s)
    /\ holder = NoService
    /\ holder' = s
    /\ UNCHANGED <<pc, stopped, tick, unit, enabled, wanted, dir, verified, machine, budget>>

\* Mutant: a service that is stopped keeps the port.
StopWithoutPort(S) == wanted' = wanted \ S /\ holder' = holder

Stop(S) == wanted' = wanted \ S /\ holder' = Without(S)

\* service::install_linux and start_named, for the new service.
StartNew ==
    /\ unit' = [unit EXCEPT ![New] = "installed"]
    /\ enabled' = IF unit[New] = "absent" THEN enabled \cup {New} ELSE enabled
    /\ wanted' = wanted \cup {New}
    /\ UNCHANGED holder

\* The watchdog's tick when the new service does not run: it installs the unit
\* if there is none, and starts it.  For one that fails to start over and over
\* that changes nothing.
GuardTick ==
    /\ tick /\ machine.tickPriv
    /\ New \notin wanted
    /\ StartNew
    /\ UNCHANGED <<pc, stopped, tick, dir, verified, machine, budget>>

\* `gnpc stop`, or an exit that Restart=on-failure takes for a clean one.
NewServiceStops ==
    /\ budget.stops > 0 /\ New \in wanted
    /\ Stop({New})
    /\ budget' = [budget EXCEPT !.stops = @ - 1]
    /\ UNCHANGED <<pc, stopped, tick, unit, enabled, dir, verified, machine>>

Reboot ==
    /\ budget.reboots > 0
    /\ wanted' = {s \in enabled : unit[s] = "installed"}
    /\ holder' = NoService
    /\ pc' = IF pc \in Over THEN pc ELSE "idle"
    /\ budget' = [budget EXCEPT !.reboots = @ - 1]
    /\ UNCHANGED <<stopped, tick, unit, enabled, dir, verified, machine>>
-----------------------------------------------------------------------------
\* Mutant: the tick is wired only when the new service is loaded.
PrepareNoTick ==
    /\ pc \in Over /\ budget.runs > 0
    /\ budget' = [budget EXCEPT !.runs = @ - 1]
    /\ stopped' = FALSE
    /\ pc' = "stop"
    /\ UNCHANGED <<tick, svc, dir, verified, machine>>

\* install_with(false): the crontab gets its line before anything stops.
Prepare ==
    /\ pc \in Over /\ budget.runs > 0
    /\ budget' = [budget EXCEPT !.runs = @ - 1]
    /\ tick' = TRUE
    /\ stopped' = FALSE
    /\ pc' = "stop"
    /\ UNCHANGED <<svc, dir, verified, machine>>

\* A legacy service that is not active is not stopped.
StopSystem ==
    /\ pc = "stop"
    /\ \E active \in Active(System) :
          /\ stopped' = active
          /\ IF active /\ Privileged THEN Stop({System}) ELSE UNCHANGED <<wanted, holder>>
    /\ pc' = "stopUser"
    /\ UNCHANGED <<tick, unit, enabled, dir, verified, machine, budget>>

\* The user's service is disabled, by root as that user or by the user; then
\* every sing-box the caller may signal is killed, and systemd takes that for
\* a clean exit.
StopUser ==
    /\ pc = "stopUser"
    /\ LET user == IF unit[User] = "installed" THEN {User} ELSE {}
           any == stopped \/ user # {}
           killed == IF any /\ machine.priv = "root" THEN {holder} ELSE {}
       IN  /\ enabled' = enabled \ user
           /\ stopped' = any
           /\ Stop(user \cup killed)
    /\ pc' = "load"
    /\ UNCHANGED <<tick, unit, dir, verified, machine, budget>>

\* Mutant: loading removes what is legacy at once, as install does.
LoadAndPurge ==
    /\ pc = "load" /\ Privileged
    /\ tick' = TRUE
    /\ unit' = [unit EXCEPT ![New] = "installed", ![System] = "renamed"]
    /\ enabled' = (enabled \cup {New}) \ {System}
    /\ wanted' = wanted \cup {New}
    /\ pc' = "verify"
    /\ UNCHANGED <<stopped, holder, dir, verified, machine, budget>>

\* load_now.  Without the privilege the unit is not written, which is printed
\* and left to the verification; only the crontab can fail it.
Load ==
    /\ pc = "load"
    /\ \/ /\ tick' = TRUE
          /\ pc' = "verify"
          /\ IF Privileged
             THEN /\ unit' = [unit EXCEPT ![New] = "installed"]
                  /\ enabled' = enabled \cup {New}
                  /\ wanted' = wanted \cup {New}
             ELSE UNCHANGED <<unit, enabled, wanted>>
       \/ /\ pc' = "rollback"
          /\ UNCHANGED <<tick, unit, enabled, wanted>>
    /\ UNCHANGED <<stopped, holder, dir, verified, machine, budget>>

(***************************************************************************)
(* verify_new_service: the service is active at one of the polls, someone  *)
(* listens on the port, and the exit is found through whoever listens.     *)
(***************************************************************************)
VerifyService ==
    /\ pc = "verify"
    /\ \E active \in Active(New) : pc' = IF active THEN "port" ELSE "rollback"
    /\ UNCHANGED <<stopped, tick, svc, dir, verified, machine, budget>>

VerifyPort ==
    /\ pc = "port"
    /\ pc' = IF holder # NoService THEN "exit" ELSE "rollback"
    /\ UNCHANGED <<stopped, tick, svc, dir, verified, machine, budget>>

VerifyExit ==
    /\ pc = "exit"
    /\ \/ holder # NoService /\ verified' = TRUE /\ pc' = "purge"
       \/ pc' = "rollback" /\ UNCHANGED verified
    /\ UNCHANGED <<stopped, tick, svc, dir, machine, budget>>

\* rollback_legacy: the system's units are put back, enabled and started; the
\* new service is stopped, and neither disabled nor taken from the tick.
Rollback ==
    /\ pc = "rollback"
    /\ IF Privileged /\ unit[System] # "absent"
       THEN /\ unit' = [unit EXCEPT ![System] = "installed"]
            /\ enabled' = enabled \cup {System}
            /\ wanted' = wanted \cup {System}
       ELSE UNCHANGED <<unit, enabled, wanted>>
    /\ pc' = "rollbackNew"
    /\ UNCHANGED <<stopped, tick, holder, dir, verified, machine, budget>>

RollbackNew ==
    /\ pc = "rollbackNew"
    /\ IF Privileged THEN Stop({New}) ELSE UNCHANGED <<wanted, holder>>
    /\ pc' = "aborted"
    /\ UNCHANGED <<stopped, tick, unit, enabled, dir, verified, machine, budget>>

\* Mutant: the unit is renamed, its service keeps running.
PurgeFilesOnly ==
    /\ pc = "purge"
    /\ unit' = [unit EXCEPT ![System] = IF @ = "installed" THEN "renamed" ELSE @]
    /\ pc' = "archive"
    /\ UNCHANGED <<stopped, tick, enabled, wanted, holder, dir, verified, machine, budget>>

\* purge_legacy: `systemctl disable --now`, here without sudo, so that only
\* root succeeds; the crontab keeps the tick's line.
Purge ==
    /\ pc = "purge"
    /\ LET system == IF machine.priv = "root" /\ unit[System] = "installed" THEN {System} ELSE {}
           user == IF unit[User] = "installed" THEN {User} ELSE {}
       IN  /\ enabled' = enabled \ (system \cup user)
           /\ Stop(system \cup user)
           /\ unit' = [s \in Services |-> IF s \in system THEN "renamed" ELSE unit[s]]
    /\ pc' = "archive"
    /\ UNCHANGED <<stopped, tick, dir, verified, machine, budget>>

\* The directory is renamed, or copied when that fails.
Archive ==
    /\ pc = "archive"
    /\ dir' \in {dir, FALSE}
    /\ pc' = "done"
    /\ UNCHANGED <<stopped, tick, svc, verified, machine, budget>>

Killed ==
    /\ pc \notin Over
    /\ pc' = "idle"
    /\ UNCHANGED <<stopped, tick, svc, dir, verified, machine, budget>>
-----------------------------------------------------------------------------
Migration ==
    \/ Prepare \/ StopSystem \/ StopUser \/ Load
    \/ VerifyService \/ VerifyPort \/ VerifyExit
    \/ Rollback \/ RollbackNew \/ Purge \/ Archive

Next ==
    \/ Migration \/ Killed
    \/ GuardTick
    \/ \E s \in Services : Binds(s)
    \/ NewServiceStops \/ Reboot

\* Cron calls the tick every minute and systemd restarts what failed; the
\* migration itself may stop anywhere.
Fairness ==
    /\ WF_vars(GuardTick)
    /\ \A s \in Services : WF_vars(Binds(s))

Spec == Init /\ [][Next]_vars /\ Fairness
-----------------------------------------------------------------------------
TypeOK ==
    /\ pc \in PCs /\ stopped \in BOOLEAN /\ tick \in BOOLEAN
    /\ unit \in [Services -> {"absent", "installed", "renamed"}]
    /\ enabled \subseteq Services /\ wanted \subseteq Services
    /\ holder \in Services \cup {NoService}
    /\ dir \in BOOLEAN /\ verified \in BOOLEAN
    /\ machine \in Machines
    /\ \A s \in Services : s = holder => s \in wanted

(***************************************************************************)
(* The way back stays open: until a migration has verified the new         *)
(* service, the legacy unit and its directory are where they were, however *)
(* often a migration was killed, rolled back or started again.             *)
(***************************************************************************)
WayBack == verified \/ (dir /\ unit[machine.legacy] = "installed")

(***************************************************************************)
(* A migration that dies anywhere, is rolled back or succeeds does not     *)
(* leave the port unserved for good, where the tick may start services and *)
(* the new one can run: the tick is wired before the old one stops and     *)
(* stays wired.                                                            *)
(***************************************************************************)
ServedAgain ==
    (machine.tickPriv /\ machine.works /\ holder = NoService) ~> holder # NoService

(***************************************************************************)
(* Once a migration by root has ended well, the new service gets the port, *)
(* and gets it again after a reboot or a stop, where the tick may start    *)
(* it: no legacy service is left that keeps the port from it.              *)
(***************************************************************************)
NewServiceWins ==
    (pc = "done" /\ machine.priv = "root" /\ machine.tickPriv /\ machine.works)
        ~> (holder = New \/ pc # "done")

(***************************************************************************)
(* What an aborted migration reports: the old service is installed as it   *)
(* was (bail! in run, and the comments on stopping the legacy services).   *)
(* The user's service is not among those rollback_legacy puts back.        *)
(***************************************************************************)
RollbackRestores ==
    (pc = "aborted" /\ ~verified /\ Privileged) =>
        machine.legacy \in wanted
=============================================================================
