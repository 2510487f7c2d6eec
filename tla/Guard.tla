--------------------------------- MODULE Guard ---------------------------------
(***************************************************************************)
(* gnpc guard, the channel watchdog.  tick.sh runs one tick per minute and *)
(* nothing keeps two ticks, or a tick and a manual command, from running   *)
(* at the same time.  A tick reads guard-state.json, probes hy2, moves the *)
(* selector when it has to, and writes guard-state.json at the very end.   *)
(***************************************************************************)
EXTENDS Switch

CONSTANTS
    FreezeAfter,   \* [guard] freeze_after_failures
    Serial         \* TRUE: nobody starts a command while another one runs

ASSUME GuardAssumption ==
    /\ FreezeAfter \in Nat \ {0}
    /\ Serial \in BOOLEAN

VARIABLES
    file,     \* guard-state.json
    st,       \* the GuardState each tick holds in memory
    view,     \* what /proxies told each tick: <<selector, urltest>>
    streak    \* history: failed probes since the last successful one

guardVars == <<file, st, view, streak>>
vars == <<boxVars, switchVars, guardVars>>

\* wait: next_probe_ms lies in the future.
GuardStates == [failures : 0..FreezeAfter, frozen : BOOLEAN, wait : BOOLEAN]

\* GuardState::default, also what an absent or unreadable file stands for.
Default == [failures |-> 0, frozen |-> FALSE, wait |-> FALSE]

\* Mutant: the count is not capped.
BumpForever(n) == n + 1

\* Counting beyond FreezeAfter makes no difference: the code only asks for >=.
Bump(n) == IF n < FreezeAfter THEN n + 1 ELSE n

NoView == <<AutoOut, Hy2Out>>

GuardPCs == {"alive", "probe", "heal", "decide", "restart", "start", "save"}

AllIdle == \A p \in Procs : pc[p] = "idle"

\* A tick or a command starts.
MayStart(p) ==
    /\ pc[p] = "idle"
    /\ Serial => AllIdle

-----------------------------------------------------------------------------
(***************************************************************************)
(* The tick reads its state.  A read that falls into another tick's        *)
(* save_state sees a truncated file, which counts as no file.              *)
(***************************************************************************)
TickBegin(t) ==
    /\ MayStart(t)
    /\ \/ st' = [st EXCEPT ![t] = file]
       \/ /\ \E q \in Ticks \ {t} : pc[q] = "save"
          /\ st' = [st EXCEPT ![t] = Default]
    /\ Goto(t, "alive")
    /\ UNCHANGED <<boxVars, pin, history, file, view, streak>>

\* Mutant: the tick leaves a dead sing-box to the service manager.
TickAliveNoStart(t) ==
    /\ pc[t] = "alive"
    /\ Goto(t, IF Readable(cfg) /\ ~st[t].wait THEN "probe" ELSE "idle")
    /\ UNCHANGED <<boxVars, pin, history, guardVars>>

(***************************************************************************)
(* controller_addr, is_running and the backoff.  A config without address  *)
(* ends the tick without a save; a dead sing-box is started first.         *)
(***************************************************************************)
TickAlive(t) ==
    /\ pc[t] = "alive"
    /\ \/ /\ svc # "active"
          /\ StartOk \/ StartErr
          /\ Goto(t, IF Readable(cfg) THEN "save" ELSE "idle")
       \/ /\ svc = "active"
          /\ Goto(t, IF Readable(cfg) /\ ~st[t].wait THEN "probe" ELSE "idle")
          /\ NoFault
          /\ UNCHANGED <<svc, hot, urltest>>
    /\ UNCHANGED <<cfg, hy2Up, pin, history, guardVars>>

\* Mutant: only the frozen mark is cleared.
HealthyKeepsCount(s) == [s EXCEPT !.frozen = FALSE, !.wait = FALSE]

\* Mutant: the count is compared before it is incremented.
FailedLate(s) == [failures |-> Bump(s.failures),
                  frozen |-> (s.frozen \/ s.failures >= FreezeAfter),
                  wait |-> TRUE]

Healthy(s) == [failures |-> 0, frozen |-> FALSE, wait |-> FALSE]

Failed(s) == [failures |-> Bump(s.failures),
              frozen |-> (s.frozen \/ Bump(s.failures) >= FreezeAfter),
              wait |-> TRUE]

\* The probe of hy2-out succeeded: unfreeze if frozen, then look for a mismatch.
ProbeOk(t) ==
    /\ pc[t] = "probe"
    /\ svc = "active" /\ hy2Up
    /\ st' = [st EXCEPT ![t] = Healthy(@)]
    /\ streak' = 0
    /\ \/ st[t].frozen /\ Call(t, "unfreeze", AutoOut)
       \/ ~st[t].frozen /\ Goto(t, "heal")
    /\ UNCHANGED <<boxVars, pin, history, file, view>>

\* It failed: count, back off, and freeze to ssh-out when the count is reached.
ProbeErr(t) ==
    /\ pc[t] = "probe"
    /\ \/ ~(svc = "active" /\ hy2Up) /\ NoFault
       \/ Strike("api")
    /\ st' = [st EXCEPT ![t] = Failed(@)]
    /\ streak' = Bump(streak)
    /\ \/ Failed(st[t]).frozen /\ ~st[t].frozen /\ Call(t, "freeze", SshOut)
       \/ ~(Failed(st[t]).frozen /\ ~st[t].frozen) /\ Goto(t, "save")
    /\ UNCHANGED <<cfg, svc, hot, urltest, hy2Up, pin, history, file, view>>

\* proxies_map: the choices of proxy-out and auto-out in one answer.
TickHeal(t) ==
    /\ pc[t] = "heal"
    /\ \/ /\ svc = "active"
          /\ view' = [view EXCEPT ![t] = <<hot, urltest>>]
          /\ Goto(t, "decide")
          /\ NoFault
       \/ /\ \/ svc # "active" /\ NoFault
             \/ svc = "active" /\ Strike("api")
          /\ Goto(t, "save")
          /\ UNCHANGED view
    /\ UNCHANGED <<cfg, svc, hot, urltest, hy2Up, pin, history, file, st, streak>>

NoHeal == "none"

\* Mutant: every hot ssh-out counts as the leftover of a freeze.
HealActionBlind(selNow, autoNow, cfgDefault) ==
    CASE selNow = SshOut -> AutoOut
      [] selNow = AutoOut /\ autoNow = SshOut -> Hy2Out
      [] OTHER -> NoHeal

\* Mutant: nothing is done about an urltest that sticks to ssh-out.
HealActionLeavesUrltest(selNow, autoNow, cfgDefault) ==
    IF selNow = SshOut /\ cfgDefault = AutoOut THEN AutoOut ELSE NoHeal

HealAction(selNow, autoNow, cfgDefault) ==
    CASE selNow = SshOut /\ cfgDefault = AutoOut -> AutoOut
      [] selNow = AutoOut /\ autoNow = SshOut -> Hy2Out
      [] OTHER -> NoHeal

\* selector_default_in_config and heal_action.
TickDecide(t) ==
    /\ pc[t] = "decide"
    /\ LET act == HealAction(view[t][1], view[t][2], cfg)
       IN  \/ act # NoHeal /\ Call(t, "heal", act)
           \/ act = NoHeal /\ Goto(t, "save")
    /\ view' = [view EXCEPT ![t] = NoView]
    /\ UNCHANGED <<boxVars, pin, history, file, st, streak>>

\* After a freeze sing-box is restarted, whether or not the switch succeeded.
TickStop(t) ==
    /\ pc[t] = "restart"
    /\ Stop
    /\ Goto(t, "start")
    /\ UNCHANGED <<cfg, hot, urltest, hy2Up, pin, history, guardVars>>

\* Mutant: a failed start ends the tick, before its save.
TickStartOrQuit(t) ==
    /\ pc[t] = "start"
    /\ \/ StartOk /\ Goto(t, "save")
       \/ StartErr /\ Goto(t, "idle")
    /\ UNCHANGED <<cfg, hy2Up, pin, history, guardVars>>

TickStart(t) ==
    /\ pc[t] = "start"
    /\ StartOk \/ StartErr
    /\ Goto(t, "save")
    /\ UNCHANGED <<cfg, hy2Up, pin, history, guardVars>>

\* save_state ignores a failed write, which leaves the old file or none.
TickSave(t) ==
    /\ pc[t] = "save"
    /\ \/ file' = st[t] /\ NoFault
       \/ file' \in {file, Default} /\ Strike("stwrite")
    /\ st' = [st EXCEPT ![t] = Default]
    /\ Goto(t, "idle")
    /\ UNCHANGED <<cfg, svc, hot, urltest, hy2Up, pin, history, view, streak>>

\* The minute-long backoff runs out.
BackoffElapses ==
    /\ file.wait
    /\ file' = [file EXCEPT !.wait = FALSE]
    /\ UNCHANGED <<boxVars, switchVars, st, view, streak>>

TickStep(t) ==
    \/ TickBegin(t)
    \/ TickAlive(t)
    \/ ProbeOk(t)
    \/ ProbeErr(t)
    \/ TickHeal(t)
    \/ TickDecide(t)
    \/ TickStop(t)
    \/ TickStart(t)
    \/ TickSave(t)

-----------------------------------------------------------------------------
(* What the user and the machine do. *)

ManualSwitch(u, tag) ==
    /\ MayStart(u)
    /\ Call(u, "manual", tag)
    /\ pin' = NoPin
    /\ UNCHANGED <<boxVars, history, guardVars>>

GnpcStop(u) ==
    /\ MayStart(u)
    /\ Stop
    /\ UNCHANGED <<cfg, hot, urltest, hy2Up, switchVars, guardVars>>

GnpcStart(u) ==
    /\ MayStart(u)
    /\ StartOk \/ StartErr
    /\ UNCHANGED <<cfg, hy2Up, switchVars, guardVars>>

(***************************************************************************)
(* A process dies: what it wrote stays, what it held in memory is gone.    *)
(* Dying inside save_state can leave a truncated state file.               *)
(***************************************************************************)
Kill(p) ==
    /\ pc[p] # "idle"
    /\ Strike("kill")
    /\ Leave(p, "idle")
    /\ file' \in (IF pc[p] = "save" THEN {file, Default} ELSE {file})
    /\ st' = [q \in Ticks |-> IF q = p THEN Default ELSE st[q]]
    /\ view' = [q \in Ticks |-> IF q = p THEN NoView ELSE view[q]]
    /\ UNCHANGED <<cfg, svc, hot, urltest, hy2Up, pin, history, streak>>

-----------------------------------------------------------------------------
Init ==
    /\ BoxInit
    /\ SwitchInit
    /\ file = Default
    /\ st = [t \in Ticks |-> Default]
    /\ view = [t \in Ticks |-> NoView]
    /\ streak = 0

Next ==
    \/ BoxStep /\ UNCHANGED <<switchVars, guardVars>>
    \/ BackoffElapses
    \/ \E p \in Procs : SelectorStep(p) /\ UNCHANGED guardVars
    \/ \E t \in Ticks : TickStep(t)
    \/ \E u \in Users : GnpcStop(u) \/ GnpcStart(u)
    \/ \E u \in Users, tag \in Tags : ManualSwitch(u, tag)
    \/ \E p \in Procs : Kill(p)

Spec == Init /\ [][Next]_vars

(***************************************************************************)
(* cron starts a tick every minute and every call in it has a timeout;     *)
(* urltest and systemd keep running; time passes.  Nothing is assumed of   *)
(* the path, the faults, the users, or urltest's return to hy2.            *)
(***************************************************************************)
Fairness ==
    /\ \A t \in Ticks : WF_vars(TickStep(t))
    /\ \A p \in Procs : WF_vars(SelectorStep(p) /\ UNCHANGED guardVars)
    /\ WF_vars(BackoffElapses)
    /\ WF_vars(UrltestFallsBack /\ UNCHANGED <<switchVars, guardVars>>)
    /\ WF_vars(SystemdRestart /\ UNCHANGED <<switchVars, guardVars>>)

FairSpec == Spec /\ Fairness

-----------------------------------------------------------------------------
(* Properties *)

ControlTypeOK ==
    /\ pc \in [Procs -> {"idle"} \cup SetPCs \cup GuardPCs]
    /\ target \in [Procs -> Tags]
    /\ site \in [Procs -> Sites]

HistoryTypeOK ==
    /\ pin \in Tags \cup {NoPin}
    /\ owner \in {"install", "user", "guard"}
    /\ written \subseteq Tags

GuardTypeOK ==
    /\ file \in GuardStates
    /\ st \in [Ticks -> GuardStates]
    /\ view \in [Ticks -> Tags \X {Hy2Out, SshOut}]
    /\ streak \in 0..FreezeAfter

\* Every variable keeps its type: the counts stay within FreezeAfter, the
\* selector and every switch's argument within the three outbounds of the config.
TypeOK ==
    /\ BoxTypeOK
    /\ ControlTypeOK
    /\ HistoryTypeOK
    /\ GuardTypeOK

(***************************************************************************)
(* However ticks overlap, die or fail to write, the persisted state never  *)
(* says frozen without the failures that justify it (guard.rs: failures    *)
(* and frozen are set and reset together, and saved in one file).          *)
(***************************************************************************)
FrozenIsCounted == file.frozen <=> file.failures = FreezeAfter

(***************************************************************************)
(* The config is the commit point of every switch: the running selector    *)
(* never holds a choice that was not first written to config.json, however *)
(* many ticks and commands overlap and whichever of their calls fail.      *)
(***************************************************************************)
HotWasCommitted == hot \in written

(***************************************************************************)
(* "Account first, then act": when nobody is running and the default that  *)
(* the guard committed is ssh-out, the state file says frozen, so the next *)
(* successful probe returns to auto-out.  Only a fault that hits a file or *)
(* the process itself can break it; a lost clash_api call, a failed        *)
(* systemctl or a crash of sing-box in mid-freeze cannot.                  *)
(***************************************************************************)
FreezeIsAccounted ==
    AllIdle /\ cfg = SshOut /\ owner = "guard"
        => file.frozen \/ seen \cap {"write", "enospc", "kill", "stwrite"} # {}

(***************************************************************************)
(* The order "config first, then the hot switch": when nobody is running,  *)
(* the running selector differs from the default on disk only after a      *)
(* clash_api call failed or a process or write died halfway.  A config     *)
(* that cannot be opened ("write") is not among the causes.                *)
(***************************************************************************)
QuiescentAgreement ==
    AllIdle /\ svc = "active" /\ seen \cap {"api", "kill", "enospc"} = {}
        => hot = cfg

(***************************************************************************)
(* config.json is left unreadable only by a death or a full disk between   *)
(* truncation and write; every other failure leaves one whole document.    *)
(***************************************************************************)
ConfigSurvives ==
    AllIdle /\ ~Readable(cfg) => seen \cap {"kill", "enospc"} # {}

(***************************************************************************)
(* The guard's healing never moves the selector away from a manual hy2 or  *)
(* ssh choice that is still in force (heal_action: a manual pin is left    *)
(* alone), whatever the selector, urltest and the path did meanwhile.      *)
(***************************************************************************)
HealNeverOverridesPin ==
    \A t \in Ticks :
        pc[t] = "load" /\ site[t] = "heal" /\ owner = "user" /\ pin \in {Hy2Out, SshOut}
            => cfg # pin

(***************************************************************************)
(* A freeze is the answer to FreezeAfter failed probes in a row: one lost  *)
(* probe between successful ones never moves the traffic.  It takes a tick *)
(* that died, or whose save failed, after a success to break the count.    *)
(***************************************************************************)
FreezeNeedsStreak ==
    \A t \in Ticks :
        pc[t] = "load" /\ site[t] = "freeze"
            => streak = FreezeAfter \/ seen \cap {"kill", "stwrite"} # {}

(***************************************************************************)
(* Ticks that do not overlap make guard-state.json an atomic failure       *)
(* detector: every change of it is one probe result or a reset.            *)
(***************************************************************************)
Detector == INSTANCE FailureDetector
    WITH failures <- file.failures, frozen <- file.frozen

DetectorSpec == Detector!Spec

(***************************************************************************)
(* When hy2 stays healthy, traffic is back on hy2 for good without anyone  *)
(* stepping in: out of a freeze, and out of an urltest that sticks to ssh. *)
(***************************************************************************)
RecoversToHy2 == <>[]hy2Up => <>[](Effective = Hy2Out)

(***************************************************************************)
(* When hy2 stays down, traffic ends up on the ssh fallback, also when the *)
(* selector had been forced to hy2-out before and the switch to ssh-out    *)
(* was lost (the restart makes up for it, unless systemctl fails too).     *)
(***************************************************************************)
DegradesToSsh == <>[]~hy2Up => <>[](Effective = SshOut \/ "systemctl" \in seen)

(***************************************************************************)
(* sing-box never stays down: neither a crash nor the guard's own          *)
(* stop-and-start ends with a stopped service.                             *)
(***************************************************************************)
ServiceComesBack == (svc # "active") ~> (svc = "active")

(***************************************************************************)
(* guard.rs: "account first, then act; once frozen is marked, the first    *)
(* successful probe always tries to return": a default of ssh-out that the *)
(* guard committed is always marked when no tick is running.               *)
(***************************************************************************)
AccountedBeforeActing == AllIdle /\ cfg = SshOut /\ owner = "guard" => file.frozen

(***************************************************************************)
(* docs/usage.md: "after a manual switch the guard does not override your  *)
(* choice": with nobody running, the config still holds the pinned choice. *)
(***************************************************************************)
ManualPinKept == AllIdle /\ pin \in {Hy2Out, SshOut} => cfg = pin
=============================================================================
