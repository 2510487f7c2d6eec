-------------------------- MODULE Guard_serial_proofs --------------------------
(***************************************************************************)
(* Proofs about a guard whose ticks and commands do not overlap (Serial),  *)
(* for every threshold and every kind and number of faults: what a switch  *)
(* that fails anywhere leaves behind, and what guard-state.json promises.  *)
(***************************************************************************)
EXTENDS Guard_proofs

-----------------------------------------------------------------------------
(* The invariants are seldom inductive: between two system calls of a      *)
(* switch the file, the selector and the state file disagree on purpose.   *)
(* The conjuncts below say where in the switch they may.                   *)

\* At most one process is inside a command.
OneRunning ==
    \A p, q \in Procs : pc[p] # "idle" /\ pc[q] # "idle" => p = q

\* Between truncation and write config.json is empty ...
WriteWindow == \A p \in Procs : pc[p] = "write" => cfg = Empty

\* ... and from the write to the end of the switch it holds the new choice.
WrittenTarget == \A p \in Procs : pc[p] \in {"put", "fallback"} => cfg = target[p]

\* It is unreadable in no other place, except after a death or a full disk.
ConfigWhole ==
    \/ Readable(cfg)
    \/ \E p \in Procs : pc[p] = "write"
    \/ seen \cap {"kill", "enospc"} # {}

\* The selector disagrees with the config only between the write and the PUT.
HotAgrees ==
    svc = "active" /\ seen \cap {"api", "kill", "enospc"} = {}
        => hot = cfg \/ \E p \in Procs : pc[p] \in {"write", "put"}

ConfigInv ==
    /\ OneRunning
    /\ WriteWindow
    /\ WrittenTarget
    /\ ConfigWhole
    /\ HotAgrees

\* Only ticks freeze, heal and unfreeze; only a freeze chooses ssh-out, and the
\* tick that freezes has frozen marked in memory.
FreezeArgs ==
    \A p \in Procs : pc[p] \in SetPCs =>
        /\ site[p] = "manual" <=> p \in Users
        /\ site[p] = "freeze" => st[p].frozen
        /\ target[p] = SshOut /\ site[p] # "manual" => site[p] = "freeze"

\* The guard's own ssh-out stands in the config and no file was hit by a fault.
GuardChoseSsh ==
    /\ cfg = SshOut
    /\ owner = "guard"
    /\ seen \cap {"write", "enospc", "kill", "stwrite"} = {}

\* The mark is in the file, or in the memory of a tick on its way to the save.
MarkSurvives ==
    GuardChoseSsh =>
        \/ file.frozen
        \/ \E t \in Ticks :
               pc[t] \in {"put", "fallback", "restart", "start", "save"} /\ st[t].frozen

\* No tick forgets the mark but the one that is about to replace ssh-out.
MarkHeld ==
    GuardChoseSsh =>
        \A t \in Ticks : pc[t] # "idle" =>
            st[t].frozen \/ (site[t] = "unfreeze" /\ pc[t] \in {"load", "open"})

MarkInv == FreezeArgs /\ MarkSurvives /\ MarkHeld

-----------------------------------------------------------------------------
(* A step of one process leaves the control state of the others alone, and *)
(* when commands do not overlap the others are idle before and after it.   *)

OthersStay(p) ==
    \A q \in Procs \ {p} : pc'[q] = pc[q] /\ target'[q] = target[q] /\ site'[q] = site[q]

Alone(p) == \A q \in Procs \ {p} : pc[q] = "idle" /\ pc'[q] = "idle"

LEMMA ControlMoves ==
    ASSUME TypeOK, NEW p \in Procs, NEW label, NEW s, NEW tag,
           Goto(p, label) \/ Leave(p, label) \/ Call(p, s, tag)
    PROVE  OthersStay(p)
BY DEF TypeOK, ControlTypeOK, OthersStay, Goto, Leave, Call

LEMMA SelectorStays ==
    ASSUME TypeOK, NEW p \in Procs, SelectorStep(p)
    PROVE  pc[p] \in SetPCs /\ OthersStay(p)
<1>1. pc[p] \in SetPCs
  BY DEF SelectorStep, SetLoad, SetOpen, SetWrite, SetPut, SetFallback, SetPCs
<1>2. \/ \E label : Goto(p, label) \/ Leave(p, label)
      \/ ReturnOk(p) \/ ReturnErr(p)
  BY DEF SelectorStep, SetLoad, SetOpen, SetWrite, SetPut, SetFallback
<1>3. QED
  BY <1>1, <1>2, ControlMoves DEF ReturnOk, ReturnErr

LEMMA TickStays ==
    ASSUME TypeOK, NEW t \in Ticks, TickStep(t)
    PROVE  /\ OthersStay(t)
           /\ pc[t] = "idle" => TickBegin(t)
           /\ \A u \in Ticks \ {t} : st'[u] = st[u]
<1>a. t \in Procs /\ st \in [Ticks -> GuardStates]
  BY DEF Procs, TypeOK, GuardTypeOK
<1>1. pc[t] = "idle" => TickBegin(t)
  BY DEF TickStep, TickAlive, ProbeOk, ProbeErr, TickHeal, TickDecide, TickStop,
         TickStart, TickSave
<1>2. \E label, s, tag : Goto(t, label) \/ Call(t, s, tag)
  <2>1. CASE TickDecide(t)
    BY <2>1 DEF TickDecide
  <2>2. CASE \/ TickBegin(t) \/ TickAlive(t) \/ ProbeOk(t) \/ ProbeErr(t)
             \/ TickHeal(t)
    BY <2>2 DEF TickBegin, TickAlive, ProbeOk, ProbeErr, TickHeal
  <2>3. CASE TickStop(t) \/ TickStart(t) \/ TickSave(t)
    BY <2>3 DEF TickStop, TickStart, TickSave
  <2>4. QED
    BY <2>1, <2>2, <2>3 DEF TickStep
<1>3. \A u \in Ticks \ {t} : st'[u] = st[u]
  BY <1>a DEF TickStep, TickBegin, TickAlive, ProbeOk, ProbeErr, TickHeal, TickDecide,
         TickStop, TickStart, TickSave, guardVars
<1>4. QED
  BY <1>a, <1>1, <1>2, <1>3, ControlMoves

LEMMA SelectorAlone ==
    ASSUME TypeOK, OneRunning, NEW p \in Procs, SelectorStep(p)
    PROVE  Alone(p)
BY SelectorStays DEF OneRunning, SetPCs, OthersStay, Alone

LEMMA TickAlone ==
    ASSUME Serial, TypeOK, OneRunning, NEW t \in Ticks, TickStep(t)
    PROVE  Alone(t)
BY TickStays DEF OneRunning, OthersStay, Alone, TickBegin, MayStart, AllIdle, Procs

LEMMA KillAlone ==
    ASSUME TypeOK, OneRunning, NEW p \in Procs, Kill(p)
    PROVE  Alone(p) /\ OthersStay(p)
BY ControlMoves DEF OneRunning, OthersStay, Alone, Kill

LEMMA ManualAlone ==
    ASSUME Serial, TypeOK, NEW u \in Users, NEW tag, ManualSwitch(u, tag)
    PROVE  Alone(u) /\ OthersStay(u) /\ pc[u] = "idle" /\ pc'[u] = "load"
BY ControlMoves
   DEF OthersStay, Alone, ManualSwitch, MayStart, AllIdle, Procs, Call, TypeOK,
       ControlTypeOK

LEMMA AloneIsOne ==
    ASSUME NEW p \in Procs, Alone(p)
    PROVE  OneRunning /\ OneRunning'
BY DEF OneRunning, Alone

-----------------------------------------------------------------------------
(* ConfigInv, stated for the one process that is running. *)

ConfigOf(p) ==
    /\ pc[p] = "write" => cfg = Empty
    /\ pc[p] \in {"put", "fallback"} => cfg = target[p]
    /\ \/ Readable(cfg)
       \/ pc[p] = "write"
       \/ seen \cap {"kill", "enospc"} # {}
    /\ svc = "active" /\ seen \cap {"api", "kill", "enospc"} = {}
           => hot = cfg \/ pc[p] \in {"write", "put"}

LEMMA ConfigAlone ==
    ASSUME NEW p \in Procs, Alone(p)
    PROVE  (ConfigInv => ConfigOf(p)) /\ (ConfigOf(p)' => ConfigInv')
<1>1. ConfigInv => ConfigOf(p)
  BY DEF Alone, ConfigInv, WriteWindow, WrittenTarget, ConfigWhole, HotAgrees, ConfigOf
<1>2. ASSUME ConfigOf(p)' PROVE ConfigInv'
  BY <1>2, AloneIsOne
     DEF Alone, ConfigInv, WriteWindow, WrittenTarget, ConfigWhole, HotAgrees,
         ConfigOf, Readable
<1>3. QED
  BY <1>1, <1>2

\* A step that leaves config.json alone and (re)boots sing-box at most from it.
BootsFromConfig ==
    /\ cfg' = cfg
    /\ seen \subseteq seen'
    /\ svc' = "active" => (svc = "active" /\ hot' = hot) \/ hot' = cfg

LEMMA StartBoots ==
    ASSUME StartOk \/ StartErr, cfg' = cfg
    PROVE  BootsFromConfig
BY DEF StartOk, StartErr, Boot, NoFault, Strike, faultVars, BootsFromConfig

LEMMA BoxStepBoots == ASSUME BoxStep PROVE BootsFromConfig
BY DEF BoxStep, PathChanges, SingBoxCrash, SystemdRestart, UrltestFallsBack,
       UrltestReturns, UrltestPrefersSsh, Boot, NoFault, Strike, faultVars,
       BootsFromConfig

LEMMA ConfigQuiet ==
    ASSUME ConfigInv, BootsFromConfig, UNCHANGED <<pc, target>>
    PROVE  ConfigInv'
BY DEF ConfigInv, OneRunning, WriteWindow, WrittenTarget, ConfigWhole, HotAgrees,
       BootsFromConfig, Readable

\* A step of p that stays clear of the writing half of set_selector.
LEMMA ConfigElsewhere ==
    ASSUME ConfigInv, NEW p \in Procs, Alone(p), BootsFromConfig,
           pc[p] \notin {"write", "put"},
           pc'[p] \notin {"write", "put", "fallback"}
    PROVE  ConfigInv'
BY ConfigAlone DEF ConfigOf, BootsFromConfig, Readable

LEMMA AfterIsOutside ==
    ASSUME NEW s \in Sites PROVE After(s) \in {"idle", "heal", "save", "restart"}
BY DEF After, Sites

LEMMA ReturnLeaves ==
    ASSUME TypeOK, NEW p \in Procs, ReturnOk(p) \/ ReturnErr(p)
    PROVE  /\ pc'[p] = After(site[p])
           /\ pc'[p] \in {"idle", "heal", "save", "restart"}
BY AfterIsOutside DEF TypeOK, ControlTypeOK, ReturnOk, ReturnErr, Leave

LEMMA ConfigSelectorStep ==
    ASSUME TypeOK, ConfigInv, NEW p \in Procs, SelectorStep(p)
    PROVE  ConfigInv'
<1>a. Alone(p) /\ ConfigOf(p)
  BY SelectorAlone, ConfigAlone DEF ConfigInv
<1>b. ASSUME ConfigOf(p)' PROVE ConfigInv'
  BY <1>a, <1>b, ConfigAlone
<1>c. ASSUME NEW label, Goto(p, label) PROVE pc'[p] = label /\ target' = target
  BY <1>c DEF Goto, TypeOK, ControlTypeOK
<1>d. target[p] \in Tags
  BY DEF TypeOK, ControlTypeOK
<1>1. CASE SetLoad(p)
  <2>1. BootsFromConfig
    BY <1>1 DEF SetLoad, boxVars, faultVars, BootsFromConfig
  <2>2. pc[p] = "load" /\ pc'[p] \in {"open", "idle", "heal", "save", "restart"}
    BY <1>1, <1>c, ReturnLeaves DEF SetLoad
  <2>3. QED
    BY <2>1, <2>2, <1>a, ConfigElsewhere
<1>2. CASE SetOpen(p)
  <2>1. CASE cfg' = Empty /\ Goto(p, "write")
    <3>1. ConfigOf(p)'
      BY <2>1, <1>c DEF ConfigOf
    <3>2. QED
      BY <3>1, <1>b
  <2>2. CASE Strike("write") /\ ReturnErr(p) /\ UNCHANGED cfg
    <3>1. BootsFromConfig
      BY <1>2, <2>2 DEF SetOpen, Strike, BootsFromConfig
    <3>2. QED
      BY <1>2, <2>2, <3>1, <1>a, ReturnLeaves, ConfigElsewhere DEF SetOpen
  <2>3. QED
    BY <1>2, <2>1, <2>2 DEF SetOpen
<1>3. CASE SetWrite(p)
  <2>0. cfg = Empty
    BY <1>3, <1>a DEF SetWrite, ConfigOf
  <2>1. CASE cfg' = Overwrite(cfg, target[p]) /\ Goto(p, "put")
    <3>1. cfg' = target[p]
      BY <2>0, <2>1 DEF Overwrite, AutoOut, Garbled, Empty
    <3>2. ConfigOf(p)'
      BY <2>1, <3>1, <1>c, <1>d DEF ConfigOf, Readable
    <3>3. QED
      BY <3>2, <1>b
  <2>2. CASE Strike("enospc") /\ ReturnErr(p)
    <3>1. "enospc" \in seen'
      BY <2>2 DEF Strike
    <3>2. pc'[p] \notin {"write", "put", "fallback"}
      BY <2>2, ReturnLeaves
    <3>3. ConfigOf(p)'
      BY <3>1, <3>2 DEF ConfigOf
    <3>4. QED
      BY <3>3, <1>b
  <2>3. QED
    BY <1>3, <2>1, <2>2 DEF SetWrite
<1>4. CASE SetPut(p)
  <2>0. cfg' = cfg /\ cfg = target[p] /\ svc' = svc /\ Readable(cfg)
    BY <1>4, <1>a, <1>d DEF SetPut, ConfigOf, Readable
  <2>1. CASE hot' = target[p] /\ ReturnOk(p)
    <3>1. ConfigOf(p)'
      BY <2>0, <2>1, ReturnLeaves DEF ConfigOf, Readable
    <3>2. QED
      BY <3>1, <1>b
  <2>2. CASE svc # "active" /\ Goto(p, "fallback")
    <3>1. ConfigOf(p)'
      BY <2>0, <2>2, <1>c DEF ConfigOf, Readable
    <3>2. QED
      BY <3>1, <1>b
  <2>3. CASE Strike("api") /\ Goto(p, "fallback")
    <3>1. "api" \in seen'
      BY <2>3 DEF Strike
    <3>2. ConfigOf(p)'
      BY <2>0, <2>3, <3>1, <1>c DEF ConfigOf, Readable
    <3>3. QED
      BY <3>2, <1>b
  <2>4. QED
    BY <1>4, <2>0, <2>1, <2>2, <2>3 DEF SetPut
<1>5. CASE SetFallback(p)
  <2>1. BootsFromConfig
    BY <1>5, StartBoots DEF SetFallback, NoFault, faultVars, BootsFromConfig
  <2>2. pc[p] = "fallback" /\ (ReturnOk(p) \/ ReturnErr(p))
    BY <1>5 DEF SetFallback
  <2>3. QED
    BY <2>1, <2>2, <1>a, ReturnLeaves, ConfigElsewhere
<1>6. QED
  BY <1>1, <1>2, <1>3, <1>4, <1>5 DEF SelectorStep

LEMMA ConfigTickStep ==
    ASSUME Serial, TypeOK, ConfigInv, NEW t \in Ticks, TickStep(t)
    PROVE  ConfigInv'
<1>a. t \in Procs /\ pc \in [Procs -> {"idle"} \cup SetPCs \cup GuardPCs]
  BY DEF Procs, TypeOK, ControlTypeOK
<1>b. Alone(t)
  BY TickAlone DEF ConfigInv
<1>1. BootsFromConfig
  <2>1. CASE TickAlive(t) \/ TickStart(t)
    BY <2>1, StartBoots
       DEF TickAlive, TickStart, NoFault, faultVars, BootsFromConfig
  <2>2. CASE TickBegin(t) \/ ProbeOk(t) \/ TickDecide(t)
    BY <2>2 DEF TickBegin, ProbeOk, TickDecide, boxVars, faultVars, BootsFromConfig
  <2>3. CASE ProbeErr(t) \/ TickHeal(t) \/ TickStop(t) \/ TickSave(t)
    BY <2>3 DEF ProbeErr, TickHeal, TickStop, Stop, TickSave, NoFault, Strike,
                faultVars, BootsFromConfig
  <2>4. QED
    BY <2>1, <2>2, <2>3 DEF TickStep
<1>2. pc[t] \notin {"write", "put"}
  BY DEF TickStep, TickBegin, MayStart, TickAlive, ProbeOk, ProbeErr, TickHeal,
         TickDecide, TickStop, TickStart, TickSave
<1>3. pc'[t] \notin {"write", "put", "fallback"}
  <2>1. CASE TickBegin(t) \/ TickAlive(t) \/ ProbeOk(t) \/ ProbeErr(t) \/ TickHeal(t)
    BY <2>1, <1>a DEF TickBegin, TickAlive, ProbeOk, ProbeErr, TickHeal, Goto, Call
  <2>2. CASE TickDecide(t)
    <3>1. Goto(t, "save") \/ \E tag : Call(t, "heal", tag)
      BY <2>2 DEF TickDecide
    <3>2. QED
      BY <3>1, <1>a DEF Goto, Call
  <2>3. CASE TickStop(t) \/ TickStart(t) \/ TickSave(t)
    BY <2>3, <1>a DEF TickStop, TickStart, TickSave, Goto
  <2>4. QED
    BY <2>1, <2>2, <2>3 DEF TickStep
<1>4. QED
  BY <1>a, <1>b, <1>1, <1>2, <1>3, ConfigElsewhere

LEMMA ConfigStep ==
    ASSUME Serial, TypeOK, ConfigInv, [Next]_vars
    PROVE  ConfigInv'
<1>1. CASE BoxStep /\ UNCHANGED <<switchVars, guardVars>>
  BY <1>1, BoxStepBoots, ConfigQuiet DEF switchVars
<1>2. CASE \E p \in Procs : SelectorStep(p) /\ UNCHANGED guardVars
  BY <1>2, ConfigSelectorStep
<1>3. CASE \E t \in Ticks : TickStep(t)
  BY <1>3, ConfigTickStep
<1>4. CASE \E u \in Users : GnpcStop(u) \/ GnpcStart(u)
  <2>1. BootsFromConfig
    BY <1>4, StartBoots
       DEF GnpcStop, GnpcStart, Stop, NoFault, Strike, faultVars, BootsFromConfig
  <2>2. UNCHANGED <<pc, target>>
    BY <1>4 DEF GnpcStop, GnpcStart, switchVars
  <2>3. QED
    BY <2>1, <2>2, ConfigQuiet
<1>5. ASSUME NEW u \in Users, NEW tag \in Tags, ManualSwitch(u, tag) PROVE ConfigInv'
  <2>1. BootsFromConfig
    BY <1>5 DEF ManualSwitch, boxVars, faultVars, BootsFromConfig
  <2>2. QED
    BY <1>5, <2>1, ManualAlone, ConfigElsewhere DEF Procs
<1>6. ASSUME NEW p \in Procs, Kill(p) PROVE ConfigInv'
  <2>1. "kill" \in seen' /\ pc'[p] = "idle"
    BY <1>6 DEF Kill, Strike, Leave, TypeOK, ControlTypeOK
  <2>2. ConfigOf(p)'
    BY <2>1 DEF ConfigOf
  <2>3. QED
    BY <1>6, <2>2, KillAlone, ConfigAlone DEF ConfigInv
<1>7. CASE BackoffElapses \/ UNCHANGED vars
  <2>1. BootsFromConfig /\ UNCHANGED <<pc, target>>
    BY <1>7 DEF BackoffElapses, vars, boxVars, faultVars, switchVars, BootsFromConfig
  <2>2. QED
    BY <2>1, ConfigQuiet
<1>8. QED
  BY <1>1, <1>2, <1>3, <1>4, <1>5, <1>6, <1>7 DEF Next

LEMMA ConfigInit == Init => ConfigInv
BY DEF Init, BoxInit, SwitchInit, ConfigInv, OneRunning, WriteWindow, WrittenTarget,
       ConfigWhole, HotAgrees, Readable, Tags

(***************************************************************************)
(* The conjunction ConfigInv is inductive: while at most one command runs, *)
(* config.json is truncated only inside set_selector's own write, and the  *)
(* running selector leaves the default on disk only between that write and *)
(* the PUT that follows it, or after a fault that excuses it.              *)
(***************************************************************************)
THEOREM ConfigInductive == ASSUME Serial PROVE Spec => []ConfigInv
<1>1. TypeOK /\ ConfigInv /\ [Next]_vars => ConfigInv'
  BY ConfigStep
<1>2. QED
  BY <1>1, ConfigInit, TypeCorrect, PTL DEF Spec

(***************************************************************************)
(* Without overlap, config.json is unreadable at rest only after a process *)
(* died, or the disk filled up, between truncating and writing it.         *)
(***************************************************************************)
THEOREM ConfigIsWhole == ASSUME Serial PROVE Spec => []ConfigSurvives
<1>1. ConfigInv => ConfigSurvives
  BY DEF ConfigInv, ConfigWhole, ConfigSurvives, AllIdle
<1>2. QED
  BY <1>1, ConfigInductive, PTL

(***************************************************************************)
(* Without overlap, the running selector and the config agree at rest,     *)
(* unless a clash_api call was lost or a process or write died halfway: no *)
(* other failure, at any point of any sequence of switches, separates them.*)
(***************************************************************************)
THEOREM HotIsConfig == ASSUME Serial PROVE Spec => []QuiescentAgreement
<1>1. ConfigInv => QuiescentAgreement
  BY DEF ConfigInv, HotAgrees, QuiescentAgreement, AllIdle
<1>2. QED
  BY <1>1, ConfigInductive, PTL

-----------------------------------------------------------------------------
(* MarkInv, stated for the one process that is running. *)

MarkOf(p) ==
    /\ pc[p] \in SetPCs =>
           /\ site[p] = "manual" <=> p \in Users
           /\ site[p] = "freeze" => st[p].frozen
           /\ target[p] = SshOut /\ site[p] # "manual" => site[p] = "freeze"
    /\ GuardChoseSsh =>
           \/ file.frozen
           \/ /\ p \in Ticks
              /\ pc[p] \in {"put", "fallback", "restart", "start", "save"}
              /\ st[p].frozen
    /\ GuardChoseSsh /\ p \in Ticks /\ pc[p] # "idle" =>
           st[p].frozen \/ (site[p] = "unfreeze" /\ pc[p] \in {"load", "open"})

LEMMA MarkAlone ==
    ASSUME NEW p \in Procs, Alone(p)
    PROVE  (MarkInv => MarkOf(p)) /\ (MarkOf(p)' => MarkInv')
<1>a. \A q \in Ticks : q \in Procs
  BY DEF Procs
<1>1. ASSUME MarkInv PROVE MarkOf(p)
  <2>1. GuardChoseSsh =>
           \/ file.frozen
           \/ /\ p \in Ticks
              /\ pc[p] \in {"put", "fallback", "restart", "start", "save"}
              /\ st[p].frozen
    BY <1>1, <1>a DEF Alone, MarkInv, MarkSurvives
  <2>2. QED
    BY <1>1, <2>1 DEF MarkInv, FreezeArgs, MarkHeld, MarkOf
<1>2. ASSUME MarkOf(p)' PROVE MarkInv'
  <2>1. FreezeArgs'
    BY <1>2 DEF Alone, MarkOf, FreezeArgs, SetPCs
  <2>2. MarkSurvives'
    BY <1>2 DEF MarkOf, MarkSurvives
  <2>3. MarkHeld'
    BY <1>2, <1>a DEF Alone, MarkOf, MarkHeld
  <2>4. QED
    BY <2>1, <2>2, <2>3 DEF MarkInv
<1>3. QED
  BY <1>1, <1>2

LEMMA MarkQuiet ==
    ASSUME MarkInv, UNCHANGED <<pc, target, site, st, cfg, owner>>,
           seen \subseteq seen', file'.frozen = file.frozen
    PROVE  MarkInv'
<1>1. GuardChoseSsh' => GuardChoseSsh
  BY DEF GuardChoseSsh
<1>2. QED
  BY <1>1 DEF MarkInv, FreezeArgs, MarkSurvives, MarkHeld

LEMMA MarkSelectorStep ==
    ASSUME TypeOK, ConfigInv, MarkInv, NEW p \in Procs, SelectorStep(p),
           UNCHANGED guardVars
    PROVE  MarkInv'
<1>a. Alone(p) /\ ConfigOf(p) /\ MarkOf(p)
  BY SelectorAlone, ConfigAlone, MarkAlone DEF ConfigInv
<1>b. ASSUME MarkOf(p)' PROVE MarkInv'
  BY <1>a, <1>b, MarkAlone
<1>c. ASSUME NEW label, Goto(p, label)
      PROVE  pc'[p] = label /\ target' = target /\ site' = site
  BY <1>c DEF Goto, TypeOK, ControlTypeOK
<1>d. file' = file /\ st' = st
  BY DEF guardVars
<1>e. p \in Ticks => p \notin Users
  BY ProcAssumption
<1>f. p \in Ticks \/ p \in Users
  BY DEF Procs
<1>1. CASE SetLoad(p)
  <2>0. pc[p] = "load" /\ UNCHANGED <<cfg, owner, seen>>
    BY <1>1 DEF SetLoad, boxVars, faultVars, history
  <2>1. CASE Goto(p, "open")
    <3>1. MarkOf(p)'
      BY <2>0, <2>1, <1>a, <1>c, <1>d DEF MarkOf, GuardChoseSsh, SetPCs
    <3>2. QED
      BY <3>1, <1>b
  <2>2. CASE ~Readable(cfg) /\ ReturnErr(p)
    <3>1. ~GuardChoseSsh'
      BY <2>0, <2>2 DEF GuardChoseSsh, Readable, Tags
    <3>2. pc'[p] \notin SetPCs
      BY <2>2, ReturnLeaves DEF SetPCs
    <3>3. MarkOf(p)'
      BY <3>1, <3>2 DEF MarkOf
    <3>4. QED
      BY <3>3, <1>b
  <2>3. QED
    BY <1>1, <2>1, <2>2 DEF SetLoad
<1>2. CASE SetOpen(p)
  <2>1. CASE cfg' = Empty /\ Goto(p, "write")
    <3>1. ~GuardChoseSsh'
      BY <2>1 DEF GuardChoseSsh, Empty, SshOut
    <3>2. MarkOf(p)'
      BY <1>2, <2>1, <3>1, <1>a, <1>c, <1>d DEF SetOpen, MarkOf, SetPCs
    <3>3. QED
      BY <3>2, <1>b
  <2>2. CASE Strike("write") /\ ReturnErr(p)
    <3>1. ~GuardChoseSsh'
      BY <2>2 DEF GuardChoseSsh, Strike
    <3>2. pc'[p] \notin SetPCs
      BY <2>2, ReturnLeaves DEF SetPCs
    <3>3. MarkOf(p)'
      BY <3>1, <3>2 DEF MarkOf
    <3>4. QED
      BY <3>3, <1>b
  <2>3. QED
    BY <1>2, <2>1, <2>2 DEF SetOpen
<1>3. CASE SetWrite(p)
  <2>1. CASE /\ cfg' = Overwrite(cfg, target[p])
             /\ owner' = IF site[p] = "manual" THEN "user" ELSE "guard"
             /\ Goto(p, "put")
    <3>1. cfg' = target[p]
      BY <1>3, <2>1, <1>a
         DEF SetWrite, ConfigOf, Overwrite, AutoOut, Garbled, Empty
    <3>2. GuardChoseSsh' => p \in Ticks /\ st[p].frozen
      BY <1>3, <2>1, <3>1, <1>a, <1>f DEF SetWrite, GuardChoseSsh, MarkOf, SetPCs
    <3>3. MarkOf(p)'
      BY <1>3, <2>1, <3>2, <1>a, <1>c, <1>d DEF SetWrite, MarkOf, SetPCs
    <3>4. QED
      BY <3>3, <1>b
  <2>2. CASE Strike("enospc") /\ ReturnErr(p)
    <3>1. ~GuardChoseSsh'
      BY <2>2 DEF GuardChoseSsh, Strike
    <3>2. pc'[p] \notin SetPCs
      BY <2>2, ReturnLeaves DEF SetPCs
    <3>3. MarkOf(p)'
      BY <3>1, <3>2 DEF MarkOf
    <3>4. QED
      BY <3>3, <1>b
  <2>3. QED
    BY <1>3, <2>1, <2>2 DEF SetWrite
<1>4. CASE SetPut(p) \/ SetFallback(p)
  <2>1. pc[p] \in {"put", "fallback"} /\ UNCHANGED <<cfg, owner>> /\ seen \subseteq seen'
    BY <1>4, StartBoots
       DEF SetPut, SetFallback, NoFault, Strike, faultVars, history, BootsFromConfig
  <2>2. GuardChoseSsh' => GuardChoseSsh
    BY <2>1 DEF GuardChoseSsh
  <2>3. CASE Goto(p, "fallback")
    <3>1. MarkOf(p)'
      BY <2>1, <2>2, <2>3, <1>a, <1>c, <1>d DEF MarkOf, SetPCs
    <3>2. QED
      BY <3>1, <1>b
  <2>4. CASE ReturnOk(p) \/ ReturnErr(p)
    <3>1. GuardChoseSsh /\ p \in Ticks => site[p] = "freeze" /\ st[p].frozen
      BY <2>1, <1>a, <1>e DEF ConfigOf, MarkOf, SetPCs, GuardChoseSsh
    <3>2. GuardChoseSsh /\ p \in Ticks => pc'[p] = "restart"
      BY <2>4, <3>1, ReturnLeaves DEF After
    <3>3. pc'[p] \notin SetPCs
      BY <2>4, ReturnLeaves DEF SetPCs
    <3>4. MarkOf(p)'
      BY <2>2, <3>1, <3>2, <3>3, <1>a, <1>d DEF MarkOf
    <3>5. QED
      BY <3>4, <1>b
  <2>5. QED
    BY <1>4, <2>3, <2>4 DEF SetPut, SetFallback
<1>5. QED
  BY <1>1, <1>2, <1>3, <1>4 DEF SelectorStep

LEMMA MarkTickStep ==
    ASSUME Serial, TypeOK, ConfigInv, MarkInv, NEW t \in Ticks, TickStep(t)
    PROVE  MarkInv'
<1>a. /\ t \in Procs /\ t \notin Users
      /\ pc \in [Procs -> {"idle"} \cup SetPCs \cup GuardPCs]
      /\ target \in [Procs -> Tags] /\ site \in [Procs -> Sites]
      /\ st \in [Ticks -> GuardStates]
  BY ProcAssumption DEF Procs, TypeOK, ControlTypeOK, GuardTypeOK
<1>b. Alone(t) /\ MarkOf(t)
  BY TickAlone, MarkAlone, <1>a DEF ConfigInv
<1>c. ASSUME MarkOf(t)' PROVE MarkInv'
  BY <1>a, <1>b, <1>c, MarkAlone
<1>d. /\ UNCHANGED <<cfg, owner>> /\ seen \subseteq seen'
      /\ GuardChoseSsh' => GuardChoseSsh
  <2>1. UNCHANGED <<cfg, owner>> /\ seen \subseteq seen'
    <3>1. CASE TickAlive(t) \/ TickStart(t)
      BY <3>1, StartBoots
         DEF TickAlive, TickStart, NoFault, faultVars, history, BootsFromConfig
    <3>2. CASE TickBegin(t) \/ ProbeOk(t) \/ TickDecide(t)
      BY <3>2 DEF TickBegin, ProbeOk, TickDecide, boxVars, faultVars, history
    <3>3. CASE ProbeErr(t) \/ TickHeal(t) \/ TickStop(t) \/ TickSave(t)
      BY <3>3 DEF ProbeErr, TickHeal, TickStop, Stop, TickSave, NoFault, Strike,
                  faultVars, history
    <3>4. QED
      BY <3>1, <3>2, <3>3 DEF TickStep
  <2>2. QED
    BY <2>1 DEF GuardChoseSsh
<1>e. ASSUME NEW label, Goto(t, label) PROVE pc'[t] = label
  BY <1>a, <1>e DEF Goto
<1>f. ASSUME NEW s \in Sites, NEW tag \in Tags, Call(t, s, tag)
      PROVE  pc'[t] = "load" /\ target'[t] = tag /\ site'[t] = s
  BY <1>a, <1>f DEF Call
<1>1. CASE TickBegin(t)
  <2>1. AllIdle /\ pc[t] = "idle" /\ file' = file /\ pc'[t] = "alive"
    BY <1>1, <1>e DEF TickBegin, MayStart
  <2>2. st'[t] = file
    BY <1>1, <1>a, <2>1 DEF TickBegin, AllIdle, Procs
  <2>3. MarkOf(t)'
    BY <2>1, <2>2, <1>b, <1>d DEF MarkOf, SetPCs
  <2>4. QED
    BY <2>3, <1>c
<1>2. CASE TickAlive(t)
  <2>1. pc[t] = "alive" /\ pc'[t] \in {"save", "probe", "idle"} /\ UNCHANGED <<file, st>>
    BY <1>2, <1>e DEF TickAlive, guardVars
  <2>2. MarkOf(t)'
    BY <2>1, <1>b, <1>d DEF MarkOf, SetPCs
  <2>3. QED
    BY <2>2, <1>c
<1>3. CASE ProbeOk(t)
  <2>0. pc[t] = "probe" /\ file' = file
    BY <1>3 DEF ProbeOk
  <2>1. CASE Call(t, "unfreeze", AutoOut)
    <3>1. pc'[t] = "load" /\ target'[t] = AutoOut /\ site'[t] = "unfreeze"
      BY <2>1, <1>f DEF Sites, Tags
    <3>2. MarkOf(t)'
      BY <2>0, <3>1, <1>a, <1>b, <1>d DEF MarkOf, SetPCs, AutoOut, SshOut
    <3>3. QED
      BY <3>2, <1>c
  <2>2. CASE ~st[t].frozen /\ Goto(t, "heal")
    <3>1. ~GuardChoseSsh'
      BY <2>0, <2>2, <1>b, <1>d DEF MarkOf
    <3>2. pc'[t] \notin SetPCs
      BY <2>2, <1>e DEF SetPCs
    <3>3. MarkOf(t)'
      BY <3>1, <3>2 DEF MarkOf
    <3>4. QED
      BY <3>3, <1>c
  <2>3. QED
    BY <1>3, <2>1, <2>2 DEF ProbeOk
<1>4. CASE ProbeErr(t)
  <2>0. pc[t] = "probe" /\ file' = file /\ st'[t] = Failed(st[t])
    BY <1>4, <1>a DEF ProbeErr
  <2>1. st[t].frozen => Failed(st[t]).frozen
    BY DEF Failed
  <2>2. CASE Failed(st[t]).frozen /\ ~st[t].frozen /\ Call(t, "freeze", SshOut)
    <3>1. pc'[t] = "load" /\ target'[t] = SshOut /\ site'[t] = "freeze"
      BY <2>2, <1>f DEF Sites, Tags
    <3>2. MarkOf(t)'
      BY <2>0, <2>2, <3>1, <1>a, <1>b, <1>d DEF MarkOf
    <3>3. QED
      BY <3>2, <1>c
  <2>3. CASE Goto(t, "save")
    <3>1. pc'[t] = "save"
      BY <2>3, <1>e
    <3>2. MarkOf(t)'
      BY <2>0, <2>1, <3>1, <1>b, <1>d DEF MarkOf, SetPCs
    <3>3. QED
      BY <3>2, <1>c
  <2>4. QED
    BY <1>4, <2>2, <2>3 DEF ProbeErr
<1>5. CASE TickHeal(t)
  <2>1. /\ pc[t] = "heal" /\ pc'[t] \in {"decide", "save"}
        /\ UNCHANGED <<file, st>>
    BY <1>5, <1>e DEF TickHeal
  <2>2. MarkOf(t)'
    BY <2>1, <1>b, <1>d DEF MarkOf, SetPCs
  <2>3. QED
    BY <2>2, <1>c
<1>6. CASE TickDecide(t)
  <2> DEFINE act == HealAction(view[t][1], view[t][2], cfg)
  <2>0. pc[t] = "decide" /\ UNCHANGED <<file, st>>
    BY <1>6 DEF TickDecide
  <2>1. act \in {AutoOut, Hy2Out, NoHeal}
    BY ZenonT(20) DEF HealAction
  <2>2. CASE act # NoHeal /\ Call(t, "heal", act)
    <3>1. pc'[t] = "load" /\ target'[t] # SshOut /\ site'[t] = "heal"
      BY <2>1, <2>2, <1>f DEF Sites, Tags, AutoOut, Hy2Out, SshOut
    <3>2. MarkOf(t)'
      BY <2>0, <3>1, <1>a, <1>b, <1>d DEF MarkOf
    <3>3. QED
      BY <3>2, <1>c
  <2>3. CASE Goto(t, "save")
    <3>1. pc'[t] = "save"
      BY <2>3, <1>e
    <3>2. MarkOf(t)'
      BY <2>0, <3>1, <1>b, <1>d DEF MarkOf, SetPCs
    <3>3. QED
      BY <3>2, <1>c
  <2>4. QED
    BY <1>6, <2>2, <2>3 DEF TickDecide
<1>7. CASE TickStop(t) \/ TickStart(t)
  <2>1. /\ pc[t] \in {"restart", "start"} /\ pc'[t] \in {"start", "save"}
        /\ UNCHANGED <<file, st>>
    BY <1>7, <1>e DEF TickStop, TickStart, guardVars
  <2>2. MarkOf(t)'
    BY <2>1, <1>b, <1>d DEF MarkOf, SetPCs
  <2>3. QED
    BY <2>2, <1>c
<1>8. CASE TickSave(t)
  <2>1. pc[t] = "save" /\ pc'[t] = "idle"
    BY <1>8, <1>e DEF TickSave
  <2>2. GuardChoseSsh' => file'.frozen
    <3>1. CASE file' = st[t]
      BY <2>1, <3>1, <1>b, <1>d DEF MarkOf
    <3>2. CASE Strike("stwrite")
      BY <3>2 DEF GuardChoseSsh, Strike
    <3>3. QED
      BY <1>8, <3>1, <3>2 DEF TickSave
  <2>3. MarkOf(t)'
    BY <2>1, <2>2 DEF MarkOf, SetPCs
  <2>4. QED
    BY <2>3, <1>c
<1>9. QED
  BY <1>1, <1>2, <1>3, <1>4, <1>5, <1>6, <1>7, <1>8 DEF TickStep

LEMMA MarkStep ==
    ASSUME Serial, TypeOK, ConfigInv, MarkInv, [Next]_vars
    PROVE  MarkInv'
<1>1. CASE BoxStep /\ UNCHANGED <<switchVars, guardVars>>
  BY <1>1, BoxStepBoots, MarkQuiet DEF BootsFromConfig, switchVars, guardVars, history
<1>2. CASE \E p \in Procs : SelectorStep(p) /\ UNCHANGED guardVars
  BY <1>2, MarkSelectorStep
<1>3. CASE \E t \in Ticks : TickStep(t)
  BY <1>3, MarkTickStep
<1>4. CASE \E u \in Users : GnpcStop(u) \/ GnpcStart(u)
  <2>1. UNCHANGED <<pc, target, site, st, cfg, owner, file>> /\ seen \subseteq seen'
    BY <1>4, StartBoots
       DEF GnpcStop, GnpcStart, Stop, NoFault, Strike, faultVars, BootsFromConfig,
           switchVars, guardVars, history
  <2>2. QED
    BY <2>1, MarkQuiet
<1>5. ASSUME NEW u \in Users, NEW tag \in Tags, ManualSwitch(u, tag) PROVE MarkInv'
  <2>1. /\ u \in Procs /\ u \notin Ticks /\ pc'[u] = "load" /\ site'[u] = "manual"
        /\ UNCHANGED <<file, st, cfg, owner, seen>>
    BY <1>5, ProcAssumption
       DEF ManualSwitch, Call, Procs, TypeOK, ControlTypeOK, guardVars, boxVars,
           faultVars, history
  <2>2. Alone(u) /\ MarkOf(u)
    BY <1>5, <2>1, ManualAlone, MarkAlone
  <2>3. MarkOf(u)'
    BY <2>1, <2>2 DEF MarkOf, GuardChoseSsh
  <2>4. QED
    BY <2>1, <2>2, <2>3, MarkAlone
<1>6. ASSUME NEW p \in Procs, Kill(p) PROVE MarkInv'
  <2>1. "kill" \in seen' /\ pc'[p] = "idle"
    BY <1>6 DEF Kill, Strike, Leave, TypeOK, ControlTypeOK
  <2>2. MarkOf(p)'
    BY <2>1 DEF MarkOf, SetPCs, GuardChoseSsh
  <2>3. QED
    BY <1>6, <2>2, KillAlone, MarkAlone DEF ConfigInv
<1>7. CASE BackoffElapses
  <2>1. file'.frozen = file.frozen
    BY <1>7 DEF BackoffElapses, TypeOK, GuardTypeOK, GuardStates
  <2>2. QED
    BY <1>7, <2>1, MarkQuiet DEF BackoffElapses, boxVars, faultVars, switchVars, history
<1>8. CASE UNCHANGED vars
  BY <1>8, MarkQuiet DEF vars, boxVars, faultVars, switchVars, guardVars, history
<1>9. QED
  BY <1>1, <1>2, <1>3, <1>4, <1>5, <1>6, <1>7, <1>8 DEF Next

(***************************************************************************)
(* "Account first, then act", as far as it is true: without overlap, an    *)
(* ssh-out that the guard chose is always marked frozen at rest, so that a *)
(* successful probe undoes it, whatever else failed (clash_api, systemctl, *)
(* sing-box itself), unless a fault hit a file or killed a process.        *)
(***************************************************************************)
THEOREM FreezeAccounted == ASSUME Serial PROVE Spec => []FreezeIsAccounted
<1>1. Init => MarkInv
  BY DEF Init, BoxInit, SwitchInit, MarkInv, FreezeArgs, MarkSurvives, MarkHeld,
         GuardChoseSsh, SetPCs, AutoOut, SshOut
<1>2. TypeOK /\ ConfigInv /\ MarkInv /\ [Next]_vars => MarkInv'
  BY MarkStep
<1>3. MarkInv => FreezeIsAccounted
  <2> SUFFICES ASSUME MarkInv, AllIdle, GuardChoseSsh PROVE file.frozen
    BY DEF FreezeIsAccounted, GuardChoseSsh
  <2>1. QED
    BY DEF MarkInv, MarkSurvives, AllIdle, Procs
<1>4. QED
  BY <1>1, <1>2, <1>3, TypeCorrect, ConfigInductive, PTL DEF Spec
=============================================================================
