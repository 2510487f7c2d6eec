------------------------- MODULE Guard_history_proofs -------------------------
(***************************************************************************)
(* Proofs about the claims of a guard without overlap (Serial) that reach  *)
(* back in time: what a freeze has behind it, whose choice the healing may *)
(* replace, and that guard-state.json is an atomic failure detector.       *)
(***************************************************************************)
EXTENDS Guard_serial_proofs

-----------------------------------------------------------------------------
(* A tick's switches are never taken for manual ones. *)

TickSites == \A t \in Ticks : pc[t] \in SetPCs => site[t] # "manual"

LEMMA GotoMoves ==
    ASSUME TypeOK, NEW p \in Procs, NEW label, Goto(p, label)
    PROVE  pc'[p] = label /\ site'[p] = site[p] /\ target'[p] = target[p]
BY DEF Goto, TypeOK, ControlTypeOK

LEMMA CallMoves ==
    ASSUME TypeOK, NEW p \in Procs, NEW s, NEW tag, Call(p, s, tag)
    PROVE  pc'[p] = "load" /\ site'[p] = s /\ target'[p] = tag
BY DEF Call, TypeOK, ControlTypeOK

\* A step inside set_selector goes on in it or returns to its caller.
LEMMA SelectorMoves ==
    ASSUME TypeOK, NEW p \in Procs, SelectorStep(p)
    PROVE  /\ pc[p] \in SetPCs
           /\ \/ pc'[p] \in SetPCs /\ site'[p] = site[p]
              \/ /\ pc'[p] = After(site[p])
                 /\ pc'[p] \in {"idle", "heal", "save", "restart"}
<1>1. \/ \E label \in SetPCs : Goto(p, label)
      \/ ReturnOk(p) \/ ReturnErr(p)
  BY DEF SelectorStep, SetLoad, SetOpen, SetWrite, SetPut, SetFallback, SetPCs
<1>2. QED
  BY <1>1, SelectorStays, GotoMoves, ReturnLeaves

\* What a tick's own step may call.
LEMMA TickCalls ==
    ASSUME TypeOK, NEW t \in Ticks, TickStep(t)
    PROVE  \/ pc'[t] = "load" /\ site'[t] \in {"unfreeze", "freeze", "heal"}
           \/ pc'[t] \notin SetPCs
<1>a. t \in Procs
  BY DEF Procs
<1>1. CASE \/ TickBegin(t) \/ TickAlive(t) \/ TickHeal(t) \/ TickStop(t)
           \/ TickStart(t) \/ TickSave(t)
  <2>1. \E label \in {"alive", "probe", "idle", "save", "decide", "start"} : Goto(t, label)
    BY <1>1 DEF TickBegin, TickAlive, TickHeal, TickStop, TickStart, TickSave
  <2>2. QED
    BY <2>1, <1>a, GotoMoves DEF SetPCs
<1>2. CASE ProbeOk(t) \/ ProbeErr(t) \/ TickDecide(t)
  <2>1. \/ Goto(t, "heal") \/ Goto(t, "save")
        \/ \E s \in {"unfreeze", "freeze", "heal"} : \E tag : Call(t, s, tag)
    BY <1>2 DEF ProbeOk, ProbeErr, TickDecide
  <2>2. QED
    BY <2>1, <1>a, GotoMoves, CallMoves DEF SetPCs
<1>3. QED
  BY <1>1, <1>2 DEF TickStep

LEMMA TickSitesStep ==
    ASSUME Serial, TypeOK, OneRunning, TickSites, [Next]_vars
    PROVE  TickSites'
<1>a. \A t \in Ticks : t \in Procs
  BY DEF Procs
<1>1. CASE \/ BoxStep /\ UNCHANGED <<switchVars, guardVars>>
           \/ \E u \in Users : GnpcStop(u) \/ GnpcStart(u)
           \/ BackoffElapses
           \/ UNCHANGED vars
  BY <1>1 DEF GnpcStop, GnpcStart, BackoffElapses, vars, switchVars, TickSites
<1>2. ASSUME NEW p \in Procs, SelectorStep(p) PROVE TickSites'
  <2>1. Alone(p)
    BY <1>2, SelectorAlone
  <2>2. p \in Ticks => pc'[p] \notin SetPCs \/ site'[p] # "manual"
    BY <1>2, SelectorMoves DEF TickSites, SetPCs
  <2>3. QED
    BY <2>1, <2>2, <1>a DEF Alone, TickSites, SetPCs
<1>3. ASSUME NEW t \in Ticks, TickStep(t) PROVE TickSites'
  BY <1>3, <1>a, TickAlone, TickCalls DEF Alone, TickSites, SetPCs
<1>4. ASSUME NEW u \in Users, NEW tag \in Tags, ManualSwitch(u, tag) PROVE TickSites'
  BY <1>4, <1>a, ProcAssumption, ManualAlone DEF Alone, TickSites, SetPCs
<1>5. ASSUME NEW p \in Procs, Kill(p) PROVE TickSites'
  <2>1. \A t \in Ticks : pc'[t] = "idle"
    BY <1>5, <1>a, KillAlone DEF Alone, Kill, Leave, TypeOK, ControlTypeOK
  <2>2. QED
    BY <2>1 DEF TickSites, SetPCs
<1>6. QED
  BY <1>1, <1>2, <1>3, <1>4, <1>5 DEF Next

-----------------------------------------------------------------------------
(* guard-state.json holds the number of failed probes in a row.  Between   *)
(* the probe and the save only the tick's memory does.                     *)

Clean == seen \cap {"kill", "stwrite"} = {}

\* Before the probe, and when no tick runs, the file has the count ...
CountSaved ==
    (\A t \in Ticks : pc[t] \in {"idle", "alive", "probe"}) => file.failures = streak

\* ... and a running tick always has it ...
CountHeld == \A t \in Ticks : pc[t] # "idle" => st[t].failures = streak

\* ... which is full in every step of a freeze.
FreezeCounted ==
    \A t \in Ticks : pc[t] \in SetPCs /\ site[t] = "freeze" => streak = FreezeAfter

StreakInv == Clean => CountSaved /\ CountHeld /\ FreezeCounted

\* The same for the one tick that is running.
StreakOf(t) ==
    /\ pc[t] \in {"idle", "alive", "probe"} => file.failures = streak
    /\ pc[t] # "idle" => st[t].failures = streak
    /\ pc[t] \in SetPCs /\ site[t] = "freeze" => streak = FreezeAfter

LEMMA StreakAlone ==
    ASSUME NEW t \in Ticks, Alone(t)
    PROVE  /\ StreakInv /\ Clean => StreakOf(t)
           /\ (Clean' => StreakOf(t)') => StreakInv'
<1>a. \A u \in Ticks : u \in Procs
  BY DEF Procs
<1>1. ASSUME StreakInv, Clean PROVE StreakOf(t)
  BY <1>1, <1>a DEF Alone, StreakInv, CountSaved, CountHeld, FreezeCounted, StreakOf
<1>2. ASSUME Clean' => StreakOf(t)' PROVE StreakInv'
  <2> SUFFICES ASSUME Clean' PROVE (CountSaved /\ CountHeld /\ FreezeCounted)'
    BY DEF StreakInv
  <2>1. CountSaved'
    BY <1>2 DEF StreakOf, CountSaved
  <2>2. CountHeld'
    BY <1>2, <1>a DEF Alone, StreakOf, CountHeld
  <2>3. FreezeCounted'
    BY <1>2, <1>a DEF Alone, StreakOf, FreezeCounted, SetPCs
  <2>4. QED
    BY <2>1, <2>2, <2>3
<1>3. QED
  BY <1>1, <1>2

LEMMA StreakQuiet ==
    ASSUME StreakInv, UNCHANGED <<pc, site, st, streak>>, seen \subseteq seen',
           file'.failures = file.failures
    PROVE  StreakInv'
BY DEF StreakInv, Clean, CountSaved, CountHeld, FreezeCounted

\* A tick touches config.json only inside set_selector.
LEMMA TickBoots ==
    ASSUME NEW t \in Ticks, TickStep(t)
    PROVE  BootsFromConfig /\ UNCHANGED <<pin, owner>>
<1>1. CASE TickAlive(t) \/ TickStart(t)
  BY <1>1, StartBoots
     DEF TickAlive, TickStart, NoFault, faultVars, history, BootsFromConfig
<1>2. CASE TickBegin(t) \/ ProbeOk(t) \/ TickDecide(t)
  BY <1>2 DEF TickBegin, ProbeOk, TickDecide, boxVars, faultVars, history, BootsFromConfig
<1>3. CASE ProbeErr(t) \/ TickHeal(t) \/ TickStop(t) \/ TickSave(t)
  BY <1>3 DEF ProbeErr, TickHeal, TickStop, Stop, TickSave, NoFault, Strike, faultVars,
              history, BootsFromConfig
<1>4. QED
  BY <1>1, <1>2, <1>3 DEF TickStep

LEMMA SeenGrows == ASSUME [Next]_vars PROVE seen \subseteq seen'
<1>1. CASE BoxStep \/ BackoffElapses \/ UNCHANGED vars
  BY <1>1, BoxStepBoots
     DEF BootsFromConfig, BackoffElapses, vars, boxVars, faultVars
<1>2. ASSUME NEW p \in Procs, SelectorStep(p) PROVE seen \subseteq seen'
  BY <1>2, StartBoots
     DEF SelectorStep, SetLoad, SetOpen, SetWrite, SetPut, SetFallback, Strike, NoFault,
         boxVars, faultVars, BootsFromConfig
<1>3. CASE \E t \in Ticks : TickStep(t)
  BY <1>3, TickBoots DEF BootsFromConfig
<1>4. CASE \E u \in Users : GnpcStop(u) \/ GnpcStart(u)
  BY <1>4, StartBoots
     DEF GnpcStop, GnpcStart, Stop, NoFault, Strike, faultVars, BootsFromConfig
<1>5. CASE \/ \E u \in Users, tag \in Tags : ManualSwitch(u, tag)
           \/ \E p \in Procs : Kill(p)
  BY <1>5 DEF ManualSwitch, Kill, Strike, boxVars, faultVars
<1>6. QED
  BY <1>1, <1>2, <1>3, <1>4, <1>5 DEF Next

LEMMA StreakSelectorStep ==
    ASSUME TypeOK, OneRunning, TickSites, StreakInv, NEW p \in Procs, SelectorStep(p),
           UNCHANGED guardVars, seen \subseteq seen'
    PROVE  StreakInv'
<1>a. /\ Alone(p) /\ UNCHANGED <<file, st, streak>>
      /\ Clean' => Clean
      /\ \A t \in Ticks : t \in Procs
  BY SelectorAlone DEF guardVars, Clean, Procs
<1>1. CASE p \in Ticks
  <2>1. Clean => StreakOf(p)
    BY <1>1, <1>a, StreakAlone
  <2>2. site[p] # "manual"
    BY <1>1, SelectorStays DEF TickSites
  <2>3. After(site[p]) # "idle"
    BY <2>2, <1>a DEF After, TypeOK, ControlTypeOK, Sites
  <2>4. \/ pc'[p] \in SetPCs /\ pc[p] \in SetPCs /\ site'[p] = site[p]
        \/ pc[p] \in SetPCs /\ pc'[p] \in {"heal", "save", "restart"}
    BY <2>3, SelectorMoves
  <2>5. Clean' => StreakOf(p)'
    BY <2>1, <2>4, <1>a DEF StreakOf, SetPCs
  <2>6. QED
    BY <2>5, <1>1, <1>a, StreakAlone
<1>2. CASE p \notin Ticks
  <2>1. \A t \in Ticks : pc[t] = "idle" /\ pc'[t] = "idle"
    BY <1>2, <1>a DEF Alone
  <2>2. QED
    BY <2>1, <1>a DEF StreakInv, CountSaved, CountHeld, FreezeCounted, SetPCs
<1>3. QED
  BY <1>1, <1>2

LEMMA StreakTickStep ==
    ASSUME Serial, TypeOK, OneRunning, StreakInv, NEW t \in Ticks, TickStep(t),
           seen \subseteq seen'
    PROVE  StreakInv'
<1>a. /\ t \in Procs /\ Alone(t)
      /\ Clean' => Clean
      /\ st \in [Ticks -> GuardStates]
      /\ file \in GuardStates /\ streak \in 0..FreezeAfter
  BY TickAlone DEF Clean, Procs, TypeOK, GuardTypeOK
<1>b. Clean => StreakOf(t)
  BY <1>a, StreakAlone
<1>c. SUFFICES ASSUME Clean' PROVE StreakOf(t)'
  BY <1>a, StreakAlone
<1>d. Clean /\ StreakOf(t)
  BY <1>a, <1>b, <1>c
<1>1. CASE TickBegin(t)
  <2>1. AllIdle /\ file' = file /\ streak' = streak /\ pc[t] = "idle" /\ pc'[t] = "alive"
    BY <1>1, <1>a, GotoMoves DEF TickBegin, MayStart
  <2>2. st'[t] = file
    BY <1>1, <1>a, <2>1 DEF TickBegin, AllIdle, Procs
  <2>3. QED
    BY <2>1, <2>2, <1>d DEF StreakOf, SetPCs
<1>2. CASE TickAlive(t)
  <2>1. /\ pc[t] = "alive" /\ pc'[t] \in {"save", "probe", "idle"}
        /\ UNCHANGED <<file, st, streak>>
    BY <1>2, <1>a, GotoMoves DEF TickAlive, guardVars
  <2>2. QED
    BY <2>1, <1>d DEF StreakOf, SetPCs
<1>3. CASE ProbeOk(t)
  <2>1. /\ (pc'[t] = "load" /\ site'[t] = "unfreeze") \/ pc'[t] = "heal"
        /\ streak' = 0 /\ st'[t].failures = 0
    BY <1>3, <1>a, GotoMoves, CallMoves DEF ProbeOk, Healthy
  <2>2. QED
    BY <2>1 DEF StreakOf, SetPCs
<1>4. CASE ProbeErr(t)
  <2>1. /\ st[t].failures = streak /\ streak' = Bump(streak)
        /\ st'[t] = Failed(st[t])
    BY <1>4, <1>a, <1>d DEF ProbeErr, StreakOf
  <2>2. st'[t].failures = streak'
    BY <2>1 DEF Failed
  <2>3. CASE /\ Failed(st[t]).frozen /\ ~st[t].frozen
             /\ Call(t, "freeze", SshOut)
    <3>1. Bump(streak) >= FreezeAfter
      BY <2>1, <2>3 DEF Failed
    <3>2. streak' = FreezeAfter
      BY <2>1, <3>1, <1>a, GuardAssumption DEF Bump
    <3>3. QED
      BY <2>2, <2>3, <3>2, <1>a, CallMoves DEF StreakOf
  <2>4. CASE Goto(t, "save")
    BY <2>2, <2>4, <1>a, GotoMoves DEF StreakOf, SetPCs
  <2>5. QED
    BY <1>4, <2>3, <2>4 DEF ProbeErr
<1>5. CASE TickHeal(t) \/ TickStop(t) \/ TickStart(t)
  <2>1. /\ pc[t] # "idle" /\ pc'[t] \in {"decide", "save", "start"}
        /\ UNCHANGED <<file, st, streak>>
    BY <1>5, <1>a, GotoMoves DEF TickHeal, TickStop, TickStart, guardVars
  <2>2. QED
    BY <2>1, <1>d DEF StreakOf, SetPCs
<1>6. CASE TickDecide(t)
  <2>1. /\ pc[t] # "idle" /\ UNCHANGED <<file, st, streak>>
        /\ (pc'[t] = "load" /\ site'[t] = "heal") \/ pc'[t] = "save"
    BY <1>6, <1>a, GotoMoves, CallMoves DEF TickDecide
  <2>2. QED
    BY <2>1, <1>d DEF StreakOf, SetPCs
<1>7. CASE TickSave(t)
  <2>1. pc[t] = "save" /\ pc'[t] = "idle" /\ streak' = streak
    BY <1>7, <1>a, GotoMoves DEF TickSave
  <2>2. ~Strike("stwrite")
    BY <1>c DEF Strike, Clean
  <2>3. file' = st[t]
    BY <1>7, <2>2 DEF TickSave
  <2>4. QED
    BY <2>1, <2>3, <1>d DEF StreakOf, SetPCs
<1>8. QED
  BY <1>1, <1>2, <1>3, <1>4, <1>5, <1>6, <1>7 DEF TickStep

LEMMA StreakStep ==
    ASSUME Serial, TypeOK, OneRunning, TickSites, StreakInv, [Next]_vars
    PROVE  StreakInv'
<1>a. seen \subseteq seen' /\ \A t \in Ticks : t \in Procs
  BY SeenGrows DEF Procs
<1>1. CASE \/ BoxStep /\ UNCHANGED <<switchVars, guardVars>>
           \/ \E u \in Users : GnpcStop(u) \/ GnpcStart(u)
           \/ UNCHANGED vars
  BY <1>1, <1>a, StreakQuiet DEF GnpcStop, GnpcStart, vars, switchVars, guardVars
<1>2. CASE \E p \in Procs : SelectorStep(p) /\ UNCHANGED guardVars
  BY <1>2, <1>a, StreakSelectorStep
<1>3. CASE \E t \in Ticks : TickStep(t)
  BY <1>3, <1>a, StreakTickStep
<1>4. ASSUME NEW u \in Users, NEW tag \in Tags, ManualSwitch(u, tag) PROVE StreakInv'
  <2>1. \A t \in Ticks : pc[t] = "idle" /\ pc'[t] = "idle"
    BY <1>4, <1>a, ManualAlone, ProcAssumption DEF Alone
  <2>2. UNCHANGED <<file, st, streak, seen>>
    BY <1>4 DEF ManualSwitch, guardVars, boxVars, faultVars
  <2>3. QED
    BY <2>1, <2>2 DEF StreakInv, Clean, CountSaved, CountHeld, FreezeCounted, SetPCs
<1>5. CASE \E p \in Procs : Kill(p)
  BY <1>5 DEF Kill, Strike, StreakInv, Clean
<1>6. CASE BackoffElapses
  <2>1. file'.failures = file.failures
    BY <1>6 DEF BackoffElapses, TypeOK, GuardTypeOK, GuardStates
  <2>2. QED
    BY <1>6, <1>a, <2>1, StreakQuiet DEF BackoffElapses, switchVars
<1>7. QED
  BY <1>1, <1>2, <1>3, <1>4, <1>5, <1>6 DEF Next

(***************************************************************************)
(* Without overlap a freeze always has FreezeAfter failed probes in a row  *)
(* behind it, for every threshold, whatever else fails: only a tick that   *)
(* died or lost its save after a success can make the count stale.         *)
(***************************************************************************)
THEOREM FreezeHasStreak == ASSUME Serial PROVE Spec => []FreezeNeedsStreak
<1>1. Init => TickSites /\ StreakInv
  BY DEF Init, SwitchInit, Default, TickSites, StreakInv, CountSaved, CountHeld,
         FreezeCounted, SetPCs, Procs
<1>2. TypeOK /\ ConfigInv /\ TickSites /\ StreakInv /\ [Next]_vars
        => (TickSites /\ StreakInv)'
  BY TickSitesStep, StreakStep DEF ConfigInv
<1>3. StreakInv => FreezeNeedsStreak
  BY DEF StreakInv, Clean, FreezeCounted, FreezeNeedsStreak, SetPCs
<1>4. QED
  BY <1>1, <1>2, <1>3, TypeCorrect, ConfigInductive, PTL DEF Spec

-----------------------------------------------------------------------------
(* While a manual choice stands in the config, sing-box runs it, and what  *)
(* a tick saw of the selector is that choice.                              *)

\* The last manual choice is still what the config says.
Pinned == owner = "user" /\ pin \in {Hy2Out, SshOut} /\ cfg = pin

\* The pin is gone while a manual switch runs, and set when it succeeded.
NoPinInSwitch == \A u \in Users : pc[u] # "idle" => pin = NoPin

\* From its write on, a tick's switch is the guard's choice.
GuardWrote == \A t \in Ticks : pc[t] \in {"put", "fallback"} => owner = "guard"

PinInHot == Pinned /\ svc = "active" => hot = pin

PinInView == \A t \in Ticks : pc[t] = "decide" /\ Pinned => view[t][1] = pin

\* Only a selector that left the pinned choice is healed.
HealSparesPin ==
    \A t \in Ticks : pc[t] \in {"load", "open"} /\ site[t] = "heal" => ~Pinned

PinInv ==
    /\ NoPinInSwitch
    /\ GuardWrote
    /\ PinInHot
    /\ PinInView
    /\ HealSparesPin

\* The same for the one process that is running.
PinOf(p) ==
    /\ p \in Users /\ pc[p] # "idle" => pin = NoPin
    /\ p \in Ticks /\ pc[p] \in {"put", "fallback"} => owner = "guard"
    /\ Pinned /\ svc = "active" => hot = pin
    /\ p \in Ticks /\ pc[p] = "decide" /\ Pinned => view[p][1] = pin
    /\ p \in Ticks /\ pc[p] \in {"load", "open"} /\ site[p] = "heal" => ~Pinned

LEMMA PinAlone ==
    ASSUME NEW p \in Procs, Alone(p)
    PROVE  (PinInv => PinOf(p)) /\ (PinOf(p)' => PinInv')
<1>a. Ticks \subseteq Procs /\ Users \subseteq Procs
  BY DEF Procs
<1>1. PinInv => PinOf(p)
  BY DEF PinInv, NoPinInSwitch, GuardWrote, PinInHot, PinInView, HealSparesPin, PinOf
<1>2. ASSUME PinOf(p)' PROVE PinInv'
  <2>1. NoPinInSwitch' /\ GuardWrote' /\ PinInHot'
    BY <1>2, <1>a DEF Alone, PinOf, NoPinInSwitch, GuardWrote, PinInHot
  <2>2. PinInView' /\ HealSparesPin'
    BY <1>2, <1>a DEF Alone, PinOf, PinInView, HealSparesPin
  <2>3. QED
    BY <2>1, <2>2 DEF PinInv
<1>3. QED
  BY <1>1, <1>2

LEMMA PinQuiet ==
    ASSUME PinInv, BootsFromConfig, UNCHANGED <<pc, site, view, pin, owner>>
    PROVE  PinInv'
BY DEF PinInv, NoPinInSwitch, GuardWrote, PinInHot, PinInView, HealSparesPin, Pinned,
       BootsFromConfig

LEMMA PinSelectorStep ==
    ASSUME TypeOK, ConfigInv, TickSites, PinInv, NEW p \in Procs, SelectorStep(p),
           UNCHANGED guardVars
    PROVE  PinInv'
<1>a. /\ Alone(p) /\ ConfigOf(p) /\ PinOf(p) /\ pc[p] \in SetPCs
      /\ p \in Ticks => site[p] # "manual"
  BY SelectorAlone, SelectorStays, ConfigAlone, PinAlone DEF ConfigInv, TickSites
<1>b. SUFFICES PinOf(p)'
  BY <1>a, PinAlone
<1>c. \/ pc'[p] \in SetPCs /\ site'[p] = site[p]
      \/ pc'[p] \in {"idle", "heal", "save", "restart"}
  BY SelectorMoves
<1>d. p \in Ticks => p \notin Users
  BY ProcAssumption
<1>e. ASSUME ReturnOk(p) \/ ReturnErr(p)
      PROVE  /\ pc'[p] \in {"idle", "heal", "save", "restart"}
             /\ p \in Ticks => pin' = pin
             /\ p \in Users /\ pc'[p] # "idle" => pin' = pin
             /\ pin' = pin \/ pin' = target[p]
  <2>1. pin' = pin \/ (site[p] = "manual" /\ pin' = target[p])
    BY <1>e DEF ReturnOk, ReturnErr
  <2>2. pc'[p] = After(site[p]) /\ pc'[p] \in {"idle", "heal", "save", "restart"}
    BY <1>e, ReturnLeaves
  <2>3. After("manual") = "idle"
    BY DEF After
  <2>4. QED
    BY <2>1, <2>2, <2>3, <1>a
<1>1. CASE SetLoad(p)
  <2>0. pc[p] = "load" /\ UNCHANGED <<cfg, svc, hot, owner>>
    BY <1>1 DEF SetLoad, boxVars, history
  <2>1. CASE Goto(p, "open") /\ UNCHANGED pin
    <3>1. pc'[p] = "open" /\ site'[p] = site[p]
      BY <2>1, GotoMoves
    <3>2. QED
      BY <2>0, <2>1, <3>1, <1>a DEF PinOf, Pinned
  <2>2. CASE ~Readable(cfg) /\ ReturnErr(p)
    <3>1. ~Pinned'
      BY <2>0, <2>2 DEF Pinned, Readable, Tags
    <3>2. pin' = pin
      BY <2>2 DEF ReturnErr
    <3>3. QED
      BY <2>0, <2>2, <3>1, <3>2, <1>a, <1>e DEF PinOf
  <2>3. QED
    BY <1>1, <2>1, <2>2 DEF SetLoad
<1>2. CASE SetOpen(p)
  <2>0. pc[p] = "open" /\ UNCHANGED <<svc, hot, owner, pin>>
    BY <1>2 DEF SetOpen, history, ReturnErr
  <2>1. CASE cfg' = Empty /\ Goto(p, "write")
    <3>1. ~Pinned'
      BY <2>1 DEF Pinned, Empty, Hy2Out, SshOut
    <3>2. pc'[p] = "write"
      BY <2>1, GotoMoves
    <3>3. QED
      BY <2>0, <3>1, <3>2, <1>a DEF PinOf
  <2>2. CASE UNCHANGED cfg /\ ReturnErr(p)
    BY <2>0, <2>2, <1>a, <1>e DEF PinOf, Pinned
  <2>3. QED
    BY <1>2, <2>1, <2>2 DEF SetOpen
<1>3. CASE SetWrite(p)
  <2>0. pc[p] = "write" /\ UNCHANGED <<svc, hot, pin>>
    BY <1>3 DEF SetWrite, ReturnErr
  <2>1. CASE /\ owner' = IF site[p] = "manual" THEN "user" ELSE "guard"
             /\ Goto(p, "put")
    <3>1. pc'[p] = "put"
      BY <2>1, GotoMoves
    <3>2. p \in Ticks => owner' = "guard"
      BY <2>1, <1>a
    <3>3. p \in Users => pin' = NoPin
      BY <2>0, <1>a DEF PinOf
    <3>4. ~Pinned'
      BY <3>2, <3>3 DEF Pinned, Procs, NoPin, Hy2Out, SshOut
    <3>5. QED
      BY <3>1, <3>2, <3>3, <3>4 DEF PinOf
  <2>2. CASE ReturnErr(p) /\ UNCHANGED <<cfg, history>>
    BY <2>0, <2>2, <1>a, <1>e DEF PinOf, Pinned, history
  <2>3. QED
    BY <1>3, <2>1, <2>2 DEF SetWrite
<1>4. CASE SetPut(p)
  <2>0. pc[p] = "put" /\ UNCHANGED <<cfg, svc, owner>> /\ cfg = target[p]
    BY <1>4, <1>a DEF SetPut, history, ConfigOf
  <2>1. CASE hot' = target[p] /\ ReturnOk(p)
    BY <2>0, <2>1, <1>a, <1>d, <1>e DEF PinOf, Pinned
  <2>2. CASE Goto(p, "fallback") /\ UNCHANGED pin /\ hot' \in {hot, target[p]}
    <3>1. pc'[p] = "fallback"
      BY <2>2, GotoMoves
    <3>2. QED
      BY <2>0, <2>2, <3>1, <1>a DEF PinOf, Pinned
  <2>3. QED
    BY <1>4, <2>1, <2>2 DEF SetPut
<1>5. CASE SetFallback(p)
  <2>0. /\ pc[p] = "fallback" /\ UNCHANGED <<cfg, owner>> /\ cfg = target[p]
        /\ ReturnOk(p) \/ ReturnErr(p)
    BY <1>5, <1>a DEF SetFallback, history, ConfigOf
  <2>1. CASE svc = "active" /\ ReturnErr(p) /\ UNCHANGED <<svc, hot>>
    BY <2>0, <2>1, <1>a, <1>e DEF PinOf, Pinned, ReturnErr
  <2>2. CASE svc # "active" /\ StartOk
    <3>1. svc' = "active" => hot' = cfg'
      BY <2>0, <2>2 DEF StartOk, Boot
    <3>2. QED
      BY <2>0, <3>1, <1>a, <1>e DEF PinOf, Pinned
  <2>3. CASE svc # "active" /\ StartErr /\ ReturnErr(p)
    BY <2>0, <2>3, <1>a, <1>e DEF PinOf, Pinned, ReturnErr, StartErr
  <2>4. QED
    BY <1>5, <2>1, <2>2, <2>3 DEF SetFallback
<1>6. QED
  BY <1>1, <1>2, <1>3, <1>4, <1>5 DEF SelectorStep

LEMMA PinTickStep ==
    ASSUME Serial, TypeOK, OneRunning, PinInv, NEW t \in Ticks, TickStep(t)
    PROVE  PinInv'
<1>a. /\ t \in Procs /\ t \notin Users /\ Alone(t) /\ PinOf(t)
      /\ BootsFromConfig /\ UNCHANGED <<pin, owner>>
      /\ view \in [Ticks -> Tags \X {Hy2Out, SshOut}]
  BY ProcAssumption, TickAlone, TickBoots, PinAlone DEF Procs, TypeOK, GuardTypeOK
<1>b. /\ Pinned' => Pinned
      /\ Pinned' /\ svc' = "active" => hot' = pin'
  BY <1>a DEF PinOf, Pinned, BootsFromConfig
<1>c. SUFFICES /\ pc'[t] \notin {"put", "fallback"}
               /\ pc'[t] = "decide" /\ Pinned' => view'[t][1] = pin'
               /\ pc'[t] \in {"load", "open"} /\ site'[t] = "heal" => ~Pinned'
  BY <1>a, <1>b, PinAlone DEF PinOf
<1>1. CASE \/ TickBegin(t) \/ TickAlive(t) \/ TickStop(t) \/ TickStart(t)
           \/ TickSave(t)
  <2>1. \E label \in {"alive", "probe", "idle", "save", "start"} : Goto(t, label)
    BY <1>1 DEF TickBegin, TickAlive, TickStop, TickStart, TickSave
  <2>2. QED
    BY <2>1, <1>a, GotoMoves
<1>2. CASE ProbeOk(t) \/ ProbeErr(t)
  <2>1. \/ Goto(t, "heal") \/ Goto(t, "save")
        \/ \E s \in {"unfreeze", "freeze"} : \E tag : Call(t, s, tag)
    BY <1>2 DEF ProbeOk, ProbeErr
  <2>2. QED
    BY <2>1, <1>a, GotoMoves, CallMoves
<1>3. CASE TickHeal(t)
  <2>1. CASE /\ svc = "active"
             /\ view' = [view EXCEPT ![t] = <<hot, urltest>>]
             /\ Goto(t, "decide")
    <3>1. view'[t][1] = hot
      BY <2>1, <1>a
    <3>2. Pinned' => hot = pin'
      BY <2>1, <1>a, <1>b DEF PinOf
    <3>3. QED
      BY <2>1, <3>1, <3>2, <1>a, GotoMoves
  <2>2. CASE Goto(t, "save")
    BY <2>2, <1>a, GotoMoves
  <2>3. QED
    BY <1>3, <2>1, <2>2 DEF TickHeal
<1>4. CASE TickDecide(t)
  <2> DEFINE act == HealAction(view[t][1], view[t][2], cfg)
  <2>1. Pinned => act = NoHeal
    <3> SUFFICES ASSUME Pinned PROVE act = NoHeal
      OBVIOUS
    <3>1. view[t][1] = pin /\ cfg = pin /\ pin \in {Hy2Out, SshOut}
      BY <1>4, <1>a DEF TickDecide, PinOf, Pinned
    <3>2. cfg # AutoOut /\ view[t][1] # AutoOut
      BY <3>1 DEF AutoOut, Hy2Out, SshOut
    <3>3. QED
      BY <3>2, ZenonT(20) DEF HealAction
  <2>2. CASE act # NoHeal /\ Call(t, "heal", act)
    <3>1. ~Pinned'
      BY <2>1, <2>2, <1>b
    <3>2. pc'[t] = "load"
      BY <2>2, <1>a, CallMoves
    <3>3. QED
      BY <3>1, <3>2
  <2>3. CASE Goto(t, "save")
    BY <2>3, <1>a, GotoMoves
  <2>4. QED
    BY <1>4, <2>2, <2>3 DEF TickDecide
<1>5. QED
  BY <1>1, <1>2, <1>3, <1>4 DEF TickStep

LEMMA PinStep ==
    ASSUME Serial, TypeOK, ConfigInv, TickSites, PinInv, [Next]_vars
    PROVE  PinInv'
<1>1. CASE BoxStep /\ UNCHANGED <<switchVars, guardVars>>
  BY <1>1, BoxStepBoots, PinQuiet DEF switchVars, guardVars, history
<1>2. CASE \E p \in Procs : SelectorStep(p) /\ UNCHANGED guardVars
  BY <1>2, PinSelectorStep
<1>3. CASE \E t \in Ticks : TickStep(t)
  BY <1>3, PinTickStep DEF ConfigInv
<1>4. CASE \E u \in Users : GnpcStop(u) \/ GnpcStart(u)
  <2>1. BootsFromConfig
    BY <1>4, StartBoots
       DEF GnpcStop, GnpcStart, Stop, NoFault, Strike, faultVars, BootsFromConfig
  <2>2. UNCHANGED <<pc, site, view, pin, owner>>
    BY <1>4 DEF GnpcStop, GnpcStart, switchVars, guardVars, history
  <2>3. QED
    BY <2>1, <2>2, PinQuiet
<1>5. ASSUME NEW u \in Users, NEW tag \in Tags, ManualSwitch(u, tag) PROVE PinInv'
  <2>1. u \in Procs /\ u \notin Ticks /\ Alone(u) /\ pin' = NoPin
    BY <1>5, ProcAssumption, ManualAlone DEF Procs, ManualSwitch
  <2>2. ~Pinned'
    BY <2>1 DEF Pinned, NoPin, Hy2Out, SshOut
  <2>3. QED
    BY <2>1, <2>2, PinAlone DEF PinOf
<1>6. ASSUME NEW p \in Procs, Kill(p) PROVE PinInv'
  <2>1. pc'[p] = "idle" /\ UNCHANGED <<cfg, svc, hot, pin, owner>>
    BY <1>6 DEF Kill, Leave, TypeOK, ControlTypeOK, history
  <2>2. Alone(p) /\ PinOf(p)
    BY <1>6, KillAlone, PinAlone DEF ConfigInv
  <2>3. PinOf(p)'
    BY <2>1, <2>2 DEF PinOf, Pinned
  <2>4. QED
    BY <2>2, <2>3, PinAlone
<1>7. CASE BackoffElapses \/ UNCHANGED vars
  <2>1. BootsFromConfig /\ UNCHANGED <<pc, site, view, pin, owner>>
    BY <1>7 DEF BackoffElapses, vars, boxVars, faultVars, switchVars, guardVars, history,
                BootsFromConfig
  <2>2. QED
    BY <2>1, PinQuiet
<1>8. QED
  BY <1>1, <1>2, <1>3, <1>4, <1>5, <1>6, <1>7 DEF Next

(***************************************************************************)
(* Without overlap the healing never replaces a manual hy2 or ssh choice   *)
(* that still stands in the config, whatever sing-box, urltest, systemd    *)
(* and the path did since, and whichever calls failed.                     *)
(***************************************************************************)
THEOREM HealingSparesPin == ASSUME Serial PROVE Spec => []HealNeverOverridesPin
<1>1. Init => TickSites /\ PinInv
  <2>1. ASSUME Init PROVE \A p \in Procs : pc[p] = "idle"
    BY <2>1 DEF Init, SwitchInit
  <2>2. Init => ~Pinned
    BY DEF Init, SwitchInit, Pinned
  <2>3. QED
    BY <2>1, <2>2 DEF TickSites, PinInv, NoPinInSwitch, GuardWrote, PinInHot, PinInView,
                      HealSparesPin, SetPCs, Procs
<1>2. TypeOK /\ ConfigInv /\ TickSites /\ PinInv /\ [Next]_vars
        => (TickSites /\ PinInv)'
  BY TickSitesStep, PinStep DEF ConfigInv
<1>3. PinInv => HealNeverOverridesPin
  BY DEF PinInv, HealSparesPin, Pinned, HealNeverOverridesPin
<1>4. QED
  BY <1>1, <1>2, <1>3, TypeCorrect, ConfigInductive, PTL DEF Spec

-----------------------------------------------------------------------------
(***************************************************************************)
(* A tick changes the file at its end, several steps after it read it, so  *)
(* the refinement needs to know how what it holds relates to the file.     *)
(***************************************************************************)

\* The tick carries the file's own state, a reset one, or one more failure.
Same(s, s0) == s.failures = s0.failures /\ s.frozen = s0.frozen

Cleared(s) == s.failures = 0 /\ s.frozen = FALSE

Counts(s, s0) ==
    /\ s.failures = Bump(s0.failures)
    /\ s.frozen = (s0.frozen \/ Bump(s0.failures) >= FreezeAfter)

DetectorInv ==
    \A t \in Ticks :
        /\ pc[t] \in {"alive", "probe"} => Same(st[t], file)
        /\ pc[t] # "idle" =>
               Same(st[t], file) \/ Cleared(st[t]) \/ Counts(st[t], file)

LEMMA DetectorQuiet ==
    ASSUME DetectorInv, UNCHANGED <<pc, st>>,
           file'.failures = file.failures, file'.frozen = file.frozen
    PROVE  DetectorInv'
BY DEF DetectorInv, Same, Cleared, Counts

LEMMA DetectorSelectorStep ==
    ASSUME TypeOK, OneRunning, DetectorInv, NEW p \in Procs, SelectorStep(p),
           UNCHANGED guardVars
    PROVE  DetectorInv'
<1>1. pc[p] \in SetPCs /\ Alone(p)
  BY SelectorStays, SelectorAlone
<1>2. pc'[p] \notin {"alive", "probe"}
  <2>1. ASSUME NEW label, Goto(p, label) PROVE pc'[p] = label
    BY <2>1 DEF Goto, TypeOK, ControlTypeOK
  <2>2. QED
    BY <2>1, ReturnLeaves DEF SelectorStep, SetLoad, SetOpen, SetWrite, SetPut, SetFallback
<1>3. UNCHANGED <<file, st>>
  BY DEF guardVars
<1>4. \A t \in Ticks : t \in Procs
  BY DEF Procs
<1>5. ASSUME NEW t \in Ticks, pc'[t] # "idle" PROVE t = p /\ pc[t] # "idle"
  BY <1>1, <1>4, <1>5 DEF Alone, SetPCs
<1>6. QED
  BY <1>2, <1>3, <1>5 DEF DetectorInv, Same, Cleared, Counts

LEMMA DetectorTickStep ==
    ASSUME Serial, TypeOK, OneRunning, DetectorInv, NEW t \in Ticks, TickStep(t)
    PROVE  DetectorInv'
<1>a. /\ t \in Procs /\ Alone(t) /\ \A u \in Ticks : u \in Procs
      /\ pc \in [Procs -> {"idle"} \cup SetPCs \cup GuardPCs]
      /\ st \in [Ticks -> GuardStates]
  BY TickAlone DEF Procs, TypeOK, ControlTypeOK, GuardTypeOK
<1>b. /\ pc[t] \in {"alive", "probe"} => Same(st[t], file)
      /\ pc[t] # "idle" => Same(st[t], file) \/ Cleared(st[t]) \/ Counts(st[t], file)
  BY DEF DetectorInv
<1>c. ASSUME /\ pc'[t] \in {"alive", "probe"} => Same(st'[t], file')
             /\ pc'[t] # "idle" =>
                    Same(st'[t], file') \/ Cleared(st'[t]) \/ Counts(st'[t], file')
      PROVE  DetectorInv'
  BY <1>a, <1>c DEF Alone, DetectorInv, Same, Cleared, Counts
<1>d. ASSUME NEW label, Goto(t, label) PROVE pc'[t] = label
  BY <1>a, <1>d DEF Goto
<1>e. ASSUME NEW s, NEW tag, Call(t, s, tag) PROVE pc'[t] = "load"
  BY <1>a, <1>e DEF Call
<1>1. CASE TickBegin(t)
  <2>1. AllIdle /\ file' = file
    BY <1>1 DEF TickBegin, MayStart
  <2>2. st'[t] = file
    BY <1>1, <1>a, <2>1 DEF TickBegin, AllIdle
  <2>3. QED
    BY <2>1, <2>2, <1>c DEF Same
<1>2. CASE TickAlive(t)
  BY <1>2, <1>b, <1>c DEF TickAlive, guardVars
<1>3. CASE ProbeOk(t)
  <2>1. pc'[t] \in {"load", "heal"} /\ st'[t] = Healthy(st[t])
    BY <1>3, <1>a, <1>d, <1>e DEF ProbeOk
  <2>2. Cleared(st'[t])
    BY <2>1 DEF Cleared, Healthy
  <2>3. QED
    BY <2>1, <2>2, <1>c
<1>4. CASE ProbeErr(t)
  <2>1. pc'[t] \in {"load", "save"} /\ st'[t] = Failed(st[t]) /\ file' = file
    BY <1>4, <1>a, <1>d, <1>e DEF ProbeErr
  <2>2. st[t].failures = file.failures /\ st[t].frozen = file.frozen
    BY <1>4, <1>b DEF ProbeErr, Same
  <2>3. Counts(st'[t], file')
    <3>1. st'[t].failures = Bump(st[t].failures)
      BY <2>1 DEF Failed
    <3>2. st'[t].frozen = (st[t].frozen \/ Bump(st[t].failures) >= FreezeAfter)
      BY <2>1 DEF Failed
    <3>3. QED
      BY <2>1, <2>2, <3>1, <3>2 DEF Counts
  <2>4. QED
    BY <2>1, <2>3, <1>c
<1>5. CASE TickHeal(t) \/ TickStop(t) \/ TickStart(t)
  <2>1. /\ pc[t] # "idle" /\ pc'[t] \in {"decide", "save", "start"}
        /\ UNCHANGED <<file, st>>
    BY <1>5, <1>d DEF TickHeal, TickStop, TickStart, guardVars
  <2>2. QED
    BY <2>1, <1>b, <1>c
<1>6. CASE TickDecide(t)
  <2>1. pc[t] # "idle" /\ pc'[t] \in {"load", "save"} /\ UNCHANGED <<file, st>>
    BY <1>6, <1>d, <1>e DEF TickDecide
  <2>2. QED
    BY <2>1, <1>b, <1>c
<1>7. CASE TickSave(t)
  BY <1>7, <1>c, <1>d DEF TickSave
<1>8. QED
  BY <1>1, <1>2, <1>3, <1>4, <1>5, <1>6, <1>7 DEF TickStep

LEMMA DetectorStep ==
    ASSUME Serial, TypeOK, OneRunning, DetectorInv, [Next]_vars
    PROVE  DetectorInv'
<1>1. CASE \/ BoxStep /\ UNCHANGED <<switchVars, guardVars>>
           \/ \E u \in Users : GnpcStop(u) \/ GnpcStart(u)
           \/ UNCHANGED vars
  BY <1>1, DetectorQuiet DEF GnpcStop, GnpcStart, vars, switchVars, guardVars
<1>2. CASE \E p \in Procs : SelectorStep(p) /\ UNCHANGED guardVars
  BY <1>2, DetectorSelectorStep
<1>3. CASE \E t \in Ticks : TickStep(t)
  BY <1>3, DetectorTickStep
<1>4. ASSUME NEW u \in Users, NEW tag \in Tags, ManualSwitch(u, tag) PROVE DetectorInv'
  <2>1. \A t \in Ticks : t \in Procs /\ t # u
    BY ProcAssumption DEF Procs
  <2>2. QED
    BY <1>4, <2>1, ManualAlone DEF Alone, DetectorInv
<1>5. ASSUME NEW p \in Procs, Kill(p) PROVE DetectorInv'
  <2>1. \A t \in Ticks : pc'[t] = "idle"
    BY <1>5, KillAlone DEF Alone, Kill, Leave, Procs, TypeOK, ControlTypeOK
  <2>2. QED
    BY <2>1 DEF DetectorInv
<1>6. CASE BackoffElapses
  <2>1. file'.failures = file.failures /\ file'.frozen = file.frozen
    BY <1>6 DEF BackoffElapses, TypeOK, GuardTypeOK, GuardStates
  <2>2. QED
    BY <1>6, <2>1, DetectorQuiet DEF BackoffElapses, switchVars
<1>7. QED
  BY <1>1, <1>2, <1>3, <1>4, <1>5, <1>6 DEF Next

-----------------------------------------------------------------------------
(* Every step maps to a step of the detector, or to none. *)

LEMMA SaveMaps ==
    ASSUME NEW s, Same(s, file) \/ Cleared(s) \/ Counts(s, file), file' = s
    PROVE  [Detector!Next]_<<file.failures, file.frozen>>
<1>1. CASE Same(s, file)
  BY <1>1 DEF Same
<1>2. CASE Cleared(s)
  BY <1>2 DEF Cleared, Detector!Next, Detector!Reset
<1>3. CASE Counts(s, file)
  BY <1>3 DEF Counts, Bump, Detector!Next, Detector!ProbeFails, Detector!Bump
<1>4. QED
  BY <1>1, <1>2, <1>3

LEMMA StepMaps ==
    ASSUME TypeOK, DetectorInv, [Next]_vars
    PROVE  [Detector!Next]_<<file.failures, file.frozen>>
<1>a. ASSUME file' \in {file, Default} PROVE [Detector!Next]_<<file.failures, file.frozen>>
  <2>1. Same(file, file) /\ Cleared(Default)
    BY DEF Same, Cleared, Default
  <2>2. CASE file' = file
    BY <2>1, <2>2, SaveMaps
  <2>3. CASE file' = Default
    BY <2>1, <2>3, SaveMaps
  <2>4. QED
    BY <1>a, <2>2, <2>3
<1>1. ASSUME NEW t \in Ticks, TickSave(t)
      PROVE  [Detector!Next]_<<file.failures, file.frozen>>
  BY <1>1, <1>a, SaveMaps DEF TickSave, DetectorInv
<1>2. ASSUME NEW t \in Ticks, TickStep(t), ~TickSave(t) PROVE file' = file
  BY <1>2 DEF TickStep, TickBegin, TickAlive, ProbeOk, ProbeErr, TickHeal, TickDecide,
              TickStop, TickStart, guardVars
<1>3. CASE \E p \in Procs : Kill(p)
  BY <1>3, <1>a DEF Kill
<1>4. CASE BackoffElapses
  BY <1>4 DEF BackoffElapses, TypeOK, GuardTypeOK, GuardStates
<1>5. CASE \/ BoxStep /\ UNCHANGED <<switchVars, guardVars>>
           \/ \E p \in Procs : SelectorStep(p) /\ UNCHANGED guardVars
           \/ \E u \in Users : GnpcStop(u) \/ GnpcStart(u)
           \/ \E u \in Users, tag \in Tags : ManualSwitch(u, tag)
           \/ UNCHANGED vars
  BY <1>5 DEF GnpcStop, GnpcStart, ManualSwitch, vars, guardVars
<1>6. QED
  BY <1>a, <1>1, <1>2, <1>3, <1>4, <1>5 DEF Next

(***************************************************************************)
(* As long as commands do not overlap, guard-state.json is an atomic       *)
(* failure detector: every change of it counts one probe result or resets  *)
(* both fields, although a tick reads, probes, switches and writes it in   *)
(* many steps, may die at each, and may lose the write.                    *)
(***************************************************************************)
THEOREM ImplementsDetector == ASSUME Serial PROVE Spec => DetectorSpec
<1>1. Init => Detector!Init /\ DetectorInv
  BY DEF Init, SwitchInit, Default, Detector!Init, DetectorInv, Procs
<1>2. TypeOK /\ ConfigInv /\ DetectorInv /\ [Next]_vars => DetectorInv'
  BY DetectorStep DEF ConfigInv
<1>3. TypeOK /\ DetectorInv /\ [Next]_vars
        => [Detector!Next]_<<file.failures, file.frozen>>
  BY StepMaps
<1>4. QED
  BY <1>1, <1>2, <1>3, TypeCorrect, ConfigInductive, PTL
     DEF Spec, DetectorSpec, Detector!Spec
=============================================================================
