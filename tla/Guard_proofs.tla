----------------------------- MODULE Guard_proofs -----------------------------
(***************************************************************************)
(* Proofs about Guard, for every set of ticks and users, every threshold   *)
(* and every kind and number of faults.                                    *)
(***************************************************************************)
EXTENDS Guard, TLAPS

-----------------------------------------------------------------------------
(* What the shared operators keep well typed. *)

LEMMA StrikeType ==
    ASSUME BoxTypeOK, NEW kind, Strike(kind) \/ NoFault
    PROVE  budget' \in Nat /\ seen' \subseteq AllFaultKinds
BY FaultAssumption DEF BoxTypeOK, Strike, NoFault, faultVars

LEMMA StartType ==
    ASSUME BoxTypeOK, StartOk \/ StartErr
    PROVE  /\ svc' \in {"active", "failed", "stopped"}
           /\ hot' \in Tags
           /\ urltest' \in {Hy2Out, SshOut}
           /\ budget' \in Nat
           /\ seen' \subseteq AllFaultKinds
<1>1. budget' \in Nat /\ seen' \subseteq AllFaultKinds
  BY StrikeType DEF StartOk, StartErr
<1>2. QED
  BY <1>1 DEF StartOk, StartErr, Boot, BoxTypeOK, Readable

LEMMA BoxStepType ==
    ASSUME BoxTypeOK, BoxStep PROVE BoxTypeOK'
<1>1. CASE PathChanges
  BY <1>1 DEF PathChanges, BoxTypeOK, faultVars
<1>2. CASE SingBoxCrash
  BY <1>2, StrikeType DEF SingBoxCrash, BoxTypeOK
<1>3. CASE SystemdRestart
  BY <1>3 DEF SystemdRestart, Boot, NoFault, BoxTypeOK, Readable, faultVars
<1>4. CASE UrltestFallsBack
  BY <1>4 DEF UrltestFallsBack, BoxTypeOK, faultVars
<1>5. CASE UrltestReturns
  BY <1>5 DEF UrltestReturns, BoxTypeOK, faultVars
<1>6. CASE UrltestPrefersSsh
  BY <1>6, StrikeType DEF UrltestPrefersSsh, BoxTypeOK
<1>7. QED
  BY <1>1, <1>2, <1>3, <1>4, <1>5, <1>6 DEF BoxStep

-----------------------------------------------------------------------------
(* What a step of one process does to the control state. *)

LEMMA GotoType ==
    ASSUME ControlTypeOK, NEW p \in Procs,
           NEW label \in {"idle"} \cup SetPCs \cup GuardPCs, Goto(p, label)
    PROVE  ControlTypeOK'
BY DEF ControlTypeOK, Goto

LEMMA CallType ==
    ASSUME ControlTypeOK, NEW p \in Procs, NEW s \in Sites, NEW tag \in Tags,
           Call(p, s, tag)
    PROVE  ControlTypeOK'
BY DEF ControlTypeOK, Call, SetPCs

LEMMA LeaveType ==
    ASSUME ControlTypeOK, NEW p \in Procs,
           NEW label \in {"idle"} \cup SetPCs \cup GuardPCs, Leave(p, label)
    PROVE  ControlTypeOK'
BY DEF ControlTypeOK, Leave, Sites, Tags

LEMMA AfterType ==
    ASSUME NEW s \in Sites
    PROVE  After(s) \in {"idle"} \cup SetPCs \cup GuardPCs
BY DEF After, Sites, GuardPCs

LEMMA ReturnType ==
    ASSUME ControlTypeOK, pin \in Tags \cup {NoPin},
           NEW p \in Procs, ReturnOk(p) \/ ReturnErr(p)
    PROVE  ControlTypeOK' /\ pin' \in Tags \cup {NoPin}
<1>1. site[p] \in Sites /\ target[p] \in Tags
  BY DEF ControlTypeOK
<1>2. Leave(p, After(site[p]))
  BY DEF ReturnOk, ReturnErr
<1>3. ControlTypeOK'
  BY <1>1, <1>2, AfterType, LeaveType
<1>4. pin' \in Tags \cup {NoPin}
  BY <1>1 DEF ReturnOk, ReturnErr
<1>5. QED
  BY <1>3, <1>4

LEMMA GuardStateType ==
    ASSUME NEW s \in GuardStates
    PROVE  /\ Healthy(s) \in GuardStates
           /\ Failed(s) \in GuardStates
           /\ Default \in GuardStates
           /\ NoView \in Tags \X {Hy2Out, SshOut}
BY GuardAssumption
   DEF GuardStates, Healthy, Failed, Default, Bump, NoView, Tags, AutoOut, Hy2Out

-----------------------------------------------------------------------------
(* The steps of switch::set_selector. *)

LEMMA OverwriteType ==
    ASSUME NEW old \in Contents, NEW new \in Tags
    PROVE  Overwrite(old, new) \in Contents
BY DEF Overwrite, Contents

LEMMA SelectorStepType ==
    ASSUME TypeOK, NEW p \in Procs, SelectorStep(p), UNCHANGED guardVars
    PROVE  TypeOK'
<1>0. GuardTypeOK'
  BY DEF TypeOK, GuardTypeOK, guardVars
<1>a. site[p] \in Sites /\ target[p] \in Tags /\ cfg \in Contents
  BY DEF TypeOK, ControlTypeOK, BoxTypeOK
<1>b. ASSUME ReturnOk(p) \/ ReturnErr(p)
      PROVE  ControlTypeOK' /\ pin' \in Tags \cup {NoPin}
  BY <1>b, ReturnType DEF TypeOK, HistoryTypeOK
<1>c. ASSUME NEW label \in SetPCs, Goto(p, label) PROVE ControlTypeOK'
  BY <1>c, GotoType DEF TypeOK
<1>1. CASE SetLoad(p)
  <2>1. BoxTypeOK'
    BY <1>1 DEF SetLoad, TypeOK, BoxTypeOK, boxVars, faultVars
  <2>2. ControlTypeOK' /\ HistoryTypeOK'
    BY <1>1, <1>b, <1>c DEF SetLoad, SetPCs, TypeOK, HistoryTypeOK, history
  <2>3. QED
    BY <1>0, <2>1, <2>2 DEF TypeOK
<1>2. CASE SetOpen(p)
  <2>1. BoxTypeOK'
    BY <1>2, StrikeType DEF SetOpen, TypeOK, BoxTypeOK, Contents
  <2>2. ControlTypeOK' /\ HistoryTypeOK'
    BY <1>2, <1>b, <1>c DEF SetOpen, SetPCs, TypeOK, HistoryTypeOK, history
  <2>3. QED
    BY <1>0, <2>1, <2>2 DEF TypeOK
<1>3. CASE SetWrite(p)
  <2>1. BoxTypeOK'
    BY <1>3, <1>a, StrikeType, OverwriteType DEF SetWrite, TypeOK, BoxTypeOK
  <2>2. ControlTypeOK' /\ HistoryTypeOK'
    BY <1>3, <1>a, <1>b, <1>c DEF SetWrite, SetPCs, TypeOK, HistoryTypeOK, history
  <2>3. QED
    BY <1>0, <2>1, <2>2 DEF TypeOK
<1>4. CASE SetPut(p)
  <2>1. BoxTypeOK'
    BY <1>4, <1>a, StrikeType DEF SetPut, TypeOK, BoxTypeOK
  <2>2. ControlTypeOK' /\ HistoryTypeOK'
    BY <1>4, <1>b, <1>c DEF SetPut, SetPCs, TypeOK, HistoryTypeOK, history
  <2>3. QED
    BY <1>0, <2>1, <2>2 DEF TypeOK
<1>5. CASE SetFallback(p)
  <2>1. BoxTypeOK'
    BY <1>5, StrikeType, StartType DEF SetFallback, TypeOK, BoxTypeOK
  <2>2. ControlTypeOK' /\ HistoryTypeOK'
    BY <1>5, <1>b DEF SetFallback, TypeOK, HistoryTypeOK, history
  <2>3. QED
    BY <1>0, <2>1, <2>2 DEF TypeOK
<1>6. QED
  BY <1>1, <1>2, <1>3, <1>4, <1>5 DEF SelectorStep

-----------------------------------------------------------------------------
(* The steps of the guard. *)

LEMMA TickStepType ==
    ASSUME TypeOK, NEW t \in Ticks, TickStep(t)
    PROVE  TypeOK'
<1>a. /\ t \in Procs
      /\ st[t] \in GuardStates /\ view[t] \in Tags \X {Hy2Out, SshOut}
      /\ streak \in 0..FreezeAfter /\ Bump(streak) \in 0..FreezeAfter
  BY GuardAssumption DEF TypeOK, GuardTypeOK, Procs, Bump
<1>b. ASSUME NEW label \in {"idle"} \cup SetPCs \cup GuardPCs, Goto(t, label)
      PROVE  ControlTypeOK'
  BY <1>a, <1>b, GotoType DEF TypeOK
<1>c. ASSUME NEW s \in Sites, NEW tag \in Tags, Call(t, s, tag)
      PROVE  ControlTypeOK'
  BY <1>a, <1>c, CallType DEF TypeOK
<1>d. UNCHANGED <<pin, history>> => HistoryTypeOK'
  BY DEF TypeOK, HistoryTypeOK, history
<1>e. UNCHANGED guardVars => GuardTypeOK'
  BY DEF TypeOK, GuardTypeOK, guardVars
<1>f. UNCHANGED boxVars => BoxTypeOK'
  BY DEF TypeOK, BoxTypeOK, boxVars, faultVars
<1>1. CASE TickBegin(t)
  <2>1. GuardTypeOK'
    BY <1>1, <1>a, GuardStateType DEF TickBegin, TypeOK, GuardTypeOK
  <2>2. ControlTypeOK'
    BY <1>1, <1>b DEF TickBegin, GuardPCs
  <2>3. QED
    BY <1>1, <2>1, <2>2, <1>d, <1>f DEF TickBegin, TypeOK
<1>2. CASE TickAlive(t)
  <2>1. BoxTypeOK'
    BY <1>2, StartType DEF TickAlive, TypeOK, BoxTypeOK, NoFault, faultVars
  <2>2. ControlTypeOK'
    BY <1>2, <1>b DEF TickAlive, GuardPCs
  <2>3. QED
    BY <1>2, <2>1, <2>2, <1>d, <1>e DEF TickAlive, TypeOK
<1>3. CASE ProbeOk(t)
  <2>1. GuardTypeOK'
    <3>1. Healthy(st[t]) \in GuardStates
      BY <1>a, GuardStateType
    <3>2. 0 \in 0..FreezeAfter
      BY GuardAssumption
    <3>3. QED
      BY <1>3, <1>a, <3>1, <3>2 DEF ProbeOk, TypeOK, GuardTypeOK
  <2>2. ControlTypeOK'
    BY <1>3, <1>b, <1>c DEF ProbeOk, GuardPCs, Sites, Tags
  <2>3. QED
    BY <1>3, <2>1, <2>2, <1>d, <1>f DEF ProbeOk, TypeOK
<1>4. CASE ProbeErr(t)
  <2>1. GuardTypeOK'
    BY <1>4, <1>a, GuardStateType DEF ProbeErr, TypeOK, GuardTypeOK
  <2>2. ControlTypeOK'
    BY <1>4, <1>b, <1>c DEF ProbeErr, GuardPCs, Sites, Tags
  <2>3. BoxTypeOK'
    BY <1>4, StrikeType DEF ProbeErr, TypeOK, BoxTypeOK
  <2>4. QED
    BY <1>4, <2>1, <2>2, <2>3, <1>d DEF ProbeErr, TypeOK
<1>5. CASE TickHeal(t)
  <2>1. GuardTypeOK'
    BY <1>5, <1>a DEF TickHeal, TypeOK, GuardTypeOK, BoxTypeOK
  <2>2. ControlTypeOK'
    BY <1>5, <1>b DEF TickHeal, GuardPCs
  <2>3. BoxTypeOK'
    BY <1>5, StrikeType DEF TickHeal, TypeOK, BoxTypeOK
  <2>4. QED
    BY <1>5, <2>1, <2>2, <2>3, <1>d DEF TickHeal, TypeOK
<1>6. CASE TickDecide(t)
  <2> DEFINE act == HealAction(view[t][1], view[t][2], cfg)
  <2>1. act = NoHeal \/ act \in Tags
    BY ZenonT(20) DEF HealAction, Tags
  <2>2. ControlTypeOK'
    <3>1. CASE act # NoHeal /\ Call(t, "heal", act)
      BY <2>1, <3>1, <1>c DEF Sites
    <3>2. CASE act = NoHeal /\ Goto(t, "save")
      BY <3>2, <1>b DEF GuardPCs
    <3>3. QED
      BY <1>6, <3>1, <3>2 DEF TickDecide
  <2>3. GuardTypeOK'
    BY <1>6, <1>a, GuardStateType DEF TickDecide, TypeOK, GuardTypeOK
  <2>4. QED
    BY <1>6, <2>2, <2>3, <1>d, <1>f DEF TickDecide, TypeOK
<1>7. CASE TickStop(t)
  <2>1. BoxTypeOK'
    BY <1>7, StrikeType DEF TickStop, Stop, TypeOK, BoxTypeOK
  <2>2. ControlTypeOK'
    BY <1>7, <1>b DEF TickStop, GuardPCs
  <2>3. QED
    BY <1>7, <2>1, <2>2, <1>d, <1>e DEF TickStop, TypeOK
<1>8. CASE TickStart(t)
  <2>1. BoxTypeOK'
    BY <1>8, StartType DEF TickStart, TypeOK, BoxTypeOK
  <2>2. ControlTypeOK'
    BY <1>8, <1>b DEF TickStart, GuardPCs
  <2>3. QED
    BY <1>8, <2>1, <2>2, <1>d, <1>e DEF TickStart, TypeOK
<1>9. CASE TickSave(t)
  <2>1. GuardTypeOK'
    BY <1>9, <1>a, GuardStateType DEF TickSave, TypeOK, GuardTypeOK
  <2>2. ControlTypeOK'
    BY <1>9, <1>b DEF TickSave
  <2>3. BoxTypeOK'
    BY <1>9, StrikeType DEF TickSave, TypeOK, BoxTypeOK
  <2>4. QED
    BY <1>9, <2>1, <2>2, <2>3, <1>d DEF TickSave, TypeOK
<1>10. QED
  BY <1>1, <1>2, <1>3, <1>4, <1>5, <1>6, <1>7, <1>8, <1>9 DEF TickStep

-----------------------------------------------------------------------------
(* The user, deaths and time. *)

LEMMA UserStepType ==
    ASSUME TypeOK, NEW u \in Users,
           \/ GnpcStop(u)
           \/ GnpcStart(u)
           \/ \E tag \in Tags : ManualSwitch(u, tag)
    PROVE  TypeOK'
<1>a. u \in Procs
  BY DEF Procs
<1>1. CASE GnpcStop(u)
  BY <1>1, StrikeType
     DEF GnpcStop, Stop, TypeOK, BoxTypeOK, ControlTypeOK, HistoryTypeOK,
         GuardTypeOK, switchVars, guardVars, history
<1>2. CASE GnpcStart(u)
  BY <1>2, StartType
     DEF GnpcStart, TypeOK, BoxTypeOK, ControlTypeOK, HistoryTypeOK,
         GuardTypeOK, switchVars, guardVars, history
<1>3. CASE \E tag \in Tags : ManualSwitch(u, tag)
  <2>1. ControlTypeOK'
    BY <1>3, <1>a, CallType DEF ManualSwitch, TypeOK, Sites
  <2>2. QED
    BY <1>3, <2>1
       DEF ManualSwitch, TypeOK, BoxTypeOK, HistoryTypeOK, GuardTypeOK,
           boxVars, faultVars, guardVars, history
<1>4. QED
  BY <1>1, <1>2, <1>3

LEMMA KillType ==
    ASSUME TypeOK, NEW p \in Procs, Kill(p)
    PROVE  TypeOK'
<1>1. BoxTypeOK'
  BY StrikeType DEF Kill, TypeOK, BoxTypeOK
<1>2. ControlTypeOK'
  BY LeaveType DEF Kill, TypeOK
<1>3. HistoryTypeOK'
  BY DEF Kill, TypeOK, HistoryTypeOK, history
<1>4. GuardTypeOK'
  BY GuardStateType DEF Kill, TypeOK, GuardTypeOK
<1>5. QED
  BY <1>1, <1>2, <1>3, <1>4 DEF TypeOK

LEMMA NextType == TypeOK /\ [Next]_vars => TypeOK'
<1> SUFFICES ASSUME TypeOK, [Next]_vars PROVE TypeOK'
  OBVIOUS
<1>1. CASE BoxStep /\ UNCHANGED <<switchVars, guardVars>>
  BY <1>1, BoxStepType
     DEF TypeOK, ControlTypeOK, HistoryTypeOK, GuardTypeOK, switchVars,
         guardVars, history
<1>2. CASE BackoffElapses
  BY <1>2 DEF BackoffElapses, TypeOK, BoxTypeOK, ControlTypeOK, HistoryTypeOK,
              GuardTypeOK, GuardStates, boxVars, faultVars, switchVars, history
<1>3. CASE \E p \in Procs : SelectorStep(p) /\ UNCHANGED guardVars
  BY <1>3, SelectorStepType
<1>4. CASE \E t \in Ticks : TickStep(t)
  BY <1>4, TickStepType
<1>5. CASE \/ \E u \in Users : GnpcStop(u) \/ GnpcStart(u)
           \/ \E u \in Users, tag \in Tags : ManualSwitch(u, tag)
  BY <1>5, UserStepType
<1>6. CASE \E p \in Procs : Kill(p)
  BY <1>6, KillType
<1>7. CASE UNCHANGED vars
  BY <1>7 DEF vars, TypeOK, BoxTypeOK, ControlTypeOK, HistoryTypeOK, GuardTypeOK,
              boxVars, faultVars, switchVars, guardVars, history
<1>8. QED
  BY <1>1, <1>2, <1>3, <1>4, <1>5, <1>6, <1>7 DEF Next

(***************************************************************************)
(* Every variable keeps its type, for every set of ticks and users,        *)
(* overlapping or not, and every kind and number of faults: the counts     *)
(* stay within FreezeAfter, and the selector and every switch's argument   *)
(* within the three outbounds of the config.                               *)
(***************************************************************************)
THEOREM TypeCorrect == Spec => []TypeOK
<1>1. Init => TypeOK
  BY FaultAssumption, GuardAssumption
     DEF Init, BoxInit, SwitchInit, TypeOK, BoxTypeOK, ControlTypeOK,
         HistoryTypeOK, GuardTypeOK, GuardStates, Default, NoView, Contents,
         Tags, AutoOut, Hy2Out, SshOut, Sites
<1>2. QED
  BY <1>1, NextType, PTL DEF Spec

-----------------------------------------------------------------------------
(***************************************************************************)
(* FrozenIsCounted is not inductive: a tick that saves may have read its   *)
(* state long ago.  What every tick holds in memory has to be counted too. *)
(***************************************************************************)

Counted(s) == s.frozen <=> s.failures = FreezeAfter

CountedInv == Counted(file) /\ \A t \in Ticks : Counted(st[t])

LEMMA CountedStates ==
    ASSUME NEW s \in GuardStates, Counted(s)
    PROVE  Counted(Default) /\ Counted(Healthy(s)) /\ Counted(Failed(s))
<1>1. /\ s.failures \in 0..FreezeAfter /\ s.frozen \in BOOLEAN
      /\ FreezeAfter \in Nat /\ FreezeAfter # 0
  BY GuardAssumption DEF GuardStates
<1>2. Counted(Default) /\ Counted(Healthy(s))
  BY <1>1 DEF Counted, Default, Healthy
<1>3. Bump(s.failures) >= FreezeAfter <=> Bump(s.failures) = FreezeAfter
  BY <1>1 DEF Bump
<1>4. s.frozen => Bump(s.failures) = FreezeAfter
  BY <1>1 DEF Bump, Counted
<1>5. /\ Failed(s).failures = Bump(s.failures)
      /\ Failed(s).frozen = (s.frozen \/ Bump(s.failures) >= FreezeAfter)
  BY DEF Failed
<1>6. QED
  BY <1>2, <1>3, <1>4, <1>5, Zenon DEF Counted

LEMMA CountedStep == TypeOK /\ CountedInv /\ [Next]_vars => CountedInv'
<1> SUFFICES ASSUME TypeOK, CountedInv, [Next]_vars PROVE CountedInv'
  OBVIOUS
<1>a. /\ file \in GuardStates /\ st \in [Ticks -> GuardStates]
      /\ Counted(file) /\ \A t \in Ticks : Counted(st[t])
      /\ Counted(Default)
  BY CountedStates DEF TypeOK, GuardTypeOK, CountedInv
<1>b. UNCHANGED <<file, st>> => CountedInv'
  BY DEF CountedInv, Counted
<1>1. CASE BackoffElapses
  <2>1. file'.frozen = file.frozen /\ file'.failures = file.failures /\ st' = st
    BY <1>1, <1>a DEF BackoffElapses, GuardStates
  <2>2. QED
    BY <2>1, <1>a DEF CountedInv, Counted
<1>2. ASSUME NEW t \in Ticks, TickStep(t) PROVE CountedInv'
  <2>1. CASE TickBegin(t)
    BY <2>1, <1>a DEF TickBegin, CountedInv
  <2>2. CASE ProbeOk(t)
    <3>1. Counted(Healthy(st[t]))
      BY <1>a, CountedStates
    <3>2. QED
      BY <2>2, <3>1, <1>a DEF ProbeOk, CountedInv
  <2>3. CASE ProbeErr(t)
    <3>1. Counted(Failed(st[t]))
      BY <1>a, CountedStates
    <3>2. QED
      BY <2>3, <3>1, <1>a DEF ProbeErr, CountedInv
  <2>4. CASE TickSave(t)
    BY <2>4, <1>a DEF TickSave, CountedInv
  <2>5. CASE TickAlive(t) \/ TickHeal(t) \/ TickDecide(t) \/ TickStop(t) \/ TickStart(t)
    BY <2>5, <1>b DEF TickAlive, TickHeal, TickDecide, TickStop, TickStart, guardVars
  <2>6. QED
    BY <1>2, <2>1, <2>2, <2>3, <2>4, <2>5 DEF TickStep
<1>3. ASSUME NEW p \in Procs, Kill(p) PROVE CountedInv'
  BY <1>3, <1>a DEF Kill, CountedInv
<1>4. CASE \/ BoxStep /\ UNCHANGED <<switchVars, guardVars>>
           \/ \E p \in Procs : SelectorStep(p) /\ UNCHANGED guardVars
           \/ \E u \in Users : GnpcStop(u) \/ GnpcStart(u)
           \/ \E u \in Users, tag \in Tags : ManualSwitch(u, tag)
           \/ UNCHANGED vars
  BY <1>4, <1>b DEF GnpcStop, GnpcStart, ManualSwitch, vars, guardVars
<1>5. QED
  BY <1>1, <1>2, <1>3, <1>4 DEF Next

(***************************************************************************)
(* The state file never says frozen without FreezeAfter counted failures,  *)
(* nor the other way round, however ticks overlap, die and fail to write.  *)
(***************************************************************************)
THEOREM FrozenCounted == Spec => []FrozenIsCounted
<1>1. Init => CountedInv
  BY GuardAssumption DEF Init, CountedInv, Counted, Default
<1>2. CountedInv => FrozenIsCounted
  BY DEF CountedInv, Counted, FrozenIsCounted
<1>3. QED
  BY <1>1, <1>2, CountedStep, TypeCorrect, PTL DEF Spec

-----------------------------------------------------------------------------
(***************************************************************************)
(* HotWasCommitted needs the two ways a choice reaches the selector: from  *)
(* the config when sing-box boots, and from a switch that has written it.  *)
(***************************************************************************)

CommitInv ==
    /\ HotWasCommitted
    /\ Readable(cfg) => cfg \in written
    /\ \A p \in Procs : pc[p] = "put" => target[p] \in written

LEMMA BootCommitted ==
    ASSUME CommitInv, StartOk \/ StartErr
    PROVE  hot' \in written
BY DEF CommitInv, HotWasCommitted, StartOk, StartErr, Boot

\* A step that goes anywhere but to the PUT and leaves files and history alone.
LEMMA CommitMoves ==
    ASSUME TypeOK, CommitInv, UNCHANGED <<cfg, written>>, hot' \in written,
           NEW p \in Procs, NEW label, label # "put",
           \/ Goto(p, label)
           \/ Leave(p, label)
           \/ \E s \in Sites, tag \in Tags : Call(p, s, tag)
    PROVE  CommitInv'
<1>1. \A q \in Procs : q # p => pc'[q] = pc[q] /\ target'[q] = target[q]
  BY DEF TypeOK, ControlTypeOK, Goto, Leave, Call
<1>2. pc'[p] # "put"
  BY DEF TypeOK, ControlTypeOK, Goto, Leave, Call
<1>3. QED
  BY <1>1, <1>2 DEF CommitInv, HotWasCommitted, Readable

LEMMA AfterIsNoPut == ASSUME NEW s \in Sites PROVE After(s) # "put"
BY DEF After, Sites

LEMMA CommitSelectorStep ==
    ASSUME TypeOK, CommitInv, NEW p \in Procs, SelectorStep(p)
    PROVE  CommitInv'
<1>a. /\ pc \in [Procs -> {"idle"} \cup SetPCs \cup GuardPCs]
      /\ site[p] \in Sites /\ hot \in written
      /\ After(site[p]) # "put"
  BY AfterIsNoPut DEF TypeOK, ControlTypeOK, CommitInv, HotWasCommitted
<1>b. ASSUME ReturnOk(p) \/ ReturnErr(p), UNCHANGED <<cfg, written>>, hot' \in written
      PROVE  CommitInv'
  BY <1>a, <1>b, CommitMoves DEF ReturnOk, ReturnErr
<1>1. CASE SetLoad(p)
  BY <1>1, <1>a, <1>b, CommitMoves DEF SetLoad, boxVars, history
<1>2. CASE SetOpen(p)
  <2>1. CASE cfg' = Empty /\ Goto(p, "write")
    <3>1. ~Readable(cfg') /\ UNCHANGED <<hot, target, written>>
      BY <1>2, <2>1 DEF SetOpen, Readable, Empty, Tags, AutoOut, Hy2Out, SshOut, history, Goto
    <3>2. \A q \in Procs : pc'[q] = "put" => pc[q] = "put"
      BY <1>a, <2>1 DEF Goto
    <3>3. QED
      BY <3>1, <3>2 DEF CommitInv, HotWasCommitted, Readable
  <2>2. CASE ReturnErr(p) /\ UNCHANGED cfg
    BY <1>2, <2>2, <1>a, <1>b DEF SetOpen, history
  <2>3. QED
    BY <1>2, <2>1, <2>2 DEF SetOpen
<1>3. CASE SetWrite(p)
  <2>1. CASE /\ cfg' = Overwrite(cfg, target[p])
             /\ written' = written \cup {target[p]}
             /\ Goto(p, "put")
    <3>1. Readable(cfg') => cfg' = target[p]
      BY <2>1 DEF Overwrite, Readable, Garbled, Tags, AutoOut, Hy2Out, SshOut
    <3>2. UNCHANGED <<hot, target>> /\ \A q \in Procs \ {p} : pc'[q] = pc[q]
      BY <1>3, <2>1, <1>a DEF SetWrite, Goto
    <3>3. QED
      BY <2>1, <3>1, <3>2 DEF CommitInv, HotWasCommitted, Readable
  <2>2. CASE ReturnErr(p) /\ UNCHANGED <<cfg, history>>
    BY <1>3, <2>2, <1>a, <1>b DEF SetWrite, history
  <2>3. QED
    BY <1>3, <2>1, <2>2 DEF SetWrite
<1>4. CASE SetPut(p)
  <2>1. target[p] \in written /\ hot' \in written /\ UNCHANGED <<cfg, written>>
    BY <1>4, <1>a DEF SetPut, CommitInv, history
  <2>2. CASE ReturnOk(p)
    BY <2>1, <2>2, <1>b
  <2>3. CASE Goto(p, "fallback")
    BY <2>1, <2>3, CommitMoves
  <2>4. QED
    BY <1>4, <2>2, <2>3 DEF SetPut
<1>5. CASE SetFallback(p)
  <2>1. hot' \in written /\ UNCHANGED <<cfg, written>>
    BY <1>5, <1>a, BootCommitted DEF SetFallback, history
  <2>2. QED
    BY <1>5, <2>1, <1>b DEF SetFallback
<1>6. QED
  BY <1>1, <1>2, <1>3, <1>4, <1>5 DEF SelectorStep

LEMMA CommitTickStep ==
    ASSUME TypeOK, CommitInv, NEW t \in Ticks, TickStep(t)
    PROVE  CommitInv'
<1>a. t \in Procs /\ hot \in written
  BY DEF Procs, CommitInv, HotWasCommitted
<1>1. hot' \in written /\ UNCHANGED <<cfg, written>>
  BY <1>a, BootCommitted
     DEF TickStep, TickBegin, TickAlive, ProbeOk, ProbeErr, TickHeal, TickDecide,
         TickStop, TickStart, TickSave, boxVars, history
<1>2. CASE TickBegin(t)
  BY <1>2, <1>1, <1>a, CommitMoves DEF TickBegin
<1>3. CASE TickAlive(t)
  BY <1>3, <1>1, <1>a, CommitMoves DEF TickAlive
<1>4. CASE ProbeOk(t)
  BY <1>4, <1>1, <1>a, CommitMoves DEF ProbeOk, Sites, Tags
<1>5. CASE ProbeErr(t)
  BY <1>5, <1>1, <1>a, CommitMoves DEF ProbeErr, Sites, Tags
<1>6. CASE TickHeal(t)
  BY <1>6, <1>1, <1>a, CommitMoves DEF TickHeal
<1>7. CASE TickDecide(t)
  <2>1. \/ \E tag \in Tags : Call(t, "heal", tag)
        \/ Goto(t, "save")
    BY <1>7, ZenonT(20) DEF TickDecide, HealAction, Tags
  <2>2. QED
    BY <2>1, <1>1, <1>a, CommitMoves DEF Sites
<1>8. CASE TickStop(t) \/ TickStart(t) \/ TickSave(t)
  BY <1>8, <1>1, <1>a, CommitMoves DEF TickStop, TickStart, TickSave
<1>9. QED
  BY <1>2, <1>3, <1>4, <1>5, <1>6, <1>7, <1>8 DEF TickStep

LEMMA CommitStep == TypeOK /\ CommitInv /\ [Next]_vars => CommitInv'
<1> SUFFICES ASSUME TypeOK, CommitInv, [Next]_vars PROVE CommitInv'
  OBVIOUS
<1>a. hot \in written
  BY DEF CommitInv, HotWasCommitted
<1>b. ASSUME UNCHANGED <<cfg, pc, target, written>>, hot' \in written PROVE CommitInv'
  BY <1>b DEF CommitInv, HotWasCommitted, Readable
<1>1. CASE BoxStep /\ UNCHANGED <<switchVars, guardVars>>
  <2>1. cfg' = cfg
    BY <1>1 DEF BoxStep, PathChanges, SingBoxCrash, SystemdRestart,
                UrltestFallsBack, UrltestReturns, UrltestPrefersSsh
  <2>2. hot' \in written
    BY <1>1, <1>a DEF BoxStep, PathChanges, SingBoxCrash, SystemdRestart, Boot,
                UrltestFallsBack, UrltestReturns, UrltestPrefersSsh, CommitInv
  <2>3. QED
    BY <1>1, <2>1, <2>2, <1>b DEF switchVars, history
<1>2. CASE \E p \in Procs : SelectorStep(p) /\ UNCHANGED guardVars
  BY <1>2, CommitSelectorStep
<1>3. CASE \E t \in Ticks : TickStep(t)
  BY <1>3, CommitTickStep
<1>4. CASE \E u \in Users : GnpcStop(u) \/ GnpcStart(u)
  BY <1>4, <1>a, <1>b, BootCommitted DEF GnpcStop, GnpcStart, switchVars, history
<1>5. ASSUME NEW u \in Users, NEW tag \in Tags, ManualSwitch(u, tag) PROVE CommitInv'
  BY <1>5, <1>a, CommitMoves DEF ManualSwitch, Procs, Sites, boxVars, history
<1>6. ASSUME NEW p \in Procs, Kill(p) PROVE CommitInv'
  BY <1>6, <1>a, CommitMoves DEF Kill, history
<1>7. CASE BackoffElapses \/ UNCHANGED vars
  BY <1>7, <1>a, <1>b DEF BackoffElapses, vars, boxVars, switchVars, history
<1>8. QED
  BY <1>1, <1>2, <1>3, <1>4, <1>5, <1>6, <1>7 DEF Next

(***************************************************************************)
(* The config is the commit point of every switch: whatever overlaps and   *)
(* whatever fails, the running selector only ever holds a choice that was  *)
(* first written to config.json.                                           *)
(***************************************************************************)
THEOREM HotCommitted == Spec => []HotWasCommitted
<1>1. Init => CommitInv
  BY DEF Init, BoxInit, SwitchInit, CommitInv, HotWasCommitted
<1>2. CommitInv => HotWasCommitted
  BY DEF CommitInv
<1>3. QED
  BY <1>1, <1>2, CommitStep, TypeCorrect, PTL DEF Spec
=============================================================================
