---------------------------- MODULE CmdMgr_proofs ----------------------------
(***************************************************************************)
(* Proofs about CmdMgr for any number of slots, calls and message ids and  *)
(* any limit of the list: what is on the list belongs to somebody, and the *)
(* state of the list alone keeps two pushes of the one command buffer      *)
(* apart, as long as no direct message comes between.                      *)
(***************************************************************************)
EXTENDS CmdMgr, FiniteSetTheorems, SequenceTheorems,
        WellFoundedInduction, TLAPS

USE DEF manager, bus

\* Where a process that has put its command through the list may stand, and
\* where it has not submitted it yet.
Live == {"fill", "tx", "submit", "sent", "wait", "tmo"}
Unsent == {"fill", "tx", "submit"}
Loaded == {"tx", "submit"}

\* Where a call has a slot that is not on the list.
Off == {"queue"} \cup DirectPCs
DirectLoaded == {"dtx", "dsubmit"}

CallAt(s, L) == slot[s].by # NoCall /\ pc[slot[s].by] \in L
WorkerAt(s, L) == wslot = s /\ pc[Worker] \in L
HeldAt(s, L) == CallAt(s, L) \/ WorkerAt(s, L)

\* Sent or about to be, and neither confirmed nor left to the worker.
InProgress(s) == slot[s].cfm /\ ~slot[s].push

\* Nobody will ever take the first such command off the list, or push what
\* stands behind it.
Stuck == \E s \in Listed : ~slot[s].push /\ ~HeldAt(s, Live)

-----------------------------------------------------------------------------
\* A call has one slot from the time it takes one until it returns, and
\* nobody else has it.
Owned ==
    /\ \A s, t \in Slots : slot[s].by # NoCall /\ slot[s].by = slot[t].by => s = t
    /\ \A c \in Calls : pc[c] = "new" => \A s \in Slots : slot[s].by # c
    /\ \A c \in Calls : pc[c] \in Live \cup Off =>
          \E s \in Slots : slot[s].by = c /\ slot[s].used

\* A command left to the worker is that of a call which has returned, before
\* the worker takes it and while it works on it.
LeftBehind(s) == slot[s].used /\ slot[s].by # NoCall /\ Returned(slot[s].by)
LeftToTheWorker ==
    /\ \A s \in Slots : slot[s].push => LeftBehind(s)
    /\ pc[Worker] \in Live \cup {"clear"} => wslot \in Slots /\ LeftBehind(wslot)
    /\ pc[Worker] = "clear" => cmds # <<>> /\ cmds[1] = wslot /\ slot[wslot].push
    /\ pc[Worker] \in WorkerPCs

HeldIsListed ==
    \A s \in Slots : HeldAt(s, Live) => s \in Listed /\ slot[s].used /\ ~slot[s].push

\* The list: commands that are done, then at most one in progress, then those
\* left to the worker.
Ordered ==
    \A i, j \in 1..Len(cmds) : i < j =>
        /\ cmds[i] # cmds[j]
        /\ slot[cmds[i]].push \/ slot[cmds[i]].cfm => slot[cmds[j]].push

ConfirmedOnce == \A s \in Listed : slot[s].cfm => slot[s].comp = NoReq

\* Until a timeout stops the manager.
Sane ==
    ~crashed =>
        /\ \A s \in Slots : ~slot[s].used \/ CallAt(s, Off) =>
              s \notin Listed /\ slot[s].comp = NoReq
        /\ \A s \in Slots : slot[s].used => s \in Listed \/ CallAt(s, Off)
        /\ \A s \in Listed : slot[s].kind = "buf" => CallAt(s, Live)
        /\ ~Stuck
        /\ usbUp /\ cmds # <<>> =>
              \/ pending \/ pc[Worker] # "idle"
              \/ \E s \in Slots : CallAt(s, Live)

\* What the firmware has to confirm, or will have when the URB gets through.
Carried == IF urb = "out" THEN {cmdBuf} \ {NoReq} ELSE {}
Owed == fw \cup Carried

\* Undisturbed, the firmware has at most the request in progress, nobody
\* pushes while it has it, and a command that somebody waits for is completed
\* by its own confirmation.
Quiet ==
    Undisturbed =>
        /\ \A s \in Slots : HeldAt(s, Unsent) => slot[s].cfm
        /\ \A s \in Slots : HeldAt(s, Loaded) => cmdBuf = Req(s)
        /\ \A s \in Slots : HeldAt(s, Live) /\ slot[s].comp # NoReq =>
              slot[s].comp = Req(s)
        /\ \A s \in Listed : slot[s].push /\ ~slot[s].cfm => Stuck
        /\ \A r \in Owed :
              /\ Owed = {r}
              /\ \E s \in Listed :
                    /\ InProgress(s) /\ ~HeldAt(s, Unsent)
                    /\ HeldAt(s, Live) => Req(s) = r

\* Undisturbed, a request is not sent again while the firmware has it, and an
\* URB that carries a direct message still has its sender, who has not been
\* told of an earlier completion.
Apart ==
    Undisturbed =>
        /\ ~Overlap
        /\ Carried # {} => fw = {}
        /\ urb = "out" /\ cmdBuf = NoReq => \E c \in Calls : pc[c] = "dsent"
        /\ \A c \in Calls : pc[c] \in DirectLoaded => cmdBuf = NoReq
        /\ \A c \in Calls : pc[c] = "dsubmit" => ~finished
        /\ \A c \in Calls : pc[c] = "dsent" /\ urb # "idle" => ~finished

IInv ==
    /\ TypeOK /\ Owned /\ LeftToTheWorker /\ HeldIsListed
    /\ Ordered /\ ConfirmedOnce /\ Sane /\ Quiet /\ Apart

-----------------------------------------------------------------------------
(* The helpers. *)

LEMMA Places ==
    /\ \A l : At(l, FALSE) = l
    /\ At("queue", TRUE) = "dfill" /\ At("fill", TRUE) = "dfill"
    /\ At("tx", TRUE) = "dtx" /\ At("submit", TRUE) = "dsubmit"
    /\ At("sent", TRUE) = "dsent" /\ At("wait", TRUE) = "free"
BY DEF At, Direct

\* Once disturbed, for ever.
LEMMA WatchKeeps ==
    ASSUME IInv, Watch, killed \subseteq killed'
    PROVE  beside' \in BOOLEAN /\ (Undisturbed' => Undisturbed /\ ~Overlap')
<1>1. beside' \in BOOLEAN
  BY DEF Watch
<1>2. ~beside' => ~beside /\ ~Overlap'
  BY DEF Watch
<1>3. killed' = {} => killed = {}
  OBVIOUS
<1>4. QED
  BY <1>1, <1>2, <1>3 DEF Undisturbed

\* A step that leaves the bus alone, and the direct messages on their way.
OnTheWay == {"dtx", "dsubmit", "dsent"}
KeepsDirect ==
    \A c \in Calls : pc[c] \in OnTheWay \/ pc'[c] \in OnTheWay => pc'[c] = pc[c]

LEMMA BusUntouched ==
    ASSUME IInv, Watch, killed \subseteq killed', UNCHANGED bus, KeepsDirect
    PROVE  /\ beside' \in BOOLEAN /\ (Undisturbed' => Undisturbed)
           /\ Owed' = Owed /\ Apart'
<1>1. beside' \in BOOLEAN /\ (Undisturbed' => Undisturbed /\ ~Overlap')
  BY WatchKeeps
<1>2. Owed' = Owed /\ Carried' = Carried
  BY DEF Owed, Carried
<1>3. Apart'
  BY <1>1, <1>2 DEF IInv, Apart, KeepsDirect, OnTheWay, DirectLoaded
<1>4. QED
  BY <1>1, <1>2, <1>3

\* A set of numbers that is not empty has a lowest member.
LEMMA LowestIsMember ==
    ASSUME NEW S \in SUBSET Nat, S # {}
    PROVE  Lowest(S) \in S
<1>1. PICK m \in S : \A x \in S : ~(<<x, m>> \in OpToRel(<, Nat))
  BY NatLessThanWellFounded, WFMin
<1>2. OpToRel(<, Nat) = {ss \in Nat \X Nat : ss[1] < ss[2]}
  BY Zenon DEF OpToRel
<1>3. ASSUME NEW x \in S, x < m
      PROVE  FALSE
  <2>1. <<x, m>> \in {ss \in Nat \X Nat : ss[1] < ss[2]}
    BY <1>3
  <2>2. QED
    BY <1>1, <1>2, <2>1
<1>4. \A x \in S : m <= x
  BY <1>3
<1>5. QED
  BY <1>4 DEF Lowest

LEMMA SlotOfCall ==
    ASSUME Owned, NEW c \in Calls, pc[c] \in Live \cup Off
    PROVE  /\ SlotOf(c) \in Slots
           /\ slot[SlotOf(c)].by = c /\ slot[SlotOf(c)].used
           /\ \A s \in Slots : slot[s].by = c => s = SlotOf(c)
<1>1. c # NoCall
  BY CmdMgrAssumption DEF Calls, NoCall
<1>2. PICK s \in Slots : slot[s].by = c /\ slot[s].used
  BY DEF Owned
<1>3. SlotOf(c) \in Slots /\ slot[SlotOf(c)].by = c
  BY <1>2 DEF SlotOf
<1>4. QED
  BY <1>1, <1>2, <1>3 DEF Owned

\* RemoveAt keeps the order of what stays.
LEMMA RemoveAtKeepsOrder ==
    ASSUME NEW S, NEW seq \in Seq(S), NEW p \in 1..Len(seq)
    PROVE  /\ RemoveAt(seq, p) \in Seq(S)
           /\ Len(RemoveAt(seq, p)) = Len(seq) - 1
           /\ \A i \in 1..(Len(seq) - 1) :
                 RemoveAt(seq, p)[i] = seq[IF i < p THEN i ELSE i + 1]
<1> DEFINE front == SubSeq(seq, 1, p - 1)
           back == SubSeq(seq, p + 1, Len(seq))
<1>1. /\ front \in Seq(S) /\ Len(front) = p - 1
      /\ \A i \in 1..(p - 1) : front[i] = seq[i]
  OBVIOUS
<1>2. /\ back \in Seq(S) /\ Len(back) = Len(seq) - p
      /\ \A i \in 1..(Len(seq) - p) : back[i] = seq[p + i]
  OBVIOUS
<1> HIDE DEF front, back
<1>3. /\ front \o back \in Seq(S)
      /\ Len(front \o back) = Len(seq) - 1
      /\ \A i \in 1..(Len(seq) - 1) :
            (front \o back)[i] = IF i <= p - 1 THEN front[i] ELSE back[i - (p - 1)]
  <2>1. /\ front \o back \in Seq(S)
        /\ Len(front \o back) = Len(front) + Len(back)
        /\ \A i \in 1..(Len(front) + Len(back)) :
              (front \o back)[i] =
                 IF i <= Len(front) THEN front[i] ELSE back[i - Len(front)]
    BY <1>1, <1>2, ConcatProperties
  <2>2. Len(front) + Len(back) = Len(seq) - 1
    BY <1>1, <1>2
  <2>3. QED
    BY <1>1, <2>1, <2>2, Zenon
<1>4. ASSUME NEW i \in 1..(Len(seq) - 1)
      PROVE  (front \o back)[i] = seq[IF i < p THEN i ELSE i + 1]
  <2>1. CASE i < p
    BY <1>1, <1>3, <2>1
  <2>2. CASE ~(i < p)
    <3>1. i - (p - 1) \in 1..(Len(seq) - p)
      BY <2>2
    <3>2. QED
      BY <1>2, <1>3, <2>2, <3>1
  <2>3. QED
    BY <2>1, <2>2
<1>5. RemoveAt(seq, p) = front \o back
  BY DEF RemoveAt, front, back
<1>6. QED
  BY <1>3, <1>4, <1>5

LEMMA ListedByIndex ==
    ASSUME NEW S, cmds \in Seq(S)
    PROVE  \A s : s \in Listed <=> \E i \in 1..Len(cmds) : cmds[i] = s
BY DEF Listed, ToSet

LEMMA Removed ==
    ASSUME TypeOK, Ordered, NEW s \in Listed, cmds' = Without(s)
    PROVE  /\ cmds' \in Seq(Slots)
           /\ Len(cmds') = Len(cmds) - 1
           /\ Listed' = Listed \ {s}
           /\ \A i, j \in 1..Len(cmds') : i < j =>
                 \E k, l \in 1..Len(cmds) :
                    k < l /\ cmds'[i] = cmds[k] /\ cmds'[j] = cmds[l]
           /\ cmds[1] # s => cmds' # <<>> /\ cmds'[1] = cmds[1]
<1> DEFINE p == Position(s)
<1>1. cmds \in Seq(Slots)
  BY DEF TypeOK
<1>2. p \in 1..Len(cmds) /\ cmds[p] = s
  <2>1. \E i \in DOMAIN cmds : cmds[i] = s
    BY <1>1, ListedByIndex
  <2>2. QED
    BY <1>1, <2>1 DEF Position
<1> HIDE DEF p
<1>3. cmds' = RemoveAt(cmds, p)
  BY DEF Without, p
<1>4. /\ cmds' \in Seq(Slots) /\ Len(cmds') = Len(cmds) - 1
      /\ \A i \in 1..(Len(cmds) - 1) : cmds'[i] = cmds[IF i < p THEN i ELSE i + 1]
  BY <1>1, <1>2, <1>3, RemoveAtKeepsOrder
<1>5. \A i, j \in 1..Len(cmds) : cmds[i] = cmds[j] => i = j
  BY <1>1 DEF Ordered
<1>6. Listed' = Listed \ {s}
  <2>1. \A t : t \in Listed' <=> \E i \in 1..Len(cmds') : cmds'[i] = t
    BY <1>4 DEF Listed, ToSet
  <2>2. \A t : t \in Listed <=> \E i \in 1..Len(cmds) : cmds[i] = t
    BY <1>1, ListedByIndex
  <2>3. ASSUME NEW t \in Listed'
        PROVE  t \in Listed \ {s}
    <3>1. PICK i \in 1..(Len(cmds) - 1) : cmds[IF i < p THEN i ELSE i + 1] = t
      BY <1>4, <2>1, <2>3
    <3>2. QED
      BY <1>1, <1>2, <1>5, <2>2, <3>1
  <2>4. ASSUME NEW t \in Listed \ {s}
        PROVE  t \in Listed'
    <3>1. PICK i \in 1..Len(cmds) : cmds[i] = t
      BY <2>2, <2>4
    <3>2. CASE i < p
      BY <1>1, <1>2, <1>4, <2>1, <3>1, <3>2
    <3>3. CASE i > p
      <4>1. i - 1 \in 1..(Len(cmds) - 1) /\ cmds'[i - 1] = t
        BY <1>1, <1>2, <1>4, <3>1, <3>3
      <4>2. QED
        BY <1>4, <2>1, <4>1
    <3>4. QED
      BY <1>1, <1>2, <2>4, <3>1, <3>2, <3>3
  <2>5. QED
    BY <2>3, <2>4
<1>7. ASSUME NEW i \in 1..Len(cmds'), NEW j \in 1..Len(cmds'), i < j
      PROVE  \E k, l \in 1..Len(cmds) :
                k < l /\ cmds'[i] = cmds[k] /\ cmds'[j] = cmds[l]
  <2> DEFINE k == IF i < p THEN i ELSE i + 1
             l == IF j < p THEN j ELSE j + 1
  <2>1. k \in 1..Len(cmds) /\ l \in 1..Len(cmds) /\ k < l
    BY <1>1, <1>2, <1>4, <1>7
  <2>2. cmds'[i] = cmds[k] /\ cmds'[j] = cmds[l]
    BY <1>4, <1>7
  <2>3. QED
    BY <2>1, <2>2
<1>8. ASSUME cmds[1] # s
      PROVE  cmds' # <<>> /\ cmds'[1] = cmds[1]
  <2>1. 1 < p
    BY <1>1, <1>2, <1>8
  <2>2. QED
    BY <1>1, <1>2, <1>4, <2>1
<1>9. QED
  BY <1>4, <1>6, <1>7, <1>8

LEMMA Appended ==
    ASSUME cmds \in Seq(Slots), NEW s \in Slots, cmds' = Append(cmds, s)
    PROVE  /\ cmds' \in Seq(Slots)
           /\ Len(cmds') = Len(cmds) + 1
           /\ \A i \in 1..Len(cmds) : cmds'[i] = cmds[i]
           /\ cmds'[Len(cmds) + 1] = s
           /\ Listed' = Listed \cup {s}
<1>1. /\ cmds' \in Seq(Slots) /\ Len(cmds') = Len(cmds) + 1
      /\ \A i \in 1..Len(cmds) : cmds'[i] = cmds[i]
      /\ cmds'[Len(cmds) + 1] = s
  BY AppendProperties
<1>2. \A t : t \in Listed' <=> \E i \in 1..Len(cmds') : cmds'[i] = t
  BY <1>1 DEF Listed, ToSet
<1>3. \A t : t \in Listed <=> \E i \in 1..Len(cmds) : cmds[i] = t
  BY ListedByIndex
<1>4. \A t : t \in Listed' => t \in Listed \cup {s}
  BY <1>1, <1>2, <1>3
<1>5. \A t : t \in Listed \cup {s} => t \in Listed'
  BY <1>1, <1>2, <1>3
<1>6. QED
  BY <1>1, <1>4, <1>5

-----------------------------------------------------------------------------
(* Steps in which a process goes from one place to another and keeps its   *)
(* command.                                                                *)

LEMMA HeldSlot ==
    ASSUME IInv, NEW p \in Calls \cup {Worker}, pc[p] \in Live
    PROVE  /\ Held(p) \in Slots
           /\ \A s \in Slots :
                 s = Held(p) <=> IF p = Worker THEN wslot = s ELSE slot[s].by = p
           /\ \A L : pc[p] \in L => HeldAt(Held(p), L)
           /\ \A L \in SUBSET Live : HeldAt(Held(p), L) => pc[p] \in L
<1>1. CmdMgrAssumption
  BY CmdMgrAssumption
<1>2. CASE p = Worker
  <2>1. Held(p) = wslot
    BY <1>2 DEF Held
  <2>2. wslot \in Slots /\ LeftBehind(wslot)
    BY <1>2 DEF IInv, LeftToTheWorker
  <2>3. QED
    BY <1>2, <2>1, <2>2 DEF HeldAt, CallAt, WorkerAt, LeftBehind, Returned, Live
<1>3. CASE p \in Calls
  <2>1. p # Worker /\ p # NoCall
    BY <1>1, <1>3 DEF Calls, Worker, NoCall, CmdMgrAssumption
  <2>2. Held(p) = SlotOf(p)
    BY <2>1 DEF Held
  <2>3. /\ SlotOf(p) \in Slots /\ slot[SlotOf(p)].by = p
        /\ \A s \in Slots : slot[s].by = p => s = SlotOf(p)
    BY <1>3, SlotOfCall DEF IInv
  <2>4. wslot = SlotOf(p) => pc[Worker] \notin Live
    BY <2>3 DEF IInv, LeftToTheWorker, LeftBehind, Returned, Live
  <2>5. QED
    BY <2>1, <2>2, <2>3, <2>4 DEF HeldAt, CallAt, WorkerAt
<1>4. QED
  BY <1>2, <1>3

LEMMA Moved ==
    ASSUME IInv, NEW p \in Calls \cup {Worker}, pc[p] \in Live,
           NEW l \in Live, Goto(p, l), UNCHANGED <<slot, wslot>>
    PROVE  /\ \A L \in SUBSET Live : \A s \in Slots :
                 HeldAt(s, L)' <=> IF s = Held(p) THEN l \in L ELSE HeldAt(s, L)
           /\ \A s \in Slots : CallAt(s, Off)' <=> CallAt(s, Off)
           /\ \A s \in Slots : CallAt(s, Live)' <=> CallAt(s, Live)
<1>1. /\ Held(p) \in Slots
      /\ \A s \in Slots :
            s = Held(p) <=> IF p = Worker THEN wslot = s ELSE slot[s].by = p
  BY HeldSlot
<1>2. pc \in [Calls \cup {Worker} -> CallPCs \cup WorkerPCs]
  BY DEF IInv, TypeOK
<1>3. pc' = [pc EXCEPT ![p] = l]
  BY DEF Goto
<1>4. \A s \in Slots : slot[s].by # NoCall => slot[s].by \in Calls
  BY CmdMgrAssumption DEF IInv, TypeOK, Slot, Calls, NoCall
<1>5. Worker \notin Calls
  BY CmdMgrAssumption DEF Worker, Calls
<1>6. pc[Worker] \in Live => LeftBehind(wslot)
  BY DEF IInv, LeftToTheWorker
<1>7. ASSUME NEW L \in SUBSET Live, NEW s \in Slots
      PROVE  HeldAt(s, L)' <=> IF s = Held(p) THEN l \in L ELSE HeldAt(s, L)
  <2>1. CASE p = Worker
    <3>1. CallAt(s, L)' <=> CallAt(s, L)
      BY <1>2, <1>3, <1>4, <1>5, <2>1 DEF CallAt
    <3>2. WorkerAt(s, L)' <=> s = Held(p) /\ l \in L
      BY <1>1, <1>2, <1>3, <2>1 DEF WorkerAt
    <3>3. WorkerAt(s, L) => s = Held(p)
      BY <1>1, <2>1 DEF WorkerAt
    <3>4. s = Held(p) => ~CallAt(s, L)
      BY <1>1, <1>6, <2>1 DEF CallAt, LeftBehind, Returned, Live
    <3>5. QED
      BY <3>1, <3>2, <3>3, <3>4 DEF HeldAt
  <2>2. CASE p \in Calls
    <3>1. WorkerAt(s, L)' <=> WorkerAt(s, L)
      BY <1>2, <1>3, <1>5, <2>2 DEF WorkerAt
    <3>2. s # Held(p) => (CallAt(s, L)' <=> CallAt(s, L))
      BY <1>1, <1>2, <1>3, <1>4, <1>5, <2>2 DEF CallAt
    <3>3. s = Held(p) => (CallAt(s, L)' <=> l \in L)
      BY <1>1, <1>2, <1>3, <1>4, <1>5, <2>2, CmdMgrAssumption DEF CallAt, Calls, NoCall
    <3>4. s = Held(p) => ~WorkerAt(s, L)
      BY <1>1, <1>5, <1>6, <2>2 DEF WorkerAt, LeftBehind, Returned, Live
    <3>5. QED
      BY <3>1, <3>2, <3>3, <3>4 DEF HeldAt
  <2>3. QED
    BY <2>1, <2>2
<1>8. ASSUME NEW s \in Slots
      PROVE  /\ CallAt(s, Off)' <=> CallAt(s, Off)
             /\ CallAt(s, Live)' <=> CallAt(s, Live)
  BY <1>2, <1>3, <1>4 DEF CallAt, Live, Off, DirectPCs, DirectSends
<1>9. QED
  BY <1>7, <1>8

\* All but Quiet survives such a step.
LEMMA MovedKeeps ==
    ASSUME IInv, NEW p \in Calls \cup {Worker}, pc[p] \in Live,
           NEW l \in Live, Goto(p, l),
           UNCHANGED <<usbUp, crashed, cmds, slot, pending, wslot, killed>>
    PROVE  /\ Owned' /\ LeftToTheWorker' /\ HeldIsListed'
           /\ Ordered' /\ ConfirmedOnce' /\ Sane'
           /\ pc' \in [Calls \cup {Worker} -> CallPCs \cup WorkerPCs]
           /\ Listed' = Listed /\ (Stuck' <=> Stuck)
<1>1. /\ \A s \in Slots : HeldAt(s, Live)' <=> HeldAt(s, Live)
      /\ \A s \in Slots : CallAt(s, Off)' <=> CallAt(s, Off)
      /\ \A s \in Slots : CallAt(s, Live)' <=> CallAt(s, Live)
  BY Moved, HeldSlot
<1>2. TypeOK /\ Listed' = Listed /\ Listed \subseteq Slots
  BY ListedByIndex DEF IInv, TypeOK, Listed, ToSet
<1>3. /\ pc \in [Calls \cup {Worker} -> CallPCs \cup WorkerPCs]
      /\ pc' = [pc EXCEPT ![p] = l]
  BY DEF IInv, TypeOK, Goto
<1>4. \A s \in Slots : slot[s].by # NoCall => slot[s].by \in Calls
  BY CmdMgrAssumption DEF IInv, TypeOK, Slot, Calls, NoCall
<1>5. pc' \in [Calls \cup {Worker} -> CallPCs \cup WorkerPCs]
  BY <1>3 DEF CallPCs, WorkerPCs, Sends, Live
<1>6. Stuck' <=> Stuck
  BY <1>1, <1>2 DEF Stuck
<1>7. Owned'
  BY <1>3 DEF IInv, Owned, Live
<1>8. LeftToTheWorker'
  BY <1>3, <1>4 DEF IInv, LeftToTheWorker, LeftBehind, Returned, Live, WorkerPCs, Sends
<1>9. HeldIsListed'
  BY <1>1, <1>2 DEF IInv, HeldIsListed
<1>10. Ordered' /\ ConfirmedOnce'
  BY <1>2 DEF IInv, Ordered, ConfirmedOnce
<1>11. Sane'
  <2>1. pc'[Worker] = "idle" => pc[Worker] = "idle"
    BY <1>3 DEF Live
  <2>2. QED
    BY <1>1, <1>2, <1>6, <2>1 DEF IInv, Sane
<1>12. QED
  BY <1>2, <1>5, <1>6, <1>7, <1>8, <1>9, <1>10, <1>11

LEMMA OneInProgress ==
    ASSUME TypeOK, Ordered, NEW s \in Listed, NEW t \in Listed,
           InProgress(s), InProgress(t)
    PROVE  s = t
<1>1. PICK i \in 1..Len(cmds) : cmds[i] = s
  BY ListedByIndex DEF TypeOK
<1>2. PICK j \in 1..Len(cmds) : cmds[j] = t
  BY ListedByIndex DEF TypeOK
<1>3. ~(i < j) /\ ~(j < i)
  BY <1>1, <1>2 DEF Ordered, InProgress
<1>4. QED
  BY <1>1, <1>2, <1>3 DEF TypeOK

\* Who pushes is alone, and the firmware has nothing to confirm.
LEMMA PushesAlone ==
    ASSUME IInv, Undisturbed, NEW s \in Slots, HeldAt(s, Unsent)
    PROVE  /\ s \in Listed /\ InProgress(s)
           /\ Owed = {}
           /\ \A t \in Slots : HeldAt(t, Unsent) => t = s
<1>1. \A t \in Slots : HeldAt(t, Unsent) => t \in Listed /\ InProgress(t)
  BY DEF IInv, Quiet, HeldIsListed, HeldAt, CallAt, WorkerAt, Live, Unsent, InProgress
<1>2. \A t \in Listed : InProgress(t) => t = s
  BY <1>1, OneInProgress DEF IInv
<1>3. ASSUME Owed # {}
      PROVE  FALSE
  <2>1. PICK t \in Listed : InProgress(t) /\ ~HeldAt(t, Unsent)
    BY <1>3 DEF IInv, Quiet
  <2>2. QED
    BY <1>2, <2>1
<1>4. QED
  BY <1>1, <1>2, <1>3

-----------------------------------------------------------------------------
(* aicwf_set_cmd_tx, by a process that has its command on the list, and by *)
(* a call with a direct message; and what the device does meanwhile.       *)

\* What a step of aicwf_set_cmd_tx leaves as it was.
SendStep ==
    /\ UNCHANGED <<usbUp, manager, fw, wslot, killed>>
    /\ cmdBuf' \in Requests \cup {NoReq}
    /\ urb' \in {"idle", "out", "sent"} /\ finished' \in BOOLEAN

\* Who is at L has a process that is there.
LEMMA HeldBySomebody ==
    ASSUME TypeOK, NEW s \in Slots, NEW L, HeldAt(s, L)
    PROVE  \E q \in Calls \cup {Worker} : pc[q] \in L
<1>1. slot[s].by # NoCall => slot[s].by \in Calls
  BY CmdMgrAssumption DEF TypeOK, Slot, Calls, NoCall
<1>2. QED
  BY <1>1 DEF HeldAt, CallAt, WorkerAt

LEMMA ListSends ==
    ASSUME IInv, Watch, NEW p \in Calls \cup {Worker}, pc[p] \in Sends,
           NEW l \in Sends \cup {"wait"}, Goto(p, l), SendStep
    PROVE  /\ Undisturbed' => Undisturbed /\ ~Overlap /\ ~Overlap'
           /\ TypeOK' /\ Owned' /\ LeftToTheWorker' /\ HeldIsListed' /\ Ordered'
           /\ ConfirmedOnce' /\ Sane' /\ Listed' = Listed /\ (Stuck' <=> Stuck)
           /\ \A L \in SUBSET Live : \A s \in Slots :
                 HeldAt(s, L)' <=> IF s = Held(p) THEN l \in L ELSE HeldAt(s, L)
           /\ KeepsDirect
           /\ Undisturbed => \A c \in Calls : pc[c] \notin DirectSends
<1>1. pc[p] \in Live /\ l \in Live
  BY DEF Sends, Live
<1>2. /\ Owned' /\ LeftToTheWorker' /\ HeldIsListed' /\ Ordered' /\ ConfirmedOnce'
      /\ Sane' /\ Listed' = Listed /\ (Stuck' <=> Stuck)
      /\ pc' \in [Calls \cup {Worker} -> CallPCs \cup WorkerPCs]
  BY <1>1, MovedKeeps DEF SendStep
<1>3. \A L \in SUBSET Live : \A s \in Slots :
         HeldAt(s, L)' <=> IF s = Held(p) THEN l \in L ELSE HeldAt(s, L)
  BY <1>1, Moved DEF SendStep
<1>4. beside' \in BOOLEAN /\ (Undisturbed' => Undisturbed /\ ~Overlap')
  BY WatchKeeps DEF SendStep
<1>5. TypeOK'
  BY <1>2, <1>4 DEF SendStep, IInv, TypeOK
<1>6. KeepsDirect
  BY <1>1 DEF IInv, TypeOK, Goto, KeepsDirect, OnTheWay, Live
<1>7. Undisturbed => ~Overlap
  BY DEF IInv, Apart
<1>8. ASSUME Undisturbed, NEW c \in Calls, pc[c] \in DirectSends
      PROVE  FALSE
  <2>1. c # p
    BY <1>8 DEF Sends, DirectSends
  <2>2. QED
    BY <1>7, <1>8, <2>1 DEF Overlap
<1>9. QED
  BY <1>2, <1>3, <1>4, <1>5, <1>6, <1>7, <1>8

LEMMA DirectSendsOn ==
    ASSUME IInv, Watch, NEW p \in Calls \cup {Worker}, pc[p] \in DirectSends,
           NEW l \in DirectPCs, Goto(p, l), SendStep
    PROVE  /\ Undisturbed' => Undisturbed /\ ~Overlap /\ ~Overlap'
           /\ TypeOK' /\ Owned' /\ LeftToTheWorker' /\ HeldIsListed' /\ Ordered'
           /\ ConfirmedOnce' /\ Sane' /\ Listed' = Listed /\ (Stuck' <=> Stuck)
           /\ \A L \in SUBSET Live : \A s \in Slots : HeldAt(s, L)' <=> HeldAt(s, L)
           /\ p \in Calls /\ \A q \in Calls \cup {Worker} : q # p => pc'[q] = pc[q]
           /\ pc'[p] = l
           /\ Undisturbed => \A q \in Calls \cup {Worker} :
                 q # p => pc[q] \notin Sends \cup DirectSends
<1>1. p \in Calls /\ p # Worker
  <2>1. pc[Worker] \notin DirectSends
    BY DEF IInv, LeftToTheWorker, WorkerPCs, Sends, DirectSends
  <2>2. QED
    BY <2>1
<1>2. /\ pc \in [Calls \cup {Worker} -> CallPCs \cup WorkerPCs]
      /\ pc' = [pc EXCEPT ![p] = l]
  BY DEF IInv, TypeOK, Goto
<1>3. /\ pc' \in [Calls \cup {Worker} -> CallPCs \cup WorkerPCs]
      /\ \A q \in Calls \cup {Worker} : q # p => pc'[q] = pc[q]
      /\ pc'[p] = l
  BY <1>2 DEF CallPCs
<1>4. /\ \A s \in Slots : slot[s].by # NoCall => slot[s].by \in Calls
      /\ Listed' = Listed /\ Listed \subseteq Slots
  BY ListedByIndex, CmdMgrAssumption
  DEF SendStep, IInv, TypeOK, Slot, Calls, NoCall, Listed, ToSet
<1>5. /\ pc[p] \notin Live /\ l \notin Live /\ pc[p] \in Off /\ l \in Off
      /\ pc[p] \notin {"new", "ok", "err"} /\ l \notin {"new", "ok", "err"}
  BY DEF Live, Off, DirectPCs, DirectSends
<1>6. \A s \in Slots : \A L \in SUBSET Live :
         (CallAt(s, L)' <=> CallAt(s, L)) /\ (HeldAt(s, L)' <=> HeldAt(s, L))
  BY <1>1, <1>3, <1>4, <1>5 DEF SendStep, CallAt, HeldAt, WorkerAt
<1>7. \A s \in Slots : CallAt(s, Off)' <=> CallAt(s, Off)
  BY <1>3, <1>4, <1>5 DEF SendStep, CallAt
<1>8. Live \in SUBSET Live
  OBVIOUS
<1>9. Stuck' <=> Stuck
  BY <1>4, <1>6, <1>8 DEF SendStep, Stuck
<1>10. Owned'
  BY <1>3, <1>5 DEF SendStep, IInv, Owned
<1>11. LeftToTheWorker'
  BY <1>1, <1>3, <1>4, <1>5 DEF SendStep, IInv, LeftToTheWorker, LeftBehind, Returned
<1>12. HeldIsListed' /\ Ordered' /\ ConfirmedOnce'
  BY <1>4, <1>6, <1>8 DEF SendStep, IInv, HeldIsListed, Ordered, ConfirmedOnce
<1>13. Sane'
  BY <1>1, <1>3, <1>4, <1>6, <1>7, <1>8, <1>9 DEF SendStep, IInv, Sane
<1>14. beside' \in BOOLEAN /\ (Undisturbed' => Undisturbed /\ ~Overlap')
  BY WatchKeeps DEF SendStep
<1>15. TypeOK'
  BY <1>3, <1>14 DEF SendStep, IInv, TypeOK
<1>16. Undisturbed => ~Overlap
  BY DEF IInv, Apart
<1>17. Undisturbed => \A q \in Calls \cup {Worker} :
          q # p => pc[q] \notin Sends \cup DirectSends
  BY <1>1, <1>16 DEF Overlap
<1>18. QED
  BY <1>1, <1>3, <1>4, <1>6, <1>9, <1>10, <1>11, <1>12, <1>13, <1>14, <1>15, <1>16, <1>17

\* What Quiet needs when the list is left alone.
LEMMA StaysQuiet ==
    ASSUME IInv, Undisturbed' => Undisturbed, UNCHANGED <<cmds, slot>>,
           Listed' = Listed, Stuck => Stuck',
           \A s \in Slots : HeldAt(s, Live)' => HeldAt(s, Live),
           \A s \in Slots : HeldAt(s, Unsent)' => HeldAt(s, Unsent),
           Undisturbed' => \A s \in Slots : HeldAt(s, Loaded)' => cmdBuf' = Req(s),
           Undisturbed' =>
              \/ Owed' \subseteq Owed
              \/ \E s \in Listed : InProgress(s) /\ ~HeldAt(s, Unsent)' /\ Owed' = {Req(s)}
    PROVE  Quiet'
<1> SUFFICES ASSUME Undisturbed'
             PROVE  Quiet'
  BY DEF Quiet
<1>1. Listed \subseteq Slots
  BY ListedByIndex DEF IInv, TypeOK
<1>2. \A s \in Slots : (Req(s)' = Req(s)) /\ (InProgress(s)' <=> InProgress(s))
  BY DEF Req, InProgress
<1>3. \A r \in Owed' :
         /\ Owed' = {r}
         /\ \E s \in Listed : /\ InProgress(s) /\ ~HeldAt(s, Unsent)'
                              /\ HeldAt(s, Live)' => Req(s) = r
  <2>1. CASE Owed' \subseteq Owed
    BY <1>1, <2>1 DEF IInv, Quiet
  <2>2. CASE \E s \in Listed : InProgress(s) /\ ~HeldAt(s, Unsent)' /\ Owed' = {Req(s)}
    BY <2>2
  <2>3. QED
    BY <2>1, <2>2
<1>4. QED
  BY <1>1, <1>2, <1>3 DEF IInv, Quiet

\* A process with a listed command goes on; the bus is left alone, or only
\* msg_finished is cleared, or the URB is killed.
LEMMA ListSendsQuietly ==
    ASSUME IInv, Watch, NEW p \in Calls \cup {Worker}, pc[p] \in Sends,
           NEW l \in Sends \cup {"wait"}, Goto(p, l), SendStep, UNCHANGED cmdBuf,
           l \in Loaded => pc[p] \in Loaded, l \in Unsent => pc[p] \in Unsent,
           urb' \in {urb, "idle"}, finished' => finished \/ urb' = "idle"
    PROVE  IInv'
<1>1. /\ Undisturbed' => Undisturbed /\ ~Overlap /\ ~Overlap'
      /\ TypeOK' /\ Owned' /\ LeftToTheWorker' /\ HeldIsListed' /\ Ordered'
      /\ ConfirmedOnce' /\ Sane' /\ Listed' = Listed /\ (Stuck' <=> Stuck)
      /\ \A L \in SUBSET Live : \A s \in Slots :
            HeldAt(s, L)' <=> IF s = Held(p) THEN l \in L ELSE HeldAt(s, L)
      /\ KeepsDirect
      /\ Undisturbed => \A c \in Calls : pc[c] \notin DirectSends
  BY ListSends
<1>2. /\ Live \in SUBSET Live /\ Unsent \in SUBSET Live /\ Loaded \in SUBSET Live
      /\ pc[p] \in Live
  BY DEF Live, Unsent, Loaded, Sends
<1>3. \A L \in SUBSET Live : pc[p] \in L => HeldAt(Held(p), L)
  BY <1>2, HeldSlot
<1>4. /\ \A s \in Slots : HeldAt(s, Live)' => HeldAt(s, Live)
      /\ \A s \in Slots : HeldAt(s, Unsent)' => HeldAt(s, Unsent)
      /\ \A s \in Slots : HeldAt(s, Loaded)' => HeldAt(s, Loaded)
  BY <1>1, <1>2, <1>3
<1>5. Carried' \subseteq Carried /\ Owed' \subseteq Owed
  BY DEF SendStep, Carried, Owed
<1>6. Quiet'
  <2>1. Undisturbed' => \A s \in Slots : HeldAt(s, Loaded)' => cmdBuf' = Req(s)
    BY <1>1, <1>4 DEF IInv, Quiet
  <2>2. QED
    BY <1>1, <1>4, <1>5, <2>1, StaysQuiet DEF SendStep
<1>7. Apart'
  <2> SUFFICES ASSUME Undisturbed'
               PROVE  Apart'
    BY DEF Apart
  <2>1. \A c \in Calls : pc'[c] \notin OnTheWay
    BY <1>1 DEF KeepsDirect, OnTheWay, DirectSends
  <2>2. ~(urb = "out" /\ cmdBuf = NoReq)
    BY <1>1 DEF IInv, Apart, DirectSends
  <2>3. Carried' # {} => fw' = {}
    BY <1>1, <1>5 DEF IInv, Apart, SendStep
  <2>4. QED
    BY <1>1, <2>1, <2>2, <2>3 DEF Apart, OnTheWay, DirectLoaded
<1>8. QED
  BY <1>1, <1>6, <1>7 DEF IInv

\* The same for a direct message.
LEMMA DirectSendsQuietly ==
    ASSUME IInv, Watch, NEW p \in Calls \cup {Worker}, pc[p] \in DirectSends,
           NEW l \in DirectPCs, Goto(p, l), SendStep,
           Undisturbed =>
              /\ cmdBuf' \in {cmdBuf, NoReq}
              /\ Carried' \subseteq Carried
              /\ urb' = "out" => l = "dsent" \/ cmdBuf' # NoReq
              /\ l \in DirectLoaded => cmdBuf' = NoReq
              /\ l = "dsubmit" => ~finished'
              /\ l = "dsent" => ~finished'
    PROVE  IInv'
<1>1. /\ Undisturbed' => Undisturbed /\ ~Overlap /\ ~Overlap'
      /\ TypeOK' /\ Owned' /\ LeftToTheWorker' /\ HeldIsListed' /\ Ordered'
      /\ ConfirmedOnce' /\ Sane' /\ Listed' = Listed /\ (Stuck' <=> Stuck)
      /\ \A L \in SUBSET Live : \A s \in Slots : HeldAt(s, L)' <=> HeldAt(s, L)
      /\ p \in Calls /\ \A q \in Calls \cup {Worker} : q # p => pc'[q] = pc[q]
      /\ pc'[p] = l
      /\ Undisturbed => \A q \in Calls \cup {Worker} :
            q # p => pc[q] \notin Sends \cup DirectSends
  BY DirectSendsOn
<1>2. Live \in SUBSET Live /\ Unsent \in SUBSET Live /\ Loaded \in SUBSET Live
  BY DEF Live, Unsent, Loaded
<1>3. Undisturbed => \A s \in Slots : ~HeldAt(s, Loaded)
  <2>1. pc[p] \notin Loaded
    BY DEF DirectSends, Loaded
  <2>2. Undisturbed => \A q \in Calls \cup {Worker} : pc[q] \notin Loaded
    BY <1>1, <2>1 DEF Loaded, Sends
  <2>3. QED
    BY <2>2, HeldBySomebody DEF IInv
<1>4. Undisturbed => Owed' \subseteq Owed
  BY DEF SendStep, Owed
<1>5. Quiet'
  <2>1. Undisturbed' => \A s \in Slots : HeldAt(s, Loaded)' => cmdBuf' = Req(s)
    BY <1>1, <1>2, <1>3
  <2>2. QED
    BY <1>1, <1>2, <1>4, <2>1, StaysQuiet DEF SendStep
<1>6. Apart'
  <2> SUFFICES ASSUME Undisturbed'
               PROVE  Apart'
    BY DEF Apart
  <2>1. \A c \in Calls : c # p => pc'[c] \notin DirectSends
    BY <1>1
  <2>2. Carried' # {} => fw' = {}
    BY <1>1 DEF SendStep, IInv, Apart
  <2>3. urb' = "out" /\ cmdBuf' = NoReq => \E c \in Calls : pc'[c] = "dsent"
    BY <1>1
  <2>4. QED
    BY <1>1, <2>1, <2>2, <2>3 DEF Apart, DirectSends, DirectLoaded
<1>7. QED
  BY <1>1, <1>5, <1>6 DEF IInv

LEMMA RequestOfHeld ==
    ASSUME IInv, NEW p \in Calls \cup {Worker}, pc[p] \in Live
    PROVE  Req(Held(p)) \in Requests /\ Req(Held(p)) # NoReq
<1>1. Held(p) \in Slots /\ slot[Held(p)].by # NoCall
  <2>1. HeldAt(Held(p), Live) /\ Held(p) \in Slots
    BY HeldSlot
  <2>2. QED
    BY <2>1 DEF IInv, HeldAt, CallAt, WorkerAt, LeftToTheWorker, LeftBehind
<1>2. slot[Held(p)] \in Slot
  BY <1>1 DEF IInv, TypeOK
<1>3. slot[Held(p)].by \in Calls /\ slot[Held(p)].id \in Ids
  BY <1>1, <1>2, CmdMgrAssumption DEF Slot, Calls, NoCall
<1>4. QED
  BY <1>3 DEF Req, Requests, NoReq

\* The buffer is filled when it is nobody else's.
LEMMA ListFills ==
    ASSUME IInv, Watch, NEW p \in Calls \cup {Worker}, pc[p] = "fill",
           cmdBuf' = Req(Held(p)), Goto(p, "tx"),
           UNCHANGED <<usbUp, manager, urb, finished, fw, wslot, killed>>
    PROVE  IInv'
<1>1. pc[p] \in Live /\ pc[p] \in Sends /\ pc[p] \in Unsent /\ "tx" \in Sends \cup {"wait"}
  BY DEF Live, Sends, Unsent
<1>2. SendStep
  BY <1>1, RequestOfHeld DEF SendStep, IInv, TypeOK
<1>3. /\ Undisturbed' => Undisturbed /\ ~Overlap /\ ~Overlap'
      /\ TypeOK' /\ Owned' /\ LeftToTheWorker' /\ HeldIsListed' /\ Ordered'
      /\ ConfirmedOnce' /\ Sane' /\ Listed' = Listed /\ (Stuck' <=> Stuck)
      /\ \A L \in SUBSET Live : \A s \in Slots :
            HeldAt(s, L)' <=> IF s = Held(p) THEN "tx" \in L ELSE HeldAt(s, L)
      /\ KeepsDirect
      /\ Undisturbed => \A c \in Calls : pc[c] \notin DirectSends
  BY <1>1, <1>2, ListSends
<1>4. /\ Live \in SUBSET Live /\ Unsent \in SUBSET Live /\ Loaded \in SUBSET Live
      /\ "tx" \in Live /\ "tx" \in Unsent /\ "tx" \in Loaded
  BY DEF Live, Unsent, Loaded
<1>5. Held(p) \in Slots /\ HeldAt(Held(p), Unsent) /\ HeldAt(Held(p), Live)
  BY <1>1, HeldSlot
<1>6. Undisturbed => /\ Owed = {} /\ urb # "out"
                     /\ \A s \in Slots : HeldAt(s, Unsent) => s = Held(p)
  <2>1. Undisturbed => /\ Owed = {}
                       /\ \A s \in Slots : HeldAt(s, Unsent) => s = Held(p)
    BY <1>5, PushesAlone
  <2>2. Undisturbed => ~(urb = "out" /\ cmdBuf = NoReq)
    BY <1>3 DEF IInv, Apart, DirectSends
  <2>3. QED
    BY <2>1, <2>2 DEF Owed, Carried
<1>7. Undisturbed => Owed' = {} /\ Carried' = {}
  BY <1>6 DEF Owed, Carried
<1>8. Quiet'
  <2>1. \A s \in Slots : HeldAt(s, Loaded) => HeldAt(s, Unsent)
    BY DEF HeldAt, CallAt, WorkerAt, Loaded, Unsent
  <2>2. Undisturbed' => \A s \in Slots : HeldAt(s, Loaded)' => cmdBuf' = Req(s)
    BY <1>3, <1>4, <1>6, <2>1
  <2>3. /\ \A s \in Slots : HeldAt(s, Live)' => HeldAt(s, Live)
        /\ \A s \in Slots : HeldAt(s, Unsent)' => HeldAt(s, Unsent)
    BY <1>3, <1>4, <1>5
  <2>4. QED
    BY <1>3, <1>7, <2>2, <2>3, StaysQuiet
<1>9. Apart'
  <2>1. Undisturbed => \A c \in Calls : pc'[c] \notin OnTheWay
    BY <1>3 DEF KeepsDirect, OnTheWay, DirectSends
  <2>2. QED
    BY <1>3, <1>6, <1>7, <2>1 DEF Apart, OnTheWay, DirectLoaded
<1>10. QED
  BY <1>3, <1>8, <1>9 DEF IInv

\* The URB goes out with the request of the process that submits it.
LEMMA ListSubmits ==
    ASSUME IInv, Watch, NEW p \in Calls \cup {Worker}, pc[p] = "submit",
           urb = "idle", urb' = "out", Goto(p, "sent"),
           UNCHANGED <<usbUp, manager, cmdBuf, finished, fw, wslot, killed>>
    PROVE  IInv'
<1>1. pc[p] \in Live /\ pc[p] \in Sends /\ pc[p] \in Unsent /\ pc[p] \in Loaded
      /\ "sent" \in Sends \cup {"wait"}
  BY DEF Live, Sends, Unsent, Loaded
<1>2. SendStep
  BY DEF SendStep, IInv, TypeOK
<1>3. /\ Undisturbed' => Undisturbed /\ ~Overlap /\ ~Overlap'
      /\ TypeOK' /\ Owned' /\ LeftToTheWorker' /\ HeldIsListed' /\ Ordered'
      /\ ConfirmedOnce' /\ Sane' /\ Listed' = Listed /\ (Stuck' <=> Stuck)
      /\ \A L \in SUBSET Live : \A s \in Slots :
            HeldAt(s, L)' <=> IF s = Held(p) THEN "sent" \in L ELSE HeldAt(s, L)
      /\ KeepsDirect
      /\ Undisturbed => \A c \in Calls : pc[c] \notin DirectSends
  BY <1>1, <1>2, ListSends
<1>4. /\ Live \in SUBSET Live /\ Unsent \in SUBSET Live /\ Loaded \in SUBSET Live
      /\ "sent" \in Live /\ "sent" \notin Unsent /\ "sent" \notin Loaded
  BY DEF Live, Unsent, Loaded
<1>5. PICK h \in Slots : /\ h = Held(p) /\ HeldAt(h, Unsent) /\ HeldAt(h, Live)
                          /\ HeldAt(h, Loaded)
  BY <1>1, HeldSlot
<1>6. Undisturbed => /\ Owed = {} /\ h \in Listed /\ InProgress(h)
                     /\ cmdBuf = Req(h) /\ cmdBuf # NoReq
  BY <1>1, <1>5, PushesAlone, RequestOfHeld DEF IInv, Quiet
<1>7. Undisturbed => Owed' = {Req(h)} /\ fw' = {}
  BY <1>6 DEF Owed, Carried
<1>8. Quiet'
  <2>1. /\ \A s \in Slots : HeldAt(s, Live)' => HeldAt(s, Live)
        /\ \A s \in Slots : HeldAt(s, Unsent)' => HeldAt(s, Unsent)
        /\ \A s \in Slots : HeldAt(s, Loaded)' => HeldAt(s, Loaded)
        /\ ~HeldAt(h, Unsent)'
    BY <1>3, <1>4, <1>5
  <2>2. Undisturbed' => \A s \in Slots : HeldAt(s, Loaded)' => cmdBuf' = Req(s)
    BY <1>3, <2>1 DEF IInv, Quiet
  <2>3. Undisturbed' =>
           \E s \in Listed : InProgress(s) /\ ~HeldAt(s, Unsent)' /\ Owed' = {Req(s)}
    BY <1>3, <1>6, <1>7, <2>1
  <2>4. QED
    BY <1>3, <2>1, <2>2, <2>3, StaysQuiet
<1>9. Apart'
  <2>1. Undisturbed => \A c \in Calls : pc'[c] \notin OnTheWay
    BY <1>3 DEF KeepsDirect, OnTheWay, DirectSends
  <2>2. QED
    BY <1>3, <1>6, <1>7, <2>1 DEF Apart, OnTheWay, DirectLoaded
<1>10. QED
  BY <1>3, <1>8, <1>9 DEF IInv

\* What a direct message on its way knows about the bus.
LEMMA DirectKnows ==
    ASSUME IInv, Undisturbed, NEW p \in Calls \cup {Worker}, pc[p] \in DirectSends
    PROVE  /\ pc[p] # "dsent" => urb = "idle"
           /\ pc[p] \in DirectLoaded => cmdBuf = NoReq
           /\ pc[p] = "dsubmit" => ~finished
           /\ pc[p] = "dsent" /\ urb # "idle" => ~finished
<1>1. p \in Calls
  <2>1. pc[Worker] \notin DirectSends
    BY DEF IInv, LeftToTheWorker, WorkerPCs, Sends, DirectSends
  <2>2. QED
    BY <2>1
<1>2. QED
  BY <1>1 DEF IInv, Apart, Overlap, DirectSends

LEMMA FillStep ==
    ASSUME IInv, Watch, NEW p \in Calls \cup {Worker}, Fill(p)
    PROVE  IInv'
<1>1. CASE pc[p] = "fill"
  <2>1. CASE cmdBuf' = Req(Held(p)) /\ Goto(p, "tx")
    BY <1>1, <2>1, ListFills DEF Fill
  <2>2. CASE UNCHANGED cmdBuf /\ Goto(p, "wait")
    <3>1. /\ pc[p] \in Sends /\ "wait" \in Sends \cup {"wait"} /\ SendStep
          /\ "wait" \notin Loaded /\ "wait" \notin Unsent
      BY <1>1, <2>2 DEF Fill, SendStep, IInv, TypeOK, Sends, Loaded, Unsent
    <3>2. urb' \in {urb, "idle"} /\ (finished' => finished \/ urb' = "idle")
      BY DEF Fill
    <3>3. QED
      BY <2>2, <3>1, <3>2, ListSendsQuietly
  <2>3. QED
    BY <1>1, <2>1, <2>2, Places DEF Fill
<1>2. CASE pc[p] = "dfill"
  <2>1. pc[p] \in DirectSends /\ (Undisturbed => urb = "idle")
    BY <1>2, DirectKnows DEF DirectSends
  <2>2. CASE cmdBuf' = NoReq /\ Goto(p, "dtx")
    <3>1. "dtx" \in DirectPCs /\ SendStep
      BY <2>2 DEF Fill, SendStep, IInv, TypeOK, DirectPCs, DirectSends
    <3>2. Undisturbed => urb' = "idle" /\ Carried' = {}
      BY <2>1 DEF Fill, Carried
    <3>3. QED
      BY <2>1, <2>2, <3>1, <3>2, DirectSendsQuietly
  <2>3. CASE UNCHANGED cmdBuf /\ Goto(p, "free")
    <3>1. "free" \in DirectPCs /\ "free" \notin DirectLoaded /\ SendStep
      BY <2>3 DEF Fill, SendStep, IInv, TypeOK, DirectPCs, DirectLoaded
    <3>2. Undisturbed => urb' = "idle" /\ Carried' = {}
      BY <2>1 DEF Fill, Carried
    <3>3. QED
      BY <2>1, <2>3, <3>1, <3>2, DirectSendsQuietly
  <2>4. QED
    BY <1>2, <2>2, <2>3, Places DEF Fill
<1>3. QED
  BY <1>1, <1>2, Places DEF Fill

LEMMA TxMsgStep ==
    ASSUME IInv, Watch, NEW p \in Calls \cup {Worker}, TxMsg(p)
    PROVE  IInv'
<1>1. SendStep
  BY DEF TxMsg, SendStep, IInv, TypeOK
<1>2. CASE pc[p] = "tx"
  <2>1. PICK l \in {"submit", "wait"} : Goto(p, l)
    BY <1>2, Places DEF TxMsg
  <2>2. /\ pc[p] \in Sends /\ l \in Sends \cup {"wait"}
        /\ pc[p] \in Loaded /\ pc[p] \in Unsent
    BY <1>2 DEF Sends, Loaded, Unsent
  <2>3. urb' = urb /\ cmdBuf' = cmdBuf /\ (finished' => finished)
    BY DEF TxMsg
  <2>4. QED
    BY <1>1, <2>1, <2>2, <2>3, ListSendsQuietly
<1>3. CASE pc[p] = "dtx"
  <2>1. /\ pc[p] \in DirectSends
        /\ Undisturbed => urb = "idle" /\ cmdBuf = NoReq
    BY <1>3, DirectKnows DEF DirectSends, DirectLoaded
  <2>2. Undisturbed => urb' = "idle" /\ cmdBuf' = NoReq /\ Carried' = {}
    BY <2>1 DEF TxMsg, Carried
  <2>3. CASE finished' = FALSE /\ Goto(p, "dsubmit")
    <3>1. "dsubmit" \in DirectPCs
      BY DEF DirectPCs, DirectSends
    <3>2. QED
      BY <1>1, <2>1, <2>2, <2>3, <3>1, DirectSendsQuietly
  <2>4. CASE Goto(p, "free")
    <3>1. "free" \in DirectPCs /\ "free" \notin DirectLoaded
      BY DEF DirectPCs, DirectLoaded
    <3>2. QED
      BY <1>1, <2>1, <2>2, <2>4, <3>1, DirectSendsQuietly
  <2>5. QED
    BY <1>3, <2>3, <2>4, Places DEF TxMsg
<1>4. QED
  BY <1>2, <1>3, Places DEF TxMsg

LEMMA SubmitStep ==
    ASSUME IInv, Watch, NEW p \in Calls \cup {Worker}, Submit(p)
    PROVE  IInv'
<1>1. SendStep
  BY DEF Submit, SendStep, IInv, TypeOK
<1>2. CASE pc[p] = "submit"
  <2>1. CASE urb = "idle" /\ urb' = "out" /\ Goto(p, "sent")
    BY <1>2, <2>1, ListSubmits DEF Submit
  <2>2. CASE urb' = urb /\ Goto(p, "wait")
    <3>1. /\ pc[p] \in Sends /\ "wait" \in Sends \cup {"wait"}
          /\ "wait" \notin Loaded /\ "wait" \notin Unsent
      BY <1>2 DEF Sends, Loaded, Unsent
    <3>2. cmdBuf' = cmdBuf /\ finished' = finished
      BY DEF Submit
    <3>3. QED
      BY <1>1, <2>2, <3>1, <3>2, ListSendsQuietly
  <2>3. QED
    BY <1>2, <2>1, <2>2, Places DEF Submit
<1>3. CASE pc[p] = "dsubmit"
  <2>1. /\ pc[p] \in DirectSends
        /\ Undisturbed => urb = "idle" /\ cmdBuf = NoReq /\ ~finished
    BY <1>3, DirectKnows DEF DirectSends, DirectLoaded
  <2>2. Undisturbed => cmdBuf' = NoReq /\ Carried' = {} /\ ~finished'
    BY <2>1 DEF Submit, Carried
  <2>3. CASE Goto(p, "dsent")
    <3>1. "dsent" \in DirectPCs /\ "dsent" \notin DirectLoaded
      BY DEF DirectPCs, DirectSends, DirectLoaded
    <3>2. QED
      BY <1>1, <2>1, <2>2, <2>3, <3>1, DirectSendsQuietly
  <2>4. CASE urb' = urb /\ Goto(p, "free")
    <3>1. "free" \in DirectPCs /\ "free" \notin DirectLoaded
      BY DEF DirectPCs, DirectLoaded
    <3>2. Undisturbed => urb' # "out"
      BY <2>1, <2>4
    <3>3. QED
      BY <1>1, <2>1, <2>2, <2>4, <3>1, <3>2, DirectSendsQuietly
  <2>5. QED
    BY <1>3, <2>3, <2>4, Places DEF Submit
<1>4. QED
  BY <1>2, <1>3, Places DEF Submit

LEMMA TxDoneStep ==
    ASSUME IInv, Watch, NEW p \in Calls \cup {Worker}, TxDone(p)
    PROVE  IInv'
<1>1. SendStep
  BY DEF TxDone, SendStep, IInv, TypeOK
<1>2. /\ cmdBuf' = cmdBuf /\ urb' \in {urb, "idle"}
      /\ finished' => finished \/ urb' = "idle"
      /\ urb' # "idle" => finished
  BY DEF TxDone
<1>3. CASE pc[p] = "sent" /\ Goto(p, "wait")
  <2>1. /\ pc[p] \in Sends /\ "wait" \in Sends \cup {"wait"}
        /\ "wait" \notin Loaded /\ "wait" \notin Unsent
    BY <1>3 DEF Sends, Loaded, Unsent
  <2>2. QED
    BY <1>1, <1>2, <1>3, <2>1, ListSendsQuietly
<1>4. CASE pc[p] = "dsent" /\ Goto(p, "free")
  <2>1. pc[p] \in DirectSends /\ (Undisturbed /\ urb # "idle" => ~finished)
    BY <1>4, DirectKnows DEF DirectSends
  <2>2. Undisturbed => urb' = "idle" /\ Carried' = {}
    BY <1>2, <2>1 DEF Carried
  <2>3. "free" \in DirectPCs /\ "free" \notin DirectLoaded
    BY DEF DirectPCs, DirectLoaded
  <2>4. QED
    BY <1>1, <1>2, <1>4, <2>1, <2>2, <2>3, DirectSendsQuietly
<1>5. QED
  BY <1>3, <1>4, Places DEF TxDone

\* The device and the completion handler touch the bus only.
LEMMA BusMoves ==
    ASSUME IInv, Watch, UNCHANGED <<usbUp, manager, cmdBuf, pc, wslot, killed>>,
           urb' \in {"idle", "out", "sent"}, finished' \in BOOLEAN, fw' \subseteq Requests,
           Owed' \subseteq Owed, Undisturbed' /\ Undisturbed => Apart'
    PROVE  IInv'
<1>1. beside' \in BOOLEAN /\ (Undisturbed' => Undisturbed)
  BY WatchKeeps
<1>2. Listed' = Listed
  BY DEF Listed
<1>3. \A s : \A L : (CallAt(s, L)' <=> CallAt(s, L)) /\ (HeldAt(s, L)' <=> HeldAt(s, L))
  BY DEF HeldAt, CallAt, WorkerAt
<1>4. Stuck' <=> Stuck
  BY <1>2, <1>3 DEF Stuck
<1>5. TypeOK' /\ Owned' /\ LeftToTheWorker' /\ Ordered' /\ ConfirmedOnce'
  BY <1>1, <1>2 DEF IInv, TypeOK, Owned, LeftToTheWorker, LeftBehind, Returned, Ordered,
                    ConfirmedOnce
<1>6. HeldIsListed' /\ Sane'
  BY <1>2, <1>3, <1>4 DEF IInv, HeldIsListed, Sane
<1>7. Quiet'
  <2>1. Undisturbed' => \A s \in Slots : HeldAt(s, Loaded)' => cmdBuf' = Req(s)
    BY <1>1, <1>3 DEF IInv, Quiet
  <2>2. QED
    BY <1>1, <1>2, <1>3, <1>4, <2>1, StaysQuiet
<1>8. Apart'
  BY <1>1 DEF Apart
<1>9. QED
  BY <1>5, <1>6, <1>7, <1>8 DEF IInv

LEMMA TransferredStep ==
    ASSUME IInv, Watch, Transferred
    PROVE  IInv'
<1>1. /\ urb = "out" /\ urb' = "sent" /\ finished' = finished
      /\ fw' = fw \cup ({cmdBuf} \ {NoReq})
      /\ UNCHANGED <<usbUp, manager, cmdBuf, pc, wslot, killed>>
  BY DEF Transferred
<1>2. Owed' = Owed /\ Carried' = {} /\ fw' \subseteq Requests
  BY <1>1 DEF Owed, Carried, IInv, TypeOK
<1>3. Undisturbed' => ~Overlap'
  BY <1>1, WatchKeeps
<1>4. Undisturbed' /\ Undisturbed => Apart'
  BY <1>1, <1>2, <1>3 DEF IInv, Apart
<1>5. QED
  BY <1>1, <1>2, <1>4, BusMoves DEF IInv, TypeOK

LEMMA UrbDoneStep ==
    ASSUME IInv, Watch, UrbDone
    PROVE  IInv'
<1>1. /\ urb # "idle" /\ urb' = "idle" /\ finished' = TRUE
      /\ UNCHANGED <<usbUp, manager, cmdBuf, fw, pc, wslot, killed>>
  BY DEF UrbDone
<1>2. Owed' \subseteq Owed /\ Carried' = {} /\ fw' \subseteq Requests
  BY <1>1 DEF Owed, Carried, IInv, TypeOK
<1>3. Undisturbed' => ~Overlap'
  BY <1>1, WatchKeeps
<1>4. Undisturbed => \A c \in Calls : pc[c] # "dsubmit"
  BY <1>1 DEF IInv, Apart, Overlap
<1>5. Undisturbed' /\ Undisturbed => Apart'
  BY <1>1, <1>2, <1>3, <1>4 DEF IInv, Apart
<1>6. QED
  BY <1>1, <1>2, <1>5, BusMoves

-----------------------------------------------------------------------------
LEMMA TimesOutStep ==
    ASSUME IInv, Watch, NEW p \in Calls \cup {Worker}, TimesOut(p)
    PROVE  IInv'
<1>1. pc[p] = "wait" /\ pc[p] \in Live /\ Goto(p, "tmo") /\ "tmo" \in Live
  BY DEF TimesOut, Live
<1>2. /\ Owned' /\ LeftToTheWorker' /\ HeldIsListed' /\ Ordered' /\ ConfirmedOnce'
      /\ Sane' /\ Listed' = Listed /\ (Stuck' <=> Stuck)
      /\ pc' \in [Calls \cup {Worker} -> CallPCs \cup WorkerPCs]
  BY <1>1, MovedKeeps DEF TimesOut
<1>3. \A L \in SUBSET Live : \A s \in Slots :
         HeldAt(s, L)' <=> IF s = Held(p) THEN "tmo" \in L ELSE HeldAt(s, L)
  BY <1>1, Moved DEF TimesOut
<1>4. /\ Unsent \in SUBSET Live /\ Loaded \in SUBSET Live /\ Live \in SUBSET Live
      /\ "tmo" \notin Unsent /\ "tmo" \notin Loaded
  BY DEF Live, Unsent, Loaded
<1>5. /\ \A s \in Slots : HeldAt(s, Unsent)' => HeldAt(s, Unsent)
      /\ \A s \in Slots : HeldAt(s, Loaded)' => HeldAt(s, Loaded)
  BY <1>3, <1>4
<1>6. \A s \in Slots : HeldAt(s, Live)' => HeldAt(s, Live)
  BY <1>1, <1>3, <1>4, HeldSlot
<1>7. Listed \subseteq Slots
  BY ListedByIndex DEF IInv, TypeOK
<1>8. beside' \in BOOLEAN /\ (Undisturbed' => Undisturbed) /\ Owed' = Owed /\ Apart'
  <2>1. KeepsDirect
    BY <1>1 DEF IInv, TypeOK, Goto, KeepsDirect, OnTheWay
  <2>2. QED
    BY <2>1, BusUntouched DEF TimesOut
<1>9. Quiet'
  BY <1>2, <1>5, <1>6, <1>7, <1>8 DEF TimesOut, IInv, Quiet, InProgress, Req
<1>10. QED
  BY <1>1, <1>2, <1>8, <1>9 DEF TimesOut, IInv, TypeOK, CallPCs

-----------------------------------------------------------------------------
(* The confirmation.  Only a slot that waits for it changes. *)

LEMMA MsgIndStep ==
    ASSUME IInv, Watch, NEW r \in Requests, MsgInd(r)
    PROVE  IInv'
<1>1. /\ r \in fw /\ fw' = fw \ {r}
      /\ UNCHANGED <<usbUp, crashed, cmds, pending, cmdBuf, urb, finished, pc, wslot, killed>>
  BY DEF MsgInd
<1>2. /\ cmds \in Seq(Slots) /\ Listed \subseteq Slots /\ Listed' = Listed
      /\ slot \in [Slots -> Slot] /\ DOMAIN cmds = 1..Len(cmds)
      /\ \A s : s \in Listed <=> \E i \in 1..Len(cmds) : cmds[i] = s
  BY <1>1, ListedByIndex DEF IInv, TypeOK, Listed
<1>3. /\ beside' \in BOOLEAN /\ (Undisturbed' => Undisturbed)
      /\ Undisturbed => /\ r \in Owed /\ Owed' = {}
                        /\ \A s \in Slots : ~HeldAt(s, Unsent)
      /\ Apart'
  <2>1. beside' \in BOOLEAN /\ (Undisturbed' => Undisturbed /\ ~Overlap')
    BY <1>1, WatchKeeps
  <2>2. r \in Owed /\ fw' \subseteq fw /\ Carried' = Carried
    BY <1>1 DEF Owed, Carried
  <2>3. Undisturbed => fw = {r} /\ Carried = {}
    <3>1. Undisturbed => Owed = {r} /\ (Carried # {} => fw = {})
      BY <2>2 DEF IInv, Quiet, Apart
    <3>2. QED
      BY <1>1, <3>1 DEF Owed
  <2>4. Undisturbed => Owed' = {}
    BY <1>1, <2>2, <2>3 DEF Owed
  <2>5. Undisturbed => \A s \in Slots : ~HeldAt(s, Unsent)
    BY <2>2, PushesAlone
  <2>6. Apart'
    BY <1>1, <2>1, <2>2, <2>3 DEF IInv, Apart
  <2>7. QED
    BY <2>1, <2>2, <2>4, <2>5, <2>6
<1>4. CASE UNCHANGED slot
  <2>1. Quiet'
    <3>1. \A s \in Slots : ~HeldAt(s, Loaded) \/ HeldAt(s, Unsent)
      BY DEF HeldAt, CallAt, WorkerAt, Loaded, Unsent
    <3>2. QED
      BY <1>1, <1>2, <1>3, <1>4, <3>1
      DEF IInv, Quiet, HeldAt, CallAt, WorkerAt, Stuck, Req
  <2>2. QED
    BY <1>1, <1>2, <1>3, <1>4, <2>1
    DEF IInv, TypeOK, Owned, LeftToTheWorker, LeftBehind, Returned, HeldIsListed,
        Ordered, ConfirmedOnce, Sane, Stuck, HeldAt, CallAt, WorkerAt
<1>5. ASSUME NEW i \in 1..Len(cmds), FirstMatch(i, r),
             slot' = [slot EXCEPT ![cmds[i]] = [@ EXCEPT !.cfm = FALSE, !.comp = r]]
      PROVE  IInv'
  <2> DEFINE t == cmds[i]
  <2>1. t \in Listed /\ t \in Slots /\ slot[t].cfm
    BY <1>2, <1>5 DEF FirstMatch, WaitsFor
  <2> HIDE DEF t
  <2>2. slot' = [slot EXCEPT ![t] = [@ EXCEPT !.cfm = FALSE, !.comp = r]]
    BY <1>5 DEF t
  <2>3. slot' \in [Slots -> Slot]
    <3>1. [slot[t] EXCEPT !.cfm = FALSE, !.comp = r] \in Slot
      BY <1>2, <2>1 DEF Slot
    <3>2. QED
      BY <1>2, <2>1, <2>2, <3>1
  <2>4. /\ \A s \in Slots : s # t => slot'[s] = slot[s]
        /\ slot[t] \in Slot
        /\ slot'[t] = [slot[t] EXCEPT !.cfm = FALSE, !.comp = r]
    BY <1>2, <2>1, <2>2
  <2>5. ~slot'[t].cfm
    BY <2>4 DEF Slot
  <2>6. \A s \in Slots :
           /\ slot'[s].by = slot[s].by /\ slot'[s].used = slot[s].used
           /\ slot'[s].push = slot[s].push /\ slot'[s].id = slot[s].id
           /\ slot'[s].kind = slot[s].kind
    BY <2>4 DEF Slot
  <2>7. \A s \in Slots : \A L : (CallAt(s, L)' <=> CallAt(s, L)) /\ (HeldAt(s, L)' <=> HeldAt(s, L))
    BY <1>1, <2>6 DEF HeldAt, CallAt, WorkerAt
  <2>8. Stuck' <=> Stuck
    BY <1>2, <2>6, <2>7 DEF Stuck
  <2>9. TypeOK'
    BY <1>1, <1>3, <2>3 DEF IInv, TypeOK
  <2>10. Owned' /\ LeftToTheWorker'
    BY <1>1, <2>6 DEF IInv, Owned, LeftToTheWorker, LeftBehind, Returned
  <2>11. HeldIsListed'
    BY <1>2, <2>6, <2>7 DEF IInv, HeldIsListed
  <2>12. \A s \in Slots : slot'[s].cfm => s # t /\ slot[s].cfm
    BY <2>4, <2>5
  <2>13. Ordered' /\ ConfirmedOnce'
    <3>1. \A k \in 1..Len(cmds) : cmds[k] \in Slots
      BY <1>2
    <3>2. QED
      BY <1>1, <1>2, <2>4, <2>6, <2>12, <3>1 DEF IInv, Ordered, ConfirmedOnce
  <2>14. Sane'
    BY <1>1, <1>2, <2>1, <2>4, <2>6, <2>7, <2>8 DEF IInv, Sane
  <2>15. ASSUME Undisturbed, NEW u \in Listed, slot[u].push, ~slot'[u].cfm
         PROVE  Stuck
    <3>1. PICK s \in Listed :
             InProgress(s) /\ (HeldAt(s, Live) => slot[s].id = r[2])
      BY <1>3, <2>15 DEF IInv, Quiet, Req
    <3>2. CASE ~HeldAt(s, Live)
      BY <3>1, <3>2 DEF Stuck, InProgress
    <3>3. CASE ~slot[u].cfm
      BY <2>15, <3>3 DEF IInv, Quiet
    <3>4. CASE slot[s].id = r[2] /\ u = t
      <4>1. PICK k \in 1..Len(cmds) : cmds[k] = s
        BY <1>2
      <4>2. WaitsFor(cmds[k], r)
        BY <3>1, <3>4, <4>1 DEF WaitsFor, InProgress
      <4>3. ~(k < i)
        BY <1>2, <1>5, <4>2 DEF FirstMatch
      <4>4. ~(i < k)
        BY <2>15, <3>1, <3>4, <4>1 DEF IInv, Ordered, InProgress, t
      <4>5. s = t
        BY <1>2, <4>1, <4>3, <4>4 DEF t
      <4>6. QED
        BY <2>15, <3>1, <3>4, <4>5 DEF InProgress
    <3>5. QED
      BY <1>2, <2>4, <2>15, <3>1, <3>2, <3>3, <3>4
  <2>16. ASSUME Undisturbed, HeldAt(t, Live)
         PROVE  Req(t) = r
    <3>1. InProgress(t)
      BY <2>1, <2>16 DEF IInv, HeldIsListed, InProgress
    <3>2. PICK s \in Listed : InProgress(s) /\ (HeldAt(s, Live) => Req(s) = r)
      BY <1>3, <2>16 DEF IInv, Quiet
    <3>3. s = t
      BY <2>1, <3>1, <3>2, OneInProgress DEF IInv
    <3>4. QED
      BY <2>16, <3>2, <3>3
  <2>17. ASSUME Undisturbed, NEW s \in Slots, HeldAt(s, Live), slot'[s].comp # NoReq
         PROVE  slot'[s].comp = Req(s)'
    <3>1. Req(s)' = Req(s)
      BY <2>6 DEF Req
    <3>2. CASE s = t
      <4>1. slot'[t].comp = r
        BY <2>4 DEF Slot
      <4>2. QED
        BY <2>16, <2>17, <3>1, <3>2, <4>1
    <3>3. CASE s # t
      BY <2>4, <2>17, <3>1, <3>3 DEF IInv, Quiet
    <3>4. QED
      BY <3>2, <3>3
  <2>18. Quiet'
    <3>1. \A s \in Slots : HeldAt(s, Loaded) => HeldAt(s, Unsent)
      BY DEF HeldAt, CallAt, WorkerAt, Loaded, Unsent
    <3>2. QED
      BY <1>1, <1>2, <1>3, <2>6, <2>7, <2>8, <2>15, <2>17, <3>1 DEF Quiet
  <2>19. QED
    BY <1>3, <2>9, <2>10, <2>11, <2>13, <2>14, <2>18 DEF IInv
<1>6. QED
  BY <1>2, <1>4, <1>5 DEF MsgInd

-----------------------------------------------------------------------------
(* A call takes a slot, and gives it back when it is refused. *)

LEMMA SendNothingStep ==
    ASSUME IInv, Watch, NEW c \in Calls, SendNothing(c)
    PROVE  IInv'
<1> DEFINE l == IF usbUp THEN "err" ELSE "ok"
<1>1. /\ pc[c] = "new" /\ pc' = [pc EXCEPT ![c] = l]
      /\ UNCHANGED <<usbUp, manager, bus, wslot, killed>>
  BY DEF SendNothing, Goto
<1>2. l \in {"ok", "err"}
  OBVIOUS
<1> HIDE DEF l
<1>3. c # Worker /\ c \in Calls \cup {Worker}
  BY CmdMgrAssumption DEF Calls, Worker
<1>4. /\ TypeOK
      /\ pc' \in [Calls \cup {Worker} -> CallPCs \cup WorkerPCs]
      /\ \A p \in Calls \cup {Worker} : p # c => pc'[p] = pc[p]
      /\ pc'[c] = l
  BY <1>1, <1>2 DEF IInv, TypeOK, CallPCs
<1>5. \A s \in Slots :
         slot[s].by # c /\ (slot[s].by # NoCall => slot[s].by \in Calls)
  BY <1>1, CmdMgrAssumption DEF IInv, TypeOK, Owned, Slot, Calls, NoCall
<1>6. \A s \in Slots : \A L : (CallAt(s, L)' <=> CallAt(s, L)) /\ (HeldAt(s, L)' <=> HeldAt(s, L))
  BY <1>1, <1>3, <1>4, <1>5 DEF CallAt, HeldAt, WorkerAt
<1>7. Listed' = Listed /\ Listed \subseteq Slots
  BY <1>1, ListedByIndex DEF IInv, TypeOK, Listed
<1>8. Stuck' <=> Stuck
  BY <1>1, <1>6, <1>7 DEF Stuck
<1>14. beside' \in BOOLEAN /\ (Undisturbed' => Undisturbed) /\ Owed' = Owed /\ Apart'
  <2>1. KeepsDirect
    BY <1>1, <1>2, <1>3, <1>4 DEF KeepsDirect, OnTheWay
  <2>2. QED
    BY <1>1, <2>1, BusUntouched
<1>9. TypeOK' /\ Owned'
  BY <1>1, <1>2, <1>4, <1>5, <1>14 DEF IInv, TypeOK, Owned, Live, Off, DirectPCs, DirectSends
<1>10. LeftToTheWorker'
  BY <1>1, <1>3, <1>4, <1>5 DEF IInv, LeftToTheWorker, LeftBehind, Returned
<1>11. HeldIsListed' /\ Ordered' /\ ConfirmedOnce'
  BY <1>1, <1>6, <1>7 DEF IInv, HeldIsListed, Ordered, ConfirmedOnce
<1>12. Sane'
  BY <1>1, <1>3, <1>4, <1>6, <1>7, <1>8 DEF IInv, Sane
<1>13. Quiet'
  BY <1>1, <1>6, <1>7, <1>8, <1>14 DEF IInv, Quiet, InProgress, Req
<1>15. QED
  BY <1>9, <1>10, <1>11, <1>12, <1>13, <1>14 DEF IInv

LEMMA TakeSlotStep ==
    ASSUME IInv, Watch, NEW c \in Calls, TakeSlot(c)
    PROVE  IInv'
<1>1. PICK t \in Slots : t = Lowest(FreeSlots) /\ ~slot[t].used
  BY LowestIsMember, CmdMgrAssumption DEF TakeSlot, FreeSlots
<1>2. PICK i \in Ids, k \in Kinds :
         slot' = [slot EXCEPT ![t] =
                    [@ EXCEPT !.used = TRUE, !.by = c, !.id = i, !.kind = k]]
  BY <1>1 DEF TakeSlot
<1>3. PICK l \in {"queue", "dfill"} :
         /\ pc[c] = "new" /\ pc' = [pc EXCEPT ![c] = l]
         /\ UNCHANGED <<usbUp, crashed, cmds, pending, bus, wslot, killed>>
  BY DEF TakeSlot, Goto, At, Direct
<1>4. c # Worker /\ c # NoCall /\ c \in Calls \cup {Worker} /\ c \in 0..MaxCalls
  BY CmdMgrAssumption DEF Calls, Worker, NoCall
<1>5. slot \in [Slots -> Slot] /\ slot[t] \in Slot
  BY <1>1 DEF IInv, TypeOK
<1>6. \A s \in Slots : s # t => slot'[s] = slot[s]
  BY <1>1, <1>2, <1>5
<1>7. /\ slot'[t].used /\ slot'[t].by = c
      /\ slot'[t].push = slot[t].push /\ slot'[t].cfm = slot[t].cfm
      /\ slot'[t].comp = slot[t].comp /\ slot'[t] \in Slot
  <2>1. slot'[t] = [slot[t] EXCEPT !.used = TRUE, !.by = c, !.id = i, !.kind = k]
    BY <1>1, <1>2, <1>5
  <2>2. QED
    BY <1>4, <1>5, <2>1 DEF Slot
<1>8. slot' \in [Slots -> Slot]
  BY <1>1, <1>2, <1>5, <1>6, <1>7
<1>9. /\ pc' \in [Calls \cup {Worker} -> CallPCs \cup WorkerPCs]
      /\ \A p \in Calls \cup {Worker} : p # c => pc'[p] = pc[p]
      /\ pc'[c] = l /\ l \in Off /\ l \notin Live
  BY <1>3, <1>4 DEF IInv, TypeOK, CallPCs, Off, Live, DirectPCs, DirectSends
<1>10. \A s \in Slots :
         slot[s].by # c /\ (slot[s].by # NoCall => slot[s].by \in Calls)
  BY <1>3, CmdMgrAssumption DEF IInv, TypeOK, Owned, Slot, Calls, NoCall
<1>11. ~slot[t].push /\ (pc[Worker] \in Live \cup {"clear"} => wslot # t)
       /\ ~HeldAt(t, Live)
  BY <1>1 DEF IInv, LeftToTheWorker, LeftBehind, HeldIsListed
<1>12. \A s \in Slots : s # t =>
         \A L : (CallAt(s, L)' <=> CallAt(s, L)) /\ (HeldAt(s, L)' <=> HeldAt(s, L))
  BY <1>3, <1>4, <1>6, <1>9, <1>10 DEF CallAt, HeldAt, WorkerAt
<1>13. CallAt(t, Off)' /\ \A L \in SUBSET Live : ~HeldAt(t, L)' /\ ~CallAt(t, L)'
  BY <1>3, <1>4, <1>7, <1>9, <1>11 DEF CallAt, HeldAt, WorkerAt, Live
<1>14. Listed' = Listed /\ Listed \subseteq Slots
  BY <1>3, ListedByIndex DEF IInv, TypeOK, Listed
<1>15. \A L \in SUBSET Live : \A s \in Slots : HeldAt(s, L)' => s # t /\ HeldAt(s, L)
  BY <1>12, <1>13
<1>16. Stuck => Stuck'
  <2>1. Live \in SUBSET Live
    OBVIOUS
  <2>2. \A s \in Slots : slot'[s].push => slot[s].push
    BY <1>6, <1>7
  <2>3. QED
    BY <1>14, <1>15, <2>1, <2>2 DEF Stuck
<1>17. ~crashed => t \notin Listed /\ slot[t].comp = NoReq
  BY <1>1 DEF IInv, Sane
<1>18. ~crashed => ~Stuck'
  BY <1>6, <1>12, <1>14, <1>17 DEF IInv, Sane, Stuck
<1>27. beside' \in BOOLEAN /\ (Undisturbed' => Undisturbed) /\ Owed' = Owed /\ Apart'
  <2>1. KeepsDirect
    BY <1>3, <1>4, <1>9 DEF KeepsDirect, OnTheWay
  <2>2. QED
    BY <1>3, <2>1, BusUntouched
<1>19. TypeOK'
  BY <1>3, <1>8, <1>9, <1>27 DEF IInv, TypeOK
<1>20. Owned'
  <2>1. ASSUME NEW s \in Slots, NEW u \in Slots,
               slot'[s].by # NoCall, slot'[s].by = slot'[u].by
        PROVE  s = u
    <3>1. CASE s # t /\ u # t
      BY <1>6, <2>1, <3>1 DEF IInv, Owned
    <3>2. CASE s = t \/ u = t
      BY <1>6, <1>7, <1>10, <2>1, <3>2
    <3>3. QED
      BY <3>1, <3>2
  <2>2. ASSUME NEW d \in Calls, pc'[d] = "new", NEW s \in Slots
        PROVE  slot'[s].by # d
    <3>1. d # c /\ pc[d] = "new"
      BY <1>3, <1>9, <2>2
    <3>2. QED
      BY <1>6, <1>7, <3>1 DEF IInv, Owned
  <2>3. ASSUME NEW d \in Calls, pc'[d] \in Live \cup Off
        PROVE  \E s \in Slots : slot'[s].by = d /\ slot'[s].used
    <3>1. CASE d = c
      BY <1>7, <3>1
    <3>2. CASE d # c
      <4>1. pc[d] \in Live \cup Off
        BY <1>9, <2>3, <3>2
      <4>2. PICK s \in Slots : slot[s].by = d /\ slot[s].used
        BY <4>1 DEF IInv, Owned
      <4>3. slot'[s] = slot[s]
        BY <1>1, <1>6, <4>2
      <4>4. QED
        BY <4>2, <4>3
    <3>3. QED
      BY <3>1, <3>2
  <2>4. QED
    BY <2>1, <2>2, <2>3 DEF Owned
<1>21. LeftToTheWorker'
  <2>1. \A s \in Slots : s # t /\ LeftBehind(s) => LeftBehind(s)'
    BY <1>6, <1>9, <1>10 DEF LeftBehind, Returned
  <2>2. \A s \in Slots : slot'[s].push => s # t /\ slot[s].push
    BY <1>6, <1>7, <1>11
  <2>3. pc'[Worker] = pc[Worker]
    BY <1>4, <1>9
  <2>4. QED
    BY <1>3, <1>6, <1>11, <2>1, <2>2, <2>3 DEF IInv, LeftToTheWorker
<1>22. HeldIsListed'
  BY <1>6, <1>14, <1>15 DEF IInv, HeldIsListed
<1>23. Ordered' /\ ConfirmedOnce'
  <2>1. \A s \in Slots :
           /\ slot'[s].push = slot[s].push /\ slot'[s].cfm = slot[s].cfm
           /\ slot'[s].comp = slot[s].comp
    BY <1>6, <1>7
  <2>2. \A j \in 1..Len(cmds) : cmds[j] \in Slots
    BY DEF IInv, TypeOK
  <2>3. QED
    BY <1>3, <1>14, <2>1, <2>2 DEF IInv, Ordered, ConfirmedOnce
<1>24. Sane'
  <2>1. pc'[Worker] = pc[Worker]
    BY <1>4, <1>9
  <2>2. QED
    <3> SUFFICES ASSUME ~crashed
                 PROVE  Sane'
      BY <1>3 DEF Sane
    <3>1. ASSUME NEW s \in Slots, ~slot'[s].used \/ CallAt(s, Off)'
          PROVE  s \notin Listed' /\ slot'[s].comp = NoReq
      BY <1>6, <1>7, <1>12, <1>14, <1>17, <3>1 DEF IInv, Sane
    <3>2. ASSUME NEW s \in Slots, slot'[s].used
          PROVE  s \in Listed' \/ CallAt(s, Off)'
      BY <1>6, <1>12, <1>13, <1>14, <3>2 DEF IInv, Sane
    <3>3. ASSUME NEW s \in Listed', slot'[s].kind = "buf"
          PROVE  CallAt(s, Live)'
      BY <1>6, <1>12, <1>14, <1>17, <3>3 DEF IInv, Sane
    <3>4. ASSUME usbUp, cmds # <<>>
          PROVE  pending \/ pc[Worker] # "idle" \/ \E s \in Slots : CallAt(s, Live)'
      <4>1. ASSUME NEW s \in Slots, CallAt(s, Live)
            PROVE  CallAt(s, Live)'
        BY <1>11, <1>12, <4>1 DEF HeldAt
      <4>2. QED
        BY <3>4, <4>1 DEF IInv, Sane
    <3>5. QED
      BY <1>3, <1>18, <2>1, <3>1, <3>2, <3>3, <3>4 DEF Sane
<1>25. Quiet'
  <2>1. Unsent \in SUBSET Live /\ Loaded \in SUBSET Live /\ Live \in SUBSET Live
    BY DEF Live, Unsent, Loaded
  <2>2. \A s \in Slots : s # t => slot'[s] = slot[s]
    BY <1>6
  <2>3. \A s \in Slots :
           slot'[s].push = slot[s].push /\ slot'[s].cfm = slot[s].cfm
    BY <1>6, <1>7
  <2>4. QED
    BY <1>3, <1>14, <1>15, <1>16, <1>27, <2>1, <2>2, <2>3 DEF IInv, Quiet, InProgress, Req
<1>26. QED
  BY <1>27, <1>19, <1>20, <1>21, <1>22, <1>23, <1>24, <1>25 DEF IInv

\* A call returns and its slot goes back to the array: refused before it is on
\* the list, a direct message that never was, or timed out, which leaves the
\* slot there.
LEMMA ReturnsStep ==
    ASSUME IInv, Watch, NEW c \in Calls, Refuse(c) \/ Crash(c) \/ FreeDirect(c)
    PROVE  IInv'
<1>1. PICK l \in {"ok", "err"} :
         /\ pc' = [pc EXCEPT ![c] = l]
         /\ \/ pc[c] \in {"queue", "free"} /\ crashed' = crashed
            \/ pc[c] = "tmo" /\ crashed'
         /\ UNCHANGED <<usbUp, cmds, pending, bus, wslot, killed>>
  BY DEF Refuse, Crash, FreeDirect, Goto
<1>2. pc[c] \in Live \cup Off /\ (pc[c] \in {"queue", "free"} => pc[c] \in Off \ Live)
  BY <1>1 DEF Live, Off, DirectPCs, DirectSends
<1>3. PICK t \in Slots :
         /\ t = SlotOf(c) /\ slot[t].by = c /\ slot[t].used
         /\ \A s \in Slots : slot[s].by = c => s = t
  BY <1>2, SlotOfCall DEF IInv
<1>4. slot' = [slot EXCEPT ![t].used = FALSE]
  BY <1>3 DEF Refuse, Crash, FreeDirect
<1>5. c # Worker /\ c # NoCall /\ c \in Calls \cup {Worker}
  BY CmdMgrAssumption DEF Calls, Worker, NoCall
<1>6. slot \in [Slots -> Slot] /\ slot[t] \in Slot
  BY <1>3 DEF IInv, TypeOK
<1>7. \A s \in Slots : s # t => slot'[s] = slot[s]
  BY <1>3, <1>4, <1>6
<1>8. /\ ~slot'[t].used /\ slot'[t] \in Slot
      /\ slot'[t].by = slot[t].by /\ slot'[t].id = slot[t].id
      /\ slot'[t].push = slot[t].push /\ slot'[t].cfm = slot[t].cfm
      /\ slot'[t].comp = slot[t].comp
  <2>1. slot'[t] = [slot[t] EXCEPT !.used = FALSE]
    BY <1>3, <1>4, <1>6
  <2>2. QED
    BY <1>6, <2>1 DEF Slot
<1>9. slot' \in [Slots -> Slot]
  BY <1>3, <1>4, <1>6, <1>7, <1>8
<1>10. /\ pc' \in [Calls \cup {Worker} -> CallPCs \cup WorkerPCs]
       /\ \A p \in Calls \cup {Worker} : p # c => pc'[p] = pc[p]
       /\ pc'[c] = l /\ l \notin Live \cup Off
  BY <1>1, <1>5 DEF IInv, TypeOK, CallPCs, Live, Off, DirectPCs, DirectSends
<1>11. \A s \in Slots :
          /\ slot[s].by # NoCall => slot[s].by \in Calls
          /\ s # t => slot[s].by # c
          /\ slot'[s].by = slot[s].by /\ slot'[s].id = slot[s].id
          /\ slot'[s].push = slot[s].push /\ slot'[s].cfm = slot[s].cfm
          /\ slot'[s].comp = slot[s].comp
  BY <1>3, <1>6, <1>7, <1>8, CmdMgrAssumption DEF IInv, TypeOK, Slot, Calls, NoCall
<1>12. ~LeftBehind(t)
  BY <1>1, <1>3 DEF LeftBehind, Returned
<1>13. \A s \in Slots : s # t =>
         \A L : (CallAt(s, L)' <=> CallAt(s, L)) /\ (HeldAt(s, L)' <=> HeldAt(s, L))
  BY <1>1, <1>5, <1>10, <1>11 DEF CallAt, HeldAt, WorkerAt
<1>14. ~CallAt(t, Off)' /\ \A L \in SUBSET Live : ~HeldAt(t, L)' /\ ~CallAt(t, L)'
  <2>1. wslot = t => pc[Worker] \notin Live
    BY <1>12 DEF IInv, LeftToTheWorker
  <2>2. QED
    BY <1>1, <1>3, <1>5, <1>8, <1>10, <2>1 DEF CallAt, HeldAt, WorkerAt
<1>15. Listed' = Listed /\ Listed \subseteq Slots
  BY <1>1, ListedByIndex DEF IInv, TypeOK, Listed
<1>16. \A L \in SUBSET Live : \A s \in Slots : HeldAt(s, L)' => s # t /\ HeldAt(s, L)
  BY <1>13, <1>14
<1>17. Stuck => Stuck'
  <2>1. Live \in SUBSET Live
    OBVIOUS
  <2>2. QED
    BY <1>11, <1>15, <1>16, <2>1 DEF Stuck
<1>19. beside' \in BOOLEAN /\ (Undisturbed' => Undisturbed) /\ Owed' = Owed /\ Apart'
  <2>1. KeepsDirect
    BY <1>1, <1>5, <1>10 DEF KeepsDirect, OnTheWay
  <2>2. QED
    BY <1>1, <2>1, BusUntouched
<1>18. TypeOK'
  BY <1>1, <1>9, <1>10, <1>19 DEF IInv, TypeOK
<1>20. Owned'
  <2>1. ASSUME NEW d \in Calls, pc'[d] \in Live \cup Off
        PROVE  \E s \in Slots : slot'[s].by = d /\ slot'[s].used
    <3>1. d # c /\ pc[d] \in Live \cup Off
      BY <1>10, <2>1
    <3>2. PICK s \in Slots : slot[s].by = d /\ slot[s].used
      BY <3>1 DEF IInv, Owned
    <3>3. s # t
      BY <1>3, <3>1, <3>2
    <3>4. QED
      BY <1>7, <3>2, <3>3
  <2>2. \A d \in Calls : pc'[d] = "new" => pc[d] = "new"
    BY <1>1, <1>10
  <2>3. QED
    BY <1>11, <2>1, <2>2 DEF IInv, Owned
<1>21. LeftToTheWorker'
  <2>1. \A s \in Slots : LeftBehind(s) => s # t /\ LeftBehind(s)'
    BY <1>1, <1>7, <1>10, <1>11, <1>12 DEF LeftBehind, Returned
  <2>2. pc'[Worker] = pc[Worker]
    BY <1>5, <1>10
  <2>3. QED
    BY <1>1, <1>11, <2>1, <2>2 DEF IInv, LeftToTheWorker
<1>22. HeldIsListed'
  BY <1>7, <1>15, <1>16 DEF IInv, HeldIsListed
<1>23. Ordered' /\ ConfirmedOnce'
  <2>1. \A j \in 1..Len(cmds) : cmds[j] \in Slots
    BY DEF IInv, TypeOK
  <2>2. QED
    BY <1>1, <1>11, <1>15, <2>1 DEF IInv, Ordered, ConfirmedOnce
<1>24. Sane'
  <2> SUFFICES ASSUME ~crashed'
               PROVE  Sane'
    BY DEF Sane
  <2>1. pc[c] \in Off \ Live /\ ~crashed
    BY <1>1, <1>2
  <2>2. t \notin Listed /\ slot[t].comp = NoReq
    BY <1>3, <1>5, <2>1 DEF IInv, Sane, CallAt
  <2>3. ASSUME NEW s \in Slots, ~slot'[s].used \/ CallAt(s, Off)'
        PROVE  s \notin Listed' /\ slot'[s].comp = NoReq
    BY <1>7, <1>11, <1>13, <1>15, <2>1, <2>2, <2>3 DEF IInv, Sane
  <2>4. ASSUME NEW s \in Slots, slot'[s].used
        PROVE  s \in Listed' \/ CallAt(s, Off)'
    BY <1>7, <1>8, <1>13, <1>15, <2>1, <2>4 DEF IInv, Sane
  <2>5. ASSUME NEW s \in Listed', slot'[s].kind = "buf"
        PROVE  CallAt(s, Live)'
    BY <1>7, <1>13, <1>15, <2>1, <2>2, <2>5 DEF IInv, Sane
  <2>6. ~Stuck'
    BY <1>11, <1>13, <1>15, <2>1, <2>2 DEF IInv, Sane, Stuck
  <2>7. ASSUME NEW s \in Slots, CallAt(s, Live)
        PROVE  CallAt(s, Live)'
    <3>1. s # t
      BY <1>3, <2>1, <2>7 DEF CallAt
    <3>2. QED
      BY <1>13, <2>7, <3>1
  <2>8. pc'[Worker] = pc[Worker]
    BY <1>5, <1>10
  <2>9. QED
    BY <1>1, <2>1, <2>3, <2>4, <2>5, <2>6, <2>7, <2>8 DEF IInv, Sane
<1>25. Quiet'
  <2>1. Unsent \in SUBSET Live /\ Loaded \in SUBSET Live /\ Live \in SUBSET Live
    BY DEF Live, Unsent, Loaded
  <2>2. QED
    BY <1>1, <1>11, <1>15, <1>16, <1>17, <1>19, <2>1 DEF IInv, Quiet, InProgress, Req
<1>26. QED
  BY <1>18, <1>19, <1>20, <1>21, <1>22, <1>23, <1>24, <1>25 DEF IInv

\* The command goes on the list, with its caller on the way to the buffer
\* or left to the worker.
LEMMA EnqueueStep ==
    ASSUME IInv, Watch, NEW c \in Calls, Enqueue(c)
    PROVE  IInv'
<1>1. PICK t \in Slots :
         /\ t = SlotOf(c) /\ slot[t].by = c /\ slot[t].used
         /\ \A s \in Slots : slot[s].by = c => s = t
  BY SlotOfCall DEF IInv, Enqueue, Off
<1>2. PICK d \in BOOLEAN : d = MustDefer(c)
  BY DEF MustDefer
<1>3. /\ pc[c] = "queue" /\ pc' = [pc EXCEPT ![c] = IF d THEN "ok" ELSE "fill"]
      /\ ~crashed /\ ~QueueFull
      /\ slot[t].kind = "buf" => cmds = <<>>
      /\ cmds' = Append(cmds, t)
      /\ slot' = [slot EXCEPT ![t] = [@ EXCEPT !.cfm = TRUE, !.push = d]]
      /\ d => pending' = (pending \/ cmds = <<>>)
      /\ ~d => pending' = pending
      /\ UNCHANGED <<usbUp, crashed, bus, wslot, killed>>
  BY <1>1, <1>2 DEF Enqueue, Goto
<1>4. c # Worker /\ c # NoCall /\ c \in Calls \cup {Worker}
  BY CmdMgrAssumption DEF Calls, Worker, NoCall
<1>5. /\ slot \in [Slots -> Slot] /\ slot[t] \in Slot
      /\ cmds \in Seq(Slots) /\ Len(cmds) <= MaxQueued /\ pending \in BOOLEAN
      /\ Listed \subseteq Slots
  BY <1>1, ListedByIndex DEF IInv, TypeOK
<1>6. \A s \in Slots : s # t => slot'[s] = slot[s]
  BY <1>1, <1>3, <1>5
<1>7. /\ slot'[t].used /\ slot'[t] \in Slot
      /\ slot'[t].by = c /\ slot'[t].kind = slot[t].kind
      /\ slot'[t].push = d /\ slot'[t].cfm
      /\ slot'[t].comp = slot[t].comp
  <2>1. slot'[t] = [slot[t] EXCEPT !.cfm = TRUE, !.push = d]
    BY <1>1, <1>3, <1>5
  <2>2. slot'[t] \in Slot
    BY <1>5, <2>1 DEF Slot
  <2>3. DOMAIN slot[t] = {"used", "push", "cfm", "by", "id", "kind", "comp"}
    BY <1>5 DEF Slot
  <2>4. QED
    BY <1>1, <2>1, <2>2, <2>3
<1>8. /\ cmds' \in Seq(Slots) /\ Len(cmds') = Len(cmds) + 1
      /\ \A i \in 1..Len(cmds) : cmds'[i] = cmds[i]
      /\ cmds'[Len(cmds) + 1] = t
      /\ Listed' = Listed \cup {t}
  BY <1>3, <1>5, Appended
<1>9. t \notin Listed /\ slot[t].comp = NoReq /\ ~HeldAt(t, Live)
  BY <1>1, <1>3, <1>4 DEF IInv, Sane, HeldIsListed, CallAt, Off
<1>10. /\ pc' \in [Calls \cup {Worker} -> CallPCs \cup WorkerPCs]
       /\ \A p \in Calls \cup {Worker} : p # c => pc'[p] = pc[p]
       /\ pc'[c] = IF d THEN "ok" ELSE "fill"
  BY <1>3, <1>4 DEF IInv, TypeOK, CallPCs, Sends
<1>11. \A s \in Slots :
          /\ slot[s].by # NoCall => slot[s].by \in Calls
          /\ s # t => slot[s].by # c
          /\ slot'[s].by = slot[s].by /\ slot'[s].used = slot[s].used
          /\ slot'[s].kind = slot[s].kind /\ slot'[s].comp = slot[s].comp
  <2> SUFFICES ASSUME NEW s \in Slots
               PROVE  /\ slot[s].by # NoCall => slot[s].by \in Calls
                      /\ s # t => slot[s].by # c
                      /\ slot'[s].by = slot[s].by /\ slot'[s].used = slot[s].used
                      /\ slot'[s].kind = slot[s].kind /\ slot'[s].comp = slot[s].comp
    OBVIOUS
  <2>1. slot[s].by \in 0..MaxCalls
    BY <1>5 DEF Slot
  <2>2. CASE s = t
    BY <1>1, <1>7, <2>2
  <2>3. CASE s # t
    BY <1>1, <1>6, <2>1, <2>3, CmdMgrAssumption DEF Calls, NoCall
  <2>4. QED
    BY <2>2, <2>3
<1>12. ~LeftBehind(t) /\ ~slot[t].push
  BY <1>1, <1>3 DEF IInv, LeftToTheWorker, LeftBehind, Returned
<1>13. wslot = t => pc[Worker] \notin Live \cup {"clear"}
  BY <1>12 DEF IInv, LeftToTheWorker
<1>14. \A s \in Slots : s # t =>
         \A L : (CallAt(s, L)' <=> CallAt(s, L)) /\ (HeldAt(s, L)' <=> HeldAt(s, L))
  BY <1>3, <1>4, <1>10, <1>11 DEF CallAt, HeldAt, WorkerAt
<1>15. /\ ~CallAt(t, Off)'
       /\ \A L \in SUBSET Live : HeldAt(t, L)' <=> ~d /\ "fill" \in L
       /\ CallAt(t, Live)' <=> ~d
  BY <1>3, <1>4, <1>7, <1>10, <1>13
  DEF CallAt, HeldAt, WorkerAt, Live, Off, DirectPCs, DirectSends
<1>16. Unsent \in SUBSET Live /\ Loaded \in SUBSET Live /\ Live \in SUBSET Live
  BY DEF Live, Unsent, Loaded
<1>17. ~Stuck /\ ~Stuck'
  BY <1>3, <1>6, <1>7, <1>8, <1>14, <1>15, <1>5 DEF IInv, Sane, Stuck, Live
<1>19. beside' \in BOOLEAN /\ (Undisturbed' => Undisturbed) /\ Owed' = Owed /\ Apart'
  <2>1. KeepsDirect
    BY <1>3, <1>4, <1>10 DEF KeepsDirect, OnTheWay
  <2>2. QED
    BY <1>3, <2>1, BusUntouched
<1>18. TypeOK'
  <2>1. slot' \in [Slots -> Slot]
    BY <1>1, <1>3, <1>5, <1>6, <1>7
  <2>2. Len(cmds') <= MaxQueued
    BY <1>3, <1>5, <1>8, CmdMgrAssumption DEF QueueFull
  <2>3. pending' \in BOOLEAN
    BY <1>3, <1>5
  <2>4. QED
    BY <1>3, <1>8, <1>10, <1>19, <2>1, <2>2, <2>3 DEF IInv, TypeOK
<1>20. Owned'
  <2>1. \A e \in Calls : pc'[e] = "new" => pc[e] = "new"
    BY <1>10
  <2>2. \A e \in Calls : pc'[e] \in Live \cup Off => pc[e] \in Live \cup Off
    BY <1>3, <1>10 DEF Live, Off, DirectPCs, DirectSends
  <2>3. QED
    BY <1>11, <2>1, <2>2 DEF IInv, Owned
<1>21. LeftToTheWorker'
  <2>1. \A s \in Slots : LeftBehind(s) => s # t /\ LeftBehind(s)'
    BY <1>10, <1>11, <1>12 DEF LeftBehind, Returned
  <2>2. pc'[Worker] = pc[Worker]
    BY <1>4, <1>10
  <2>3. d => LeftBehind(t)'
    BY <1>4, <1>7, <1>10 DEF LeftBehind, Returned
  <2>4. cmds # <<>> => cmds' # <<>> /\ cmds'[1] = cmds[1]
    BY <1>5, <1>8
  <2>5. QED
    BY <1>3, <1>6, <1>7, <1>13, <2>1, <2>2, <2>3, <2>4 DEF IInv, LeftToTheWorker
<1>22. HeldIsListed'
  BY <1>6, <1>7, <1>8, <1>14, <1>15, <1>16 DEF IInv, HeldIsListed
<1>23. ~d => \A i \in 1..Len(cmds) : ~slot[cmds[i]].push /\ ~slot[cmds[i]].cfm
  <2> SUFFICES ASSUME ~d, NEW i \in 1..Len(cmds)
               PROVE  ~slot[cmds[i]].push /\ ~slot[cmds[i]].cfm
    OBVIOUS
  <2>1. cmds # <<>>
    BY <1>5
  <2>2. ~Busy(cmds[Len(cmds)])
    BY <1>2, <2>1 DEF MustDefer, Last
  <2>3. i = Len(cmds) \/ i < Len(cmds)
    BY <1>5
  <2>4. QED
    BY <1>5, <2>2, <2>3 DEF IInv, Ordered, Busy
<1>24. Ordered'
  <2> SUFFICES ASSUME NEW i \in 1..Len(cmds'), NEW j \in 1..Len(cmds'), i < j
               PROVE  /\ cmds'[i] # cmds'[j]
                      /\ slot'[cmds'[i]].push \/ slot'[cmds'[i]].cfm => slot'[cmds'[j]].push
    BY DEF Ordered
  <2>1. i \in 1..Len(cmds) /\ cmds'[i] = cmds[i] /\ cmds[i] \in Listed
    BY <1>5, <1>8, ListedByIndex
  <2>2. cmds[i] # t /\ slot'[cmds[i]] = slot[cmds[i]]
    BY <1>5, <1>6, <1>9, <2>1
  <2>3. CASE j \in 1..Len(cmds)
    <3>1. cmds'[j] = cmds[j] /\ cmds[j] \in Listed
      BY <1>5, <1>8, <2>3, ListedByIndex
    <3>2. slot'[cmds[j]] = slot[cmds[j]]
      BY <1>5, <1>6, <1>9, <3>1
    <3>3. QED
      BY <2>1, <2>2, <2>3, <3>1, <3>2 DEF IInv, Ordered
  <2>4. CASE j = Len(cmds) + 1
    BY <1>7, <1>8, <1>23, <2>1, <2>2, <2>4
  <2>5. QED
    BY <1>5, <1>8, <2>3, <2>4
<1>25. ConfirmedOnce'
  BY <1>5, <1>6, <1>8, <1>9, <1>11 DEF IInv, ConfirmedOnce
<1>26. Sane'
  <2>1. ASSUME NEW s \in Slots, ~slot'[s].used \/ CallAt(s, Off)'
        PROVE  s \notin Listed' /\ slot'[s].comp = NoReq
    BY <1>3, <1>7, <1>8, <1>11, <1>14, <1>15, <2>1 DEF IInv, Sane
  <2>2. ASSUME NEW s \in Slots, slot'[s].used
        PROVE  s \in Listed' \/ CallAt(s, Off)'
    BY <1>3, <1>8, <1>11, <1>14, <2>2 DEF IInv, Sane
  <2>3. ASSUME NEW s \in Listed', slot'[s].kind = "buf"
        PROVE  CallAt(s, Live)'
    <3>1. CASE s = t
      <4>1. ~d
        BY <1>1, <1>2, <1>3, <1>11, <2>3, <3>1 DEF MustDefer
      <4>2. QED
        BY <1>15, <3>1, <4>1
    <3>2. CASE s # t
      BY <1>3, <1>5, <1>8, <1>11, <1>14, <2>3, <3>2 DEF IInv, Sane
    <3>3. QED
      BY <3>1, <3>2
  <2>4. ASSUME usbUp, ~pending', pc'[Worker] = "idle"
        PROVE  \E s \in Slots : CallAt(s, Live)'
    <3>1. CASE ~d
      BY <1>1, <1>15, <3>1
    <3>2. CASE d
      <4>1. cmds # <<>> /\ ~pending /\ pc[Worker] = "idle"
        BY <1>3, <1>4, <1>10, <2>4, <3>2
      <4>2. PICK s \in Slots : CallAt(s, Live)
        BY <1>3, <2>4, <4>1 DEF IInv, Sane
      <4>3. s # t
        BY <1>9, <4>2 DEF HeldAt
      <4>4. QED
        BY <1>14, <4>2, <4>3
    <3>3. QED
      BY <3>1, <3>2
  <2>5. QED
    BY <1>3, <1>17, <2>1, <2>2, <2>3, <2>4 DEF Sane
<1>27. Quiet'
  <2> SUFFICES ASSUME Undisturbed
               PROVE  Quiet'
    BY <1>19 DEF Quiet
  <2>1. \A s \in Slots : HeldAt(s, Unsent)' => slot'[s].cfm
    BY <1>6, <1>7, <1>14, <1>16 DEF IInv, Quiet
  <2>2. \A s \in Slots : HeldAt(s, Loaded)' => cmdBuf' = Req(s)'
    BY <1>3, <1>6, <1>14, <1>15, <1>16 DEF Loaded, IInv, Quiet, Req
  <2>3. \A s \in Listed' : slot'[s].push /\ ~slot'[s].cfm => Stuck'
    BY <1>5, <1>6, <1>7, <1>8, <1>17 DEF IInv, Quiet
  <2>4. ASSUME NEW r \in Owed'
        PROVE  /\ Owed' = {r}
               /\ \E s \in Listed' :
                     /\ InProgress(s)' /\ ~HeldAt(s, Unsent)'
                     /\ HeldAt(s, Live)' => Req(s)' = r
    <3>1. Owed = {r} /\ Owed' = {r}
      BY <1>19, <2>4 DEF IInv, Quiet
    <3>2. PICK s \in Listed :
             /\ InProgress(s) /\ ~HeldAt(s, Unsent)
             /\ HeldAt(s, Live) => Req(s) = r
      BY <3>1 DEF IInv, Quiet
    <3>3. s \in Slots /\ s # t /\ s \in Listed'
      BY <1>5, <1>8, <1>9, <3>2
    <3>4. InProgress(s)' /\ Req(s)' = Req(s)
      BY <1>6, <3>2, <3>3 DEF InProgress, Req
    <3>5. QED
      BY <1>14, <3>1, <3>2, <3>3, <3>4
  <2>5. \A s \in Slots : HeldAt(s, Live)' /\ slot'[s].comp # NoReq =>
           slot'[s].comp = Req(s)'
    BY <1>6, <1>9, <1>11, <1>14, <1>16 DEF IInv, Quiet, Req
  <2>6. QED
    BY <2>1, <2>2, <2>3, <2>4, <2>5 DEF Quiet
<1>28. QED
  BY <1>18, <1>19, <1>20, <1>21, <1>22, <1>24, <1>25, <1>26, <1>27 DEF IInv

-----------------------------------------------------------------------------
(* A command leaves the list, taken off by its caller or by the worker. *)

LEMMA RemovesStep ==
    ASSUME IInv, Watch, NEW p \in Calls \cup {Worker},
           \/ p \in Calls /\ (Confirmed(p) \/ Killed(p))
           \/ p = Worker /\ WorkConfirmed
    PROVE  IInv'
<1>1. pc[p] = "wait" /\ pc[p] \in Live
  BY DEF Confirmed, Killed, WorkConfirmed, Live
<1>2. Worker \notin Calls /\ NoCall \notin Calls /\ NoSlot \notin Slots
  BY CmdMgrAssumption DEF Calls, Worker, NoCall, NoSlot
<1>3. PICK t \in Slots :
         /\ t = Held(p) /\ HeldAt(t, Live)
         /\ \A s \in Slots : s = t <=> IF p = Worker THEN wslot = s ELSE slot[s].by = p
  BY <1>1, HeldSlot
<1>4. t \in Listed /\ ~slot[t].push
  BY <1>3 DEF IInv, HeldIsListed
<1>5. /\ cmds' = Without(t)
      /\ slot' = [slot EXCEPT ![t] = FreeSlot]
      /\ pc' = [pc EXCEPT ![p] = IF p = Worker THEN "scan" ELSE "ok"]
      /\ wslot' = IF p = Worker THEN NoSlot ELSE wslot
      /\ pending' = IF p = Worker THEN pending ELSE (pending \/ (cmds' # <<>> /\ usbUp))
      /\ \/ killed' = killed /\ slot[t].comp # NoReq
         \/ killed' = killed \cup {slot[t].id}
      /\ UNCHANGED <<usbUp, crashed, bus>>
  <2>1. CASE p = Worker
    BY <1>2, <1>3, <2>1 DEF WorkConfirmed, Goto
  <2>2. CASE p \in Calls
    BY <1>2, <1>3, <2>2 DEF Confirmed, Killed, Unlink, Goto, Held
  <2>3. QED
    BY <2>1, <2>2
<1>6. /\ slot \in [Slots -> Slot] /\ slot[t] \in Slot /\ pending \in BOOLEAN
      /\ usbUp \in BOOLEAN /\ cmds \in Seq(Slots) /\ Len(cmds) <= MaxQueued
      /\ Listed \subseteq Slots /\ wslot \in Slots \cup {NoSlot}
      /\ killed \subseteq Ids
  BY ListedByIndex DEF IInv, TypeOK
<1>7. FreeSlot \in Slot
  <2>1. (CHOOSE i \in Ids : TRUE) \in Ids
    BY CmdMgrAssumption
  <2>2. QED
    BY <2>1, CmdMgrAssumption DEF FreeSlot, Slot, NoCall, Kinds
<1>8. /\ \A s \in Slots : s # t => slot'[s] = slot[s]
      /\ slot'[t].by = NoCall /\ ~slot'[t].used /\ ~slot'[t].push /\ ~slot'[t].cfm
      /\ slot'[t].comp = NoReq
  <2>1. slot'[t] = FreeSlot
    BY <1>3, <1>5, <1>6
  <2>2. QED
    BY <1>3, <1>5, <1>6, <2>1 DEF FreeSlot
<1>9. /\ cmds' \in Seq(Slots)
      /\ Len(cmds') = Len(cmds) - 1
      /\ Listed' = Listed \ {t}
      /\ \A i, j \in 1..Len(cmds') : i < j =>
            \E k, l \in 1..Len(cmds) :
               k < l /\ cmds'[i] = cmds[k] /\ cmds'[j] = cmds[l]
      /\ cmds[1] # t => cmds' # <<>> /\ cmds'[1] = cmds[1]
  BY <1>4, <1>5, Removed DEF IInv
<1>10. /\ pc' \in [Calls \cup {Worker} -> CallPCs \cup WorkerPCs]
       /\ \A q \in Calls \cup {Worker} : q # p => pc'[q] = pc[q]
       /\ pc'[p] = IF p = Worker THEN "scan" ELSE "ok"
  BY <1>5 DEF IInv, TypeOK, CallPCs, WorkerPCs
<1>11. \A s \in Slots :
          /\ slot[s].by # NoCall => slot[s].by \in Calls
          /\ s # t /\ p \in Calls => slot[s].by # p
  BY <1>2, <1>3, <1>6, CmdMgrAssumption DEF Slot, Calls, NoCall
<1>12. p \in Calls => slot[t].by = p /\ ~LeftBehind(t)
  BY <1>1, <1>2, <1>3 DEF LeftBehind, Returned
<1>13. p \in Calls /\ wslot = t => pc[Worker] \notin Live \cup {"clear"}
  BY <1>12 DEF IInv, LeftToTheWorker
<1>14. \A s \in Slots : s # t => \A L : CallAt(s, L)' <=> CallAt(s, L)
  BY <1>2, <1>8, <1>10, <1>11 DEF CallAt
<1>15. \A s \in Slots : s # t =>
          \A L \in SUBSET Live : HeldAt(s, L)' <=> HeldAt(s, L)
  <2> SUFFICES ASSUME NEW s \in Slots, s # t, NEW L \in SUBSET Live
               PROVE  WorkerAt(s, L)' <=> WorkerAt(s, L)
    BY <1>14 DEF HeldAt
  <2>1. CASE p = Worker
    BY <1>2, <1>3, <1>5, <2>1 DEF WorkerAt
  <2>2. CASE p \in Calls
    BY <1>2, <1>5, <1>10, <2>2 DEF WorkerAt
  <2>3. QED
    BY <2>1, <2>2
<1>16. (\A L : ~CallAt(t, L)') /\ \A L \in SUBSET Live : ~HeldAt(t, L)'
  <2>1. \A L : ~CallAt(t, L)'
    BY <1>8 DEF CallAt
  <2>2. ASSUME NEW L \in SUBSET Live
        PROVE  ~WorkerAt(t, L)'
    <3>1. CASE p = Worker
      BY <1>2, <1>3, <1>5, <3>1 DEF WorkerAt
    <3>2. CASE p \in Calls
      BY <1>2, <1>5, <1>10, <1>13, <3>2 DEF WorkerAt
    <3>3. QED
      BY <3>1, <3>2
  <2>3. QED
    BY <2>1, <2>2 DEF HeldAt
<1>17. Unsent \in SUBSET Live /\ Loaded \in SUBSET Live /\ Live \in SUBSET Live
  BY DEF Live, Unsent, Loaded
<1>18. Stuck' <=> Stuck
  BY <1>3, <1>6, <1>8, <1>9, <1>15, <1>17 DEF Stuck
<1>20. beside' \in BOOLEAN /\ (Undisturbed' => Undisturbed) /\ Owed' = Owed /\ Apart'
  <2>1. KeepsDirect
    BY <1>1, <1>2, <1>10 DEF KeepsDirect, OnTheWay
  <2>2. killed \subseteq killed'
    BY <1>5
  <2>3. QED
    BY <1>5, <2>1, <2>2, BusUntouched
<1>19. TypeOK'
  <2>1. slot' \in [Slots -> Slot]
    BY <1>3, <1>5, <1>6, <1>7
  <2>2. Len(cmds') <= MaxQueued
    BY <1>6, <1>9, CmdMgrAssumption
  <2>3. pending' \in BOOLEAN /\ wslot' \in Slots \cup {NoSlot} /\ killed' \subseteq Ids
    BY <1>5, <1>6 DEF Slot
  <2>4. QED
    BY <1>5, <1>9, <1>10, <1>20, <2>1, <2>2, <2>3 DEF IInv, TypeOK
<1>21. Owned'
  <2>1. ASSUME NEW s \in Slots, NEW u \in Slots,
               slot'[s].by # NoCall, slot'[s].by = slot'[u].by
        PROVE  s = u
    BY <1>8, <2>1 DEF IInv, Owned
  <2>2. ASSUME NEW d \in Calls, pc'[d] = "new", NEW s \in Slots
        PROVE  slot'[s].by # d
    <3>1. pc[d] = "new"
      BY <1>1, <1>2, <1>10, <2>2
    <3>2. QED
      BY <1>2, <1>8, <3>1 DEF IInv, Owned
  <2>3. ASSUME NEW d \in Calls, pc'[d] \in Live \cup Off
        PROVE  \E s \in Slots : slot'[s].by = d /\ slot'[s].used
    <3>1. d # p /\ pc[d] \in Live \cup Off
      BY <1>2, <1>10, <2>3 DEF Live, Off, DirectPCs, DirectSends
    <3>2. PICK s \in Slots : slot[s].by = d /\ slot[s].used
      BY <3>1 DEF IInv, Owned
    <3>3. s # t
      <4>1. CASE p = Worker
        <5>1. LeftBehind(t)
          BY <1>1, <1>3, <4>1 DEF IInv, LeftToTheWorker
        <5>2. QED
          BY <3>1, <3>2, <5>1 DEF LeftBehind, Returned, Live, Off, DirectPCs, DirectSends
      <4>2. CASE p \in Calls
        BY <1>12, <3>1, <3>2, <4>2
      <4>3. QED
        BY <4>1, <4>2
    <3>4. QED
      BY <1>8, <3>2, <3>3
  <2>4. QED
    BY <2>1, <2>2, <2>3 DEF Owned
<1>22. LeftToTheWorker'
  <2>1. \A s \in Slots : s # t /\ LeftBehind(s) => LeftBehind(s)'
    <3>1. \A d \in Calls : Returned(d) => Returned(d)'
      BY <1>2, <1>1, <1>10 DEF Returned
    <3>2. QED
      BY <1>8, <1>11, <3>1 DEF LeftBehind
  <2>2. \A s \in Slots : slot'[s].push => s # t /\ slot[s].push
    BY <1>8
  <2>3. CASE p = Worker
    BY <1>10, <2>1, <2>2, <2>3 DEF IInv, LeftToTheWorker, Live, WorkerPCs
  <2>4. CASE p \in Calls
    <3>1. pc'[Worker] = pc[Worker] /\ wslot' = wslot
      BY <1>2, <1>5, <1>10, <2>4
    <3>2. QED
      BY <1>8, <1>9, <1>13, <2>1, <2>2, <2>4, <3>1 DEF IInv, LeftToTheWorker
  <2>5. QED
    BY <2>3, <2>4
<1>23. HeldIsListed'
  BY <1>8, <1>9, <1>15, <1>16, <1>17 DEF IInv, HeldIsListed
<1>24. Ordered'
  <2> SUFFICES ASSUME NEW i \in 1..Len(cmds'), NEW j \in 1..Len(cmds'), i < j
               PROVE  /\ cmds'[i] # cmds'[j]
                      /\ slot'[cmds'[i]].push \/ slot'[cmds'[i]].cfm => slot'[cmds'[j]].push
    BY DEF Ordered
  <2>1. PICK k \in 1..Len(cmds), l \in 1..Len(cmds) :
           k < l /\ cmds'[i] = cmds[k] /\ cmds'[j] = cmds[l]
    BY <1>9
  <2>2. cmds'[i] \in Listed' /\ cmds'[j] \in Listed'
    BY <1>9 DEF Listed, ToSet
  <2>3. slot'[cmds[k]] = slot[cmds[k]] /\ slot'[cmds[l]] = slot[cmds[l]]
    BY <1>6, <1>8, <1>9, <2>1, <2>2
  <2>4. QED
    BY <2>1, <2>3 DEF IInv, Ordered
<1>25. ConfirmedOnce'
  BY <1>6, <1>8, <1>9 DEF IInv, ConfirmedOnce
<1>26. Sane'
  <2> SUFFICES ASSUME ~crashed
               PROVE  Sane'
    BY <1>5 DEF Sane
  <2>1. ASSUME NEW s \in Slots, ~slot'[s].used \/ CallAt(s, Off)'
        PROVE  s \notin Listed' /\ slot'[s].comp = NoReq
    BY <1>8, <1>9, <1>14, <2>1 DEF IInv, Sane
  <2>2. ASSUME NEW s \in Slots, slot'[s].used
        PROVE  s \in Listed' \/ CallAt(s, Off)'
    BY <1>8, <1>9, <1>14, <2>2 DEF IInv, Sane
  <2>3. ASSUME NEW s \in Listed', slot'[s].kind = "buf"
        PROVE  CallAt(s, Live)'
    BY <1>6, <1>8, <1>9, <1>14, <2>3 DEF IInv, Sane
  <2>4. usbUp /\ cmds' # <<>> => pending' \/ pc'[Worker] # "idle"
    BY <1>2, <1>5, <1>10
  <2>5. QED
    BY <1>5, <1>18, <2>1, <2>2, <2>3, <2>4 DEF IInv, Sane
<1>27. Quiet'
  <2> SUFFICES ASSUME Undisturbed'
               PROVE  Quiet'
    BY DEF Quiet
  <2>1. Undisturbed /\ ~slot[t].cfm
    <3>1. killed' = killed
      BY <1>5, <1>6 DEF Undisturbed, Slot
    <3>2. slot[t].comp # NoReq
      BY <1>5, <1>6, <3>1 DEF Undisturbed, Slot
    <3>3. QED
      BY <1>4, <1>20, <3>2 DEF IInv, ConfirmedOnce
  <2>2. \A s \in Slots : HeldAt(s, Unsent)' => slot'[s].cfm
    BY <1>8, <1>15, <1>16, <1>17, <2>1 DEF IInv, Quiet
  <2>3. \A s \in Slots : HeldAt(s, Loaded)' => cmdBuf' = Req(s)'
    BY <1>5, <1>8, <1>15, <1>16, <1>17, <2>1 DEF IInv, Quiet, Req
  <2>4. \A s \in Listed' : slot'[s].push /\ ~slot'[s].cfm => Stuck'
    BY <1>6, <1>8, <1>9, <1>18, <2>1 DEF IInv, Quiet
  <2>5. ASSUME NEW r \in Owed'
        PROVE  /\ Owed' = {r}
               /\ \E s \in Listed' :
                     /\ InProgress(s)' /\ ~HeldAt(s, Unsent)'
                     /\ HeldAt(s, Live)' => Req(s)' = r
    <3>1. r \in Owed /\ Owed' = {r}
      BY <1>20, <2>1, <2>5 DEF IInv, Quiet
    <3>2. PICK s \in Listed :
             /\ InProgress(s) /\ ~HeldAt(s, Unsent)
             /\ HeldAt(s, Live) => Req(s) = r
      BY <2>1, <3>1 DEF IInv, Quiet
    <3>3. s \in Slots /\ s # t /\ s \in Listed'
      BY <1>6, <1>9, <2>1, <3>2 DEF InProgress
    <3>4. InProgress(s)' /\ Req(s)' = Req(s)
      BY <1>8, <3>2, <3>3 DEF InProgress, Req
    <3>5. QED
      BY <1>15, <1>17, <3>1, <3>2, <3>3, <3>4
  <2>6. \A s \in Slots : HeldAt(s, Live)' /\ slot'[s].comp # NoReq =>
           slot'[s].comp = Req(s)'
    BY <1>8, <1>15, <1>16, <1>17, <2>1 DEF IInv, Quiet, Req
  <2>7. QED
    BY <2>2, <2>3, <2>4, <2>5, <2>6 DEF Quiet
<1>28. QED
  BY <1>19, <1>20, <1>21, <1>22, <1>23, <1>24, <1>25, <1>26, <1>27 DEF IInv

-----------------------------------------------------------------------------
(* The worker. *)

\* It starts, looks at the list, or gives its command up.
LEMMA WorkerWalksStep ==
    ASSUME IInv, Watch, WorkStart \/ WorkScan \/ WorkCrash
    PROVE  IInv'
<1> DEFINE l == pc'[Worker]
<1>1. /\ Worker \in Calls \cup {Worker} /\ Worker \notin Calls
      /\ NoCall \notin Calls /\ NoSlot \notin Slots
  BY CmdMgrAssumption DEF Calls, Worker, NoCall, NoSlot
<1>2. /\ cmds \in Seq(Slots) /\ Listed \subseteq Slots
      /\ slot \in [Slots -> Slot] /\ pending \in BOOLEAN
      /\ pc \in [Calls \cup {Worker} -> CallPCs \cup WorkerPCs]
      /\ \A s \in Slots : slot[s].by # NoCall => slot[s].by \in Calls
  BY ListedByIndex, CmdMgrAssumption DEF IInv, TypeOK, Slot, Calls, NoCall
<1>3. UNCHANGED <<usbUp, cmds, slot, bus, killed>>
  BY DEF WorkStart, WorkScan, WorkCrash
<1>4. /\ l \in {"scan", "clear", "idle"}
      /\ pc' \in [Calls \cup {Worker} -> CallPCs \cup WorkerPCs]
      /\ \A c \in Calls : pc'[c] = pc[c]
  BY <1>1, <1>2 DEF WorkStart, WorkScan, WorkCrash, Goto, WorkerPCs
<1>5. \A s \in Slots : \A L : CallAt(s, L)' <=> CallAt(s, L)
  BY <1>2, <1>3, <1>4 DEF CallAt
<1>6. \A s : \A L \in SUBSET Live : ~WorkerAt(s, L)'
  BY <1>4 DEF WorkerAt, Live
<1>7. \A s \in Slots : \A L \in SUBSET Live : HeldAt(s, L)' => HeldAt(s, L)
  BY <1>5, <1>6 DEF HeldAt
<1>8. Unsent \in SUBSET Live /\ Loaded \in SUBSET Live /\ Live \in SUBSET Live
  BY DEF Live, Unsent, Loaded
<1>9. Listed' = Listed /\ (Stuck => Stuck')
  BY <1>2, <1>3, <1>7, <1>8 DEF Listed, Stuck
<1>10. FirstToPush => cmds # <<>> /\ cmds[1] \in Slots /\ slot[cmds[1]].push /\ Head(cmds) = cmds[1]
  BY <1>2 DEF FirstToPush
<1>12. beside' \in BOOLEAN /\ (Undisturbed' => Undisturbed) /\ Owed' = Owed /\ Apart'
  <2>1. KeepsDirect
    BY <1>4 DEF KeepsDirect
  <2>2. QED
    BY <1>3, <2>1, BusUntouched
<1>11. TypeOK'
  <2>1. crashed' \in BOOLEAN /\ pending' \in BOOLEAN
    BY DEF WorkStart, WorkScan, WorkCrash, IInv, TypeOK
  <2>2. wslot' \in Slots \cup {NoSlot}
    BY <1>10 DEF WorkStart, WorkScan, WorkCrash, IInv, TypeOK
  <2>3. QED
    BY <1>3, <1>4, <1>12, <2>1, <2>2 DEF IInv, TypeOK
<1>18. Owned'
  BY <1>3, <1>4 DEF IInv, Owned
<1>13. LeftToTheWorker'
  <2>1. \A s \in Slots : LeftBehind(s)' <=> LeftBehind(s)
    BY <1>2, <1>3, <1>4 DEF LeftBehind, Returned
  <2>2. l = "clear" => wslot' = cmds[1] /\ FirstToPush
    BY <1>1, <1>2, <1>10 DEF WorkStart, WorkScan, WorkCrash, Goto
  <2>3. l \notin Live
    BY <1>4 DEF Live
  <2>4. \A s \in Slots : slot'[s].push => LeftBehind(s)'
    BY <1>3, <2>1 DEF IInv, LeftToTheWorker
  <2>5. ASSUME l = "clear"
        PROVE  /\ cmds' # <<>> /\ cmds'[1] = wslot' /\ slot'[wslot'].push
               /\ wslot' \in Slots /\ LeftBehind(wslot)'
    <3>1. PICK t \in Slots : t = wslot' /\ t = cmds[1] /\ slot[t].push /\ cmds # <<>>
      BY <1>10, <2>2, <2>5
    <3>2. LeftBehind(t)'
      BY <1>3, <2>4, <3>1
    <3>3. LeftBehind(wslot)'
      BY <3>1, <3>2 DEF LeftBehind
    <3>4. QED
      BY <1>3, <3>1, <3>3
  <2>6. QED
    BY <1>4, <2>3, <2>4, <2>5 DEF LeftToTheWorker, WorkerPCs
<1>14. HeldIsListed' /\ Ordered' /\ ConfirmedOnce'
  BY <1>3, <1>7, <1>8, <1>9 DEF IInv, HeldIsListed, Ordered, ConfirmedOnce
<1>15. Sane'
  <2> SUFFICES ASSUME ~crashed'
               PROVE  Sane'
    BY DEF Sane
  <2>1. ~crashed /\ pc[Worker] \in {"idle", "scan"} /\ ~WorkCrash
    BY DEF WorkStart, WorkScan, WorkCrash
  <2>2. \A s \in Slots : HeldAt(s, Live) => CallAt(s, Live)
    BY <2>1 DEF HeldAt, WorkerAt, Live
  <2>3. ~Stuck'
    BY <1>2, <1>3, <1>5, <1>9, <2>1, <2>2 DEF IInv, Sane, Stuck, HeldAt
  <2>4. ASSUME cmds # <<>>, l = "idle"
        PROVE  \E s \in Slots : CallAt(s, Live)'
    <3>1. ~FirstToPush
      BY <1>1, <1>2, <2>1, <2>4 DEF WorkStart, WorkScan, Goto
    <3>2. cmds[1] \in Listed /\ ~slot[cmds[1]].push
      BY <1>2, <2>4, <3>1, ListedByIndex DEF FirstToPush
    <3>3. QED
      BY <1>2, <1>5, <2>1, <2>2, <3>2 DEF IInv, Sane, Stuck
  <2>5. \A s \in Slots :
           /\ CallAt(s, Off)' <=> CallAt(s, Off)
           /\ CallAt(s, Live)' <=> CallAt(s, Live)
    BY <1>5
  <2>6. usbUp' /\ cmds' # <<>> =>
           \/ pending' \/ pc'[Worker] # "idle"
           \/ \E s \in Slots : CallAt(s, Live)'
    BY <1>3, <2>4
  <2>7. QED
    BY <1>2, <1>3, <1>9, <2>1, <2>3, <2>5, <2>6 DEF IInv, Sane
<1>16. Quiet'
  <2>1. \A s \in Slots : HeldAt(s, Unsent)' => HeldAt(s, Unsent)
    BY <1>7, <1>8
  <2>2. \A s \in Slots : HeldAt(s, Loaded)' => HeldAt(s, Loaded)
    BY <1>7, <1>8
  <2>3. \A s \in Slots : HeldAt(s, Live)' => HeldAt(s, Live)
    BY <1>7, <1>8
  <2>4. QED
    BY <1>2, <1>3, <1>9, <1>12, <2>1, <2>2, <2>3 DEF IInv, Quiet, InProgress, Req
<1>17. QED
  BY <1>11, <1>12, <1>18, <1>13, <1>14, <1>15, <1>16 DEF IInv

\* It takes the first command, when all that is listed was left to it.
LEMMA WorkClearStep ==
    ASSUME IInv, Watch, WorkClear
    PROVE  IInv'
<1>1. PICK t \in Slots :
         /\ t = wslot /\ LeftBehind(t) /\ slot[t].push
         /\ cmds # <<>> /\ cmds[1] = t
  BY DEF IInv, LeftToTheWorker, WorkClear
<1>2. /\ pc[Worker] = "clear" /\ pc' = [pc EXCEPT ![Worker] = "fill"]
      /\ slot' = [slot EXCEPT ![t].push = FALSE]
      /\ UNCHANGED <<usbUp, crashed, cmds, pending, bus, wslot, killed>>
  BY <1>1 DEF WorkClear, Goto
<1>3. Worker \in Calls \cup {Worker} /\ Worker \notin Calls /\ NoCall \notin Calls
  BY CmdMgrAssumption DEF Calls, Worker, NoCall
<1>4. /\ cmds \in Seq(Slots) /\ Listed \subseteq Slots /\ Listed' = Listed
      /\ slot \in [Slots -> Slot] /\ slot[t] \in Slot
      /\ \A s : s \in Listed <=> \E i \in 1..Len(cmds) : cmds[i] = s
  BY <1>1, <1>2, ListedByIndex DEF IInv, TypeOK, Listed
<1>5. /\ \A s \in Slots : s # t => slot'[s] = slot[s]
      /\ slot'[t] \in Slot /\ ~slot'[t].push
      /\ slot'[t].by = slot[t].by /\ slot'[t].used = slot[t].used
      /\ slot'[t].kind = slot[t].kind /\ slot'[t].comp = slot[t].comp
      /\ slot'[t].cfm = slot[t].cfm
  <2>1. slot'[t] = [slot[t] EXCEPT !.push = FALSE]
    BY <1>1, <1>2, <1>4
  <2>2. QED
    BY <1>1, <1>2, <1>4, <2>1 DEF Slot
<1>6. /\ pc' \in [Calls \cup {Worker} -> CallPCs \cup WorkerPCs]
      /\ \A c \in Calls : pc'[c] = pc[c]
      /\ pc'[Worker] = "fill"
  BY <1>2, <1>3 DEF IInv, TypeOK, WorkerPCs, Sends
<1>7. \A s \in Slots :
         /\ slot[s].by # NoCall => slot[s].by \in Calls
         /\ slot'[s].by = slot[s].by /\ slot'[s].used = slot[s].used
         /\ slot'[s].kind = slot[s].kind /\ slot'[s].comp = slot[s].comp
         /\ slot'[s].cfm = slot[s].cfm
  <2>1. \A s \in Slots : slot[s].by \in 0..MaxCalls
    BY <1>4 DEF Slot
  <2>2. \A s \in Slots : slot[s].by # NoCall => slot[s].by \in Calls
    BY <2>1, CmdMgrAssumption DEF Calls, NoCall
  <2>3. QED
    BY <1>5, <2>2, Zenon
<1>8. \A s \in Listed : slot[s].push
  <2>1. \A j \in 1..Len(cmds) : j # 1 => slot[cmds[j]].push
    BY <1>1, <1>4 DEF IInv, Ordered
  <2>2. QED
    BY <1>1, <1>4, <2>1
<1>9. ~Stuck /\ \A s \in Slots : ~HeldAt(s, Live)
  BY <1>8 DEF IInv, HeldIsListed, Stuck
<1>10. \A s \in Slots : \A L : CallAt(s, L)' <=> CallAt(s, L)
  BY <1>6, <1>7 DEF CallAt
<1>11. \A s \in Slots : \A L \in SUBSET Live : HeldAt(s, L)' <=> s = t /\ "fill" \in L
  <2> SUFFICES ASSUME NEW s \in Slots, NEW L \in SUBSET Live
               PROVE  HeldAt(s, L)' <=> s = t /\ "fill" \in L
    OBVIOUS
  <2>1. ~CallAt(s, L)'
    BY <1>9, <1>10 DEF HeldAt, CallAt
  <2>2. WorkerAt(s, L)' <=> s = t /\ "fill" \in L
    BY <1>1, <1>2, <1>6 DEF WorkerAt
  <2>3. QED
    BY <2>1, <2>2 DEF HeldAt
<1>12. /\ Unsent \in SUBSET Live /\ Loaded \in SUBSET Live /\ Live \in SUBSET Live
       /\ "fill" \in Live
  BY DEF Live, Unsent, Loaded
<1>13. t \in Listed
  BY <1>1, <1>4
<1>14. ~Stuck'
  BY <1>4, <1>5, <1>8, <1>11, <1>12 DEF Stuck
<1>24. beside' \in BOOLEAN /\ (Undisturbed' => Undisturbed) /\ Owed' = Owed /\ Apart'
  <2>1. KeepsDirect
    BY <1>6 DEF KeepsDirect
  <2>2. QED
    BY <1>2, <2>1, BusUntouched
<1>15. TypeOK'
  <2>1. slot' \in [Slots -> Slot]
    BY <1>1, <1>2, <1>4, <1>5
  <2>2. QED
    BY <1>2, <1>6, <1>24, <2>1 DEF IInv, TypeOK
<1>16. Owned'
  BY <1>2, <1>6, <1>7 DEF IInv, Owned
<1>17. LeftToTheWorker'
  <2>1. \A s \in Slots : LeftBehind(s)' <=> LeftBehind(s)
    BY <1>6, <1>7 DEF LeftBehind, Returned
  <2>2. \A s \in Slots : slot'[s].push => slot[s].push
    BY <1>5
  <2>3. LeftBehind(wslot)'
    <3>1. LeftBehind(t)'
      BY <1>1, <2>1
    <3>2. QED
      BY <1>1, <1>2, <3>1 DEF LeftBehind
  <2>4. QED
    BY <1>1, <1>2, <1>6, <2>1, <2>2, <2>3 DEF IInv, LeftToTheWorker, WorkerPCs, Sends
<1>18. HeldIsListed'
  BY <1>1, <1>4, <1>5, <1>11, <1>12, <1>13 DEF HeldIsListed, LeftBehind
<1>19. Ordered'
  <2> SUFFICES ASSUME NEW i \in 1..Len(cmds), NEW j \in 1..Len(cmds), i < j
               PROVE  /\ cmds[i] # cmds[j]
                      /\ slot'[cmds[j]].push
    BY <1>2 DEF Ordered
  <2>1. cmds[i] # cmds[j] /\ cmds[j] # t /\ cmds[j] \in Listed
    BY <1>1, <1>4 DEF IInv, Ordered
  <2>2. QED
    BY <1>4, <1>5, <1>8, <2>1
<1>20. ConfirmedOnce'
  BY <1>4, <1>7 DEF IInv, ConfirmedOnce
<1>21. Sane'
  BY <1>2, <1>4, <1>6, <1>7, <1>10, <1>14 DEF IInv, Sane
<1>22. Quiet'
  <2> SUFFICES ASSUME Undisturbed
               PROVE  Quiet'
    BY <1>24 DEF Quiet
  <2>1. \A s \in Listed : slot[s].cfm
    BY <1>8, <1>9 DEF IInv, Quiet
  <2>2. Owed' = {}
    BY <1>24, <1>8 DEF IInv, Quiet, InProgress
  <2>3. slot'[t].comp = NoReq
    BY <1>5, <1>13, <2>1 DEF IInv, ConfirmedOnce
  <2>4. QED
    BY <1>2, <1>4, <1>7, <1>11, <1>12, <1>13, <2>1, <2>2, <2>3 DEF Quiet, Loaded
<1>23. QED
  BY <1>24, <1>15, <1>16, <1>17, <1>18, <1>19, <1>20, <1>21, <1>22 DEF IInv

LEMMA UsbDownStep ==
    ASSUME IInv, Watch, UsbDown
    PROVE  IInv'
<1>1. usbUp' = FALSE /\ UNCHANGED <<manager, bus, pc, wslot, killed>>
  BY DEF UsbDown
<1>2. Listed' = Listed /\ Listed \subseteq Slots
  BY <1>1, ListedByIndex DEF IInv, TypeOK, Listed
<1>3. \A s : \A L : (CallAt(s, L)' <=> CallAt(s, L)) /\ (HeldAt(s, L)' <=> HeldAt(s, L))
  BY <1>1 DEF HeldAt, CallAt, WorkerAt
<1>4. Stuck' <=> Stuck
  BY <1>1, <1>2, <1>3 DEF Stuck
<1>10. beside' \in BOOLEAN /\ (Undisturbed' => Undisturbed) /\ Owed' = Owed /\ Apart'
  <2>1. KeepsDirect
    BY <1>1 DEF KeepsDirect
  <2>2. QED
    BY <1>1, <2>1, BusUntouched
<1>5. TypeOK' /\ Owned' /\ LeftToTheWorker'
  BY <1>1, <1>10 DEF IInv, TypeOK, Owned, LeftToTheWorker, LeftBehind, Returned
<1>6. HeldIsListed' /\ Ordered' /\ ConfirmedOnce'
  BY <1>1, <1>2, <1>3 DEF IInv, HeldIsListed, Ordered, ConfirmedOnce
<1>7. Sane'
  BY <1>1, <1>2, <1>3, <1>4 DEF IInv, Sane
<1>8. Quiet'
  BY <1>1, <1>2, <1>3, <1>4, <1>10 DEF IInv, Quiet, InProgress, Req
<1>9. QED
  BY <1>5, <1>6, <1>7, <1>8, <1>10 DEF IInv

LEMMA StutterStep ==
    ASSUME IInv, UNCHANGED vars
    PROVE  IInv'
<1>1. /\ UNCHANGED <<usbUp, crashed, cmds, slot, pending, cmdBuf, urb, finished, fw>>
      /\ UNCHANGED <<pc, wslot, killed, beside>>
  BY DEF vars
<1>2. /\ Listed' = Listed /\ (Overlap' <=> Overlap) /\ (Undisturbed' <=> Undisturbed)
      /\ Owed' = Owed /\ Carried' = Carried
  BY <1>1 DEF Listed, Overlap, Undisturbed, Owed, Carried
<1>3. \A s : \A L : (CallAt(s, L)' <=> CallAt(s, L)) /\ (HeldAt(s, L)' <=> HeldAt(s, L))
  BY <1>1 DEF HeldAt, CallAt, WorkerAt
<1>4. TypeOK' /\ Owned' /\ LeftToTheWorker' /\ Ordered' /\ ConfirmedOnce' /\ Apart'
  BY <1>1, <1>2 DEF IInv, TypeOK, Owned, LeftToTheWorker, LeftBehind, Returned, Ordered,
                    ConfirmedOnce, Apart
<1>5. HeldIsListed' /\ Sane' /\ Quiet'
  BY <1>1, <1>2, <1>3 DEF IInv, HeldIsListed, Sane, Quiet, Stuck, InProgress, Req
<1>6. QED
  BY <1>4, <1>5 DEF IInv

LEMMA InitIInv == Init => IInv
<1> SUFFICES ASSUME Init PROVE IInv
  OBVIOUS
<1>1. FreeSlot \in Slot
  <2>1. (CHOOSE i \in Ids : TRUE) \in Ids
    BY CmdMgrAssumption
  <2>2. QED
    BY <2>1, CmdMgrAssumption DEF FreeSlot, Slot, NoCall, Kinds
<1>2. \A s \in Slots :
         /\ slot[s].by = NoCall /\ ~slot[s].used /\ ~slot[s].push
         /\ slot[s].comp = NoReq
  BY DEF Init, FreeSlot
<1>3. Worker \notin Calls /\ NoCall \notin Calls
  BY CmdMgrAssumption DEF Calls, Worker, NoCall
<1>4. pc[Worker] = "idle" /\ \A c \in Calls : pc[c] = "new"
  BY <1>3 DEF Init
<1>5. Listed = {} /\ Len(cmds) = 0
  BY DEF Init, Listed, ToSet
<1>6. TypeOK
  <2>1. cmds \in Seq(Slots) /\ Len(cmds) <= MaxQueued
    BY <1>5, CmdMgrAssumption DEF Init
  <2>2. pc \in [Calls \cup {Worker} -> CallPCs \cup WorkerPCs]
    BY DEF Init, CallPCs, WorkerPCs
  <2>3. QED
    BY <1>1, <2>1, <2>2 DEF Init, TypeOK
<1>7. \A s \in Slots : \A L : ~CallAt(s, L)
  BY <1>2 DEF CallAt
<1>8. \A s \in Slots : ~HeldAt(s, Live) /\ ~HeldAt(s, Unsent) /\ ~HeldAt(s, Loaded)
  BY <1>4, <1>7 DEF HeldAt, WorkerAt, Live, Unsent, Loaded
<1>9. Owned /\ LeftToTheWorker
  BY <1>2, <1>3, <1>4 DEF Owned, LeftToTheWorker, Live, WorkerPCs, Off, DirectPCs, DirectSends
<1>10. HeldIsListed /\ Ordered /\ ConfirmedOnce
  BY <1>5, <1>8 DEF HeldIsListed, Ordered, ConfirmedOnce
<1>11. Sane /\ Quiet
  <2>1. Owed = {} /\ Carried = {}
    BY DEF Init, Owed, Carried
  <2>2. QED
    BY <1>2, <1>5, <1>7, <1>8, <2>1 DEF Init, Sane, Quiet, Stuck
<1>13. Apart
  BY <1>4 DEF Init, Apart, Overlap, Carried, DirectSends, DirectLoaded
<1>12. QED
  BY <1>6, <1>9, <1>10, <1>11, <1>13 DEF IInv

LEMMA NextIInv == IInv /\ [Next]_vars => IInv'
<1> SUFFICES ASSUME IInv, [Next]_vars PROVE IInv'
  OBVIOUS
<1>1. ASSUME Watch, NEW c \in Calls, CallStart(c) \/ CallStep(c) \/ Killed(c)
      PROVE  IInv'
  BY <1>1, SendNothingStep, TakeSlotStep, ReturnsStep, EnqueueStep, FillStep, TxMsgStep,
     SubmitStep, TxDoneStep, RemovesStep, TimesOutStep
  DEF CallStart, CallStep
<1>2. CASE WorkStep /\ Watch
  BY <1>2, WorkerWalksStep, WorkClearStep, FillStep, TxMsgStep, SubmitStep, TxDoneStep,
     RemovesStep, TimesOutStep
  DEF WorkStep
<1>3. CASE (\E r \in Requests : MsgInd(r)) /\ Watch
  BY <1>3, MsgIndStep
<1>4. CASE (UsbDown \/ Transferred \/ UrbDone) /\ Watch
  BY <1>4, UsbDownStep, TransferredStep, UrbDoneStep
<1>5. CASE UNCHANGED vars
  BY <1>5, StutterStep
<1>6. QED
  BY <1>1, <1>2, <1>3, <1>4, <1>5 DEF Next, Step

-----------------------------------------------------------------------------
\* The strengthening holds in every reachable state.
THEOREM Invariant == Spec => []IInv
<1>1. Init => IInv
  BY InitIInv
<1>2. IInv /\ [Next]_vars => IInv'
  BY NextIInv
<1>3. QED
  BY <1>1, <1>2, PTL DEF Spec

\* The manager's state has its types: the list never grows beyond its limit.
THEOREM TypeCorrect == Spec => []TypeOK
<1>1. IInv => TypeOK
  BY DEF IInv
<1>2. QED
  BY <1>1, Invariant, PTL

\* What is listed is in use, and a confirmation is written into the buffer of
\* a caller only while the caller is there.
THEOREM ListedBelongs == Spec => []NoDanglingCommand
<1>1. IInv => NoDanglingCommand
  <2> SUFFICES ASSUME IInv, ~crashed, NEW s \in Listed
               PROVE  slot[s].used /\ (slot[s].kind = "buf" => ~Returned(slot[s].by))
    BY DEF NoDanglingCommand
  <2>1. s \in Slots
    BY ListedByIndex DEF IInv, TypeOK
  <2>2. slot[s].used
    BY <2>1 DEF IInv, Sane
  <2>3. slot[s].kind = "buf" => CallAt(s, Live)
    BY DEF IInv, Sane
  <2>4. QED
    BY <2>2, <2>3 DEF CallAt, Returned, Live
<1>2. QED
  BY <1>1, Invariant, PTL

\* A manager at rest has an empty list and all its slots.
THEOREM RestIsEmpty == Spec => []NothingLeftBehind
<1>1. IInv => NothingLeftBehind
  <2> SUFFICES ASSUME IInv, usbUp, ~crashed, pc[Worker] = "idle", ~pending,
                      \A c \in Calls : Returned(c) \/ pc[c] = "new"
               PROVE  cmds = <<>> /\ FreeSlots = Slots
    BY DEF NothingLeftBehind
  <2>1. \A s \in Slots : slot[s].by # NoCall => slot[s].by \in Calls
    BY CmdMgrAssumption DEF IInv, TypeOK, Slot, Calls, NoCall
  <2>2. \A s \in Slots : ~CallAt(s, Live) /\ ~CallAt(s, Off)
    BY <2>1 DEF CallAt, Returned, Live, Off, DirectPCs, DirectSends
  <2>3. cmds = <<>>
    BY <2>2 DEF IInv, Sane
  <2>4. Listed = {}
    BY <2>3, ListedByIndex DEF IInv, TypeOK
  <2>5. QED
    BY <2>2, <2>3, <2>4 DEF IInv, Sane, FreeSlots
<1>2. QED
  BY <1>1, Invariant, PTL

\* As long as no waiting caller is killed and no direct message is sent beside
\* another message, the command buffer has one writer at a time, who leaves it
\* alone until the device has taken what it holds.
THEOREM BufferHasOneWriter == Spec => []OneWriter
<1>1. IInv => OneWriter
  <2> SUFFICES ASSUME IInv, Undisturbed
               PROVE  Cardinality(Filled) <= 1 /\ (urb = "out" => Filled = {})
    BY DEF OneWriter
  <2>1. ~Overlap /\ pc[Worker] \notin DirectSends
    BY DEF IInv, Apart, LeftToTheWorker, WorkerPCs, Sends, DirectSends
  <2>2. ASSUME NEW p \in Calls \cup {Worker}, pc[p] \in Loaded
        PROVE  Held(p) \in Slots /\ HeldAt(Held(p), Unsent) /\ cmdBuf = Req(Held(p))
    <3>1. pc[p] \in Live /\ pc[p] \in Unsent
      BY <2>2 DEF Live, Unsent, Loaded
    <3>2. Held(p) \in Slots /\ HeldAt(Held(p), Unsent) /\ HeldAt(Held(p), Loaded)
      BY <2>2, <3>1, HeldSlot
    <3>3. QED
      BY <3>2 DEF IInv, Quiet
  <2>3. ASSUME NEW p \in Calls \cup {Worker}, pc[p] \in Loaded,
               NEW q \in Calls \cup {Worker}, pc[q] \in Loaded
        PROVE  p = q
    <3>1. Held(p) = Held(q) /\ Held(p) \in Slots
      BY <2>2, <2>3, PushesAlone
    <3>2. pc[p] \in Live /\ pc[q] \in Live
      BY <2>3 DEF Live, Loaded
    <3>3. /\ IF p = Worker THEN wslot = Held(p) ELSE slot[Held(p)].by = p
          /\ IF q = Worker THEN wslot = Held(p) ELSE slot[Held(p)].by = q
      BY <3>1, <3>2, HeldSlot
    <3>4. pc[Worker] \in Live => LeftBehind(wslot)
      BY DEF IInv, LeftToTheWorker
    <3>5. QED
      BY <3>2, <3>3, <3>4 DEF LeftBehind, Returned, Live
  <2>4. \A p \in Filled : p \in Calls \cup {Worker} /\ pc[p] \in Loaded \cup DirectLoaded
    BY DEF Filled, Loaded, DirectLoaded
  <2>5. ASSUME NEW p \in Filled, NEW q \in Filled, p # q, pc[p] \in DirectLoaded
        PROVE  FALSE
    <3>1. p \in Calls /\ pc[p] \in DirectSends
      BY <2>1, <2>4, <2>5 DEF DirectSends, DirectLoaded
    <3>2. pc[q] \in Sends \cup DirectSends
      BY <2>4 DEF Sends, DirectSends, Loaded, DirectLoaded
    <3>3. QED
      BY <2>1, <2>4, <2>5, <3>1, <3>2 DEF Overlap
  <2>6. \A p, q \in Filled : p = q
    BY <2>3, <2>4, <2>5
  <2>7. Cardinality(Filled) <= 1
    <3>1. CASE Filled = {}
      <4>1. Cardinality(Filled) = 0
        BY <3>1, FS_EmptySet
      <4>2. QED
        BY <4>1
    <3>2. CASE \E p : Filled = {p}
      <4>1. Cardinality(Filled) = 1
        BY <3>2, FS_Singleton, Zenon
      <4>2. QED
        BY <4>1
    <3>3. QED
      BY <2>6, <3>1, <3>2
  <2>8. ASSUME urb = "out", NEW p \in Filled
        PROVE  FALSE
    <3>1. CASE pc[p] \in DirectLoaded
      BY <2>1, <2>4, <2>8, <3>1, DirectKnows DEF DirectSends, DirectLoaded
    <3>2. CASE pc[p] \in Loaded
      <4>1. pc[p] \in Live /\ p \in Calls \cup {Worker}
        BY <2>4, <3>2 DEF Live, Loaded
      <4>2. cmdBuf = Req(Held(p)) /\ cmdBuf # NoReq
        BY <2>2, <3>2, <4>1, RequestOfHeld
      <4>3. Owed = {}
        BY <2>2, <3>2, <4>1, PushesAlone
      <4>4. QED
        BY <2>8, <4>2, <4>3 DEF Owed, Carried
    <3>3. QED
      BY <2>4, <3>1, <3>2
  <2>9. QED
    BY <2>7, <2>8
<1>2. QED
  BY <1>1, Invariant, PTL

\* As long as no waiting caller is killed and no direct message is sent beside
\* another message, a call that waits and returns success was completed by the
\* confirmation of its own request.
THEOREM AnsweredByOwn == Spec => OwnAnswer
<1>1. IInv /\ [Next]_vars =>
         [Undisturbed' => \A c \in Calls : pc[c] = "wait" /\ pc'[c] = "ok" =>
            slot[SlotOf(c)].comp = Req(SlotOf(c))]_vars
  <2> SUFFICES ASSUME IInv, Next, Undisturbed', NEW c \in Calls, pc[c] = "wait", pc'[c] = "ok"
               PROVE  slot[SlotOf(c)].comp = Req(SlotOf(c))
    OBVIOUS
  <2>1. SlotOf(c) \in Slots /\ HeldAt(SlotOf(c), Live)
    <3>1. pc[c] \in Live /\ c # Worker
      BY CmdMgrAssumption DEF Live, Worker, Calls
    <3>2. QED
      BY <3>1, HeldSlot DEF Held
  <2>2. Confirmed(c)
    <3>1. /\ pc \in [Calls \cup {Worker} -> CallPCs \cup WorkerPCs]
          /\ c \in Calls \cup {Worker} /\ c # Worker
      BY CmdMgrAssumption DEF IInv, TypeOK, Calls, Worker
    <3>2. ASSUME NEW p \in Calls \cup {Worker}, Fill(p) \/ TxMsg(p) \/ Submit(p) \/ TxDone(p)
          PROVE  FALSE
      <4>1. \A d \in BOOLEAN :
               At("fill", d) # "wait" /\ At("tx", d) # "wait" /\ At("submit", d) # "wait"
               /\ At("sent", d) # "wait" /\ At("tx", d) # "ok" /\ At("submit", d) # "ok"
               /\ At("sent", d) # "ok" /\ At("wait", d) # "ok"
        BY Places
      <4>2. PICK l : pc' = [pc EXCEPT ![p] = l] /\ pc[p] # "wait" /\ l # "ok"
        <5>1. CASE Fill(p)
          BY <4>1, <5>1 DEF Fill, Goto
        <5>2. CASE TxMsg(p)
          BY <4>1, <5>2 DEF TxMsg, Goto
        <5>3. CASE Submit(p)
          BY <4>1, <5>3 DEF Submit, Goto
        <5>4. CASE TxDone(p)
          BY <4>1, <5>4 DEF TxDone, Goto
        <5>5. QED
          BY <3>2, <5>1, <5>2, <5>3, <5>4
      <4>3. QED
        BY <3>1, <4>2
    <3>3. ~WorkStep
      BY <3>1, <3>2 DEF WorkStep, WorkStart, WorkScan, WorkClear, WorkConfirmed, TimesOut,
                        WorkCrash, Goto
    <3>4. ~UsbDown /\ ~Transferred /\ ~UrbDone /\ \A r \in Requests : ~MsgInd(r)
      BY DEF UsbDown, Transferred, UrbDone, MsgInd
    <3>5. ASSUME NEW d \in Calls, Killed(d)
          PROVE  FALSE
      BY <3>5 DEF Killed, Undisturbed
    <3>6. ASSUME NEW d \in Calls, CallStart(d) \/ CallStep(d)
          PROVE  d = c /\ Confirmed(d)
      BY <3>1, <3>2, <3>6 DEF CallStart, SendNothing, TakeSlot, CallStep, Refuse, Enqueue,
                              Confirmed, TimesOut, Crash, FreeDirect, Goto
    <3>7. QED
      BY <3>3, <3>4, <3>5, <3>6 DEF Next, Step
  <2>3. Undisturbed /\ slot[SlotOf(c)].comp # NoReq
    <3>1. killed \subseteq killed'
      BY <2>2 DEF Confirmed
    <3>2. QED
      BY <2>2, <3>1, WatchKeeps DEF Confirmed, Next
  <2>4. QED
    BY <2>1, <2>3 DEF IInv, Quiet
<1>2. QED
  BY <1>1, Invariant, PTL DEF Spec, OwnAnswer

\* The safety half of DeferredIsPushed: while a command is left to the worker,
\* the worker is due, or a caller is under way that wakes it when it is done.
\* (A caller that finds a command behind its own on the list wakes the worker;
\* no later call does, since the list it queues on is not empty.)
LeftIsPursued ==
    (~crashed /\ usbUp /\ LeftToWorker # {}) =>
        pending \/ pc[Worker] # "idle" \/ \E c \in Calls : pc[c] \in Live

\* A command left to the worker is always somebody's to push, while the bus is
\* up and the manager has not crashed.
THEOREM SomebodyPushes == Spec => []LeftIsPursued
<1>1. IInv => LeftIsPursued
  <2> SUFFICES ASSUME IInv, ~crashed, usbUp, NEW t \in LeftToWorker,
                      ~pending, pc[Worker] = "idle"
               PROVE  \E c \in Calls : pc[c] \in Live
    BY DEF LeftIsPursued
  <2>1. cmds # <<>>
    <3>1. t \in Listed
      BY DEF LeftToWorker
    <3>2. QED
      BY <3>1, ListedByIndex DEF IInv, TypeOK
  <2>2. PICK s \in Slots : CallAt(s, Live)
    BY <2>1 DEF IInv, Sane
  <2>3. slot[s].by \in Calls
    BY <2>2, CmdMgrAssumption DEF IInv, TypeOK, Slot, Calls, NoCall, CallAt
  <2>4. QED
    BY <2>2, <2>3 DEF CallAt
<1>2. QED
  BY <1>1, Invariant, PTL
=============================================================================
