------------------------------- MODULE CmdMgr -------------------------------
(***************************************************************************)
(* The command manager of the patched AIC8800 driver: rwnx_send_msg takes  *)
(* a slot from a fixed array, the manager keeps the commands in a list,    *)
(* pushes one through the single command buffer, and matches the           *)
(* firmware's confirmation to a listed command by its message id.  A       *)
(* command that cannot be pushed at once is left to a worker, and its      *)
(* caller does not wait for it.  A message that needs no confirmation goes *)
(* through the same buffer without going through the list.                 *)
(***************************************************************************)
EXTENDS Integers, Sequences, FiniteSets, SequencesExt

CONSTANTS
    Slots,        \* cmd_array, searched in the order of the numbers
    MaxCalls,     \* bound: invocations of rwnx_send_msg
    Ids,          \* confirmation ids (reqid)
    MaxQueued,    \* max_queue_sz, RWNX_CMD_MAX_QUEUED
    MaxKills      \* bound: ids whose callers may be killed while they wait

ASSUME CmdMgrAssumption ==
    /\ Slots \subseteq Nat
    /\ IsFiniteSet(Slots)
    /\ MaxCalls \in Nat
    /\ Ids # {}
    /\ MaxQueued \in Nat \ {0}
    /\ MaxKills \in Nat

Calls == 1..MaxCalls
Worker == MaxCalls + 1     \* cmd_mgr_task_process
NoCall == 0
NoSlot == -1

\* A request as the firmware sees it: who sent it, and the id of the
\* confirmation it leads to.
Requests == Calls \X Ids
NoReq == <<>>

\* buf: the caller wants the confirmation's parameters in its own buffer.
\* traffic: ME_TRAFFIC_IND_REQ and MM_SET_ARPOFFLOAD_REQ, always deferred.
\* direct: no confirmation is asked for, and the list is not used.
Kinds == {"plain", "buf", "traffic", "direct"}

VARIABLES
    usbUp,      \* usbdev->state = USB_UP_ST
    crashed,    \* state = RWNX_CMD_MGR_STATE_CRASHED
    cmds,       \* the list, as a sequence of slots
    slot,       \* cmd_array
    pending,    \* cmdWork is queued
    cmdBuf,     \* the request the one command buffer holds; NoReq: none, or
                \* a message that needs no confirmation
    urb,        \* msg_out_urb: idle, out (submitted), or sent (the device
                \* has the data, the completion is still to come)
    finished,   \* msg_finished
    fw,         \* requests the firmware has and has not yet confirmed
    pc,         \* where each call, and the worker, stands
    wslot,      \* the worker's next
    killed,     \* history: ids whose caller was killed while it waited
    beside      \* history: a direct message was sent beside another message

manager == <<crashed, cmds, slot, pending>>
bus == <<cmdBuf, urb, finished, fw>>
vars == <<usbUp, manager, bus, pc, wslot, killed, beside>>

\* used, the flags WAIT_PUSH and WAIT_CFM, the call that filled the slot in,
\* reqid, what e2a_msg and id ask for, and the completion, which keeps the
\* request whose confirmation completed it.  What a slot off the list holds
\* is overwritten before it is read again, so the model clears it.
Slot == [used : BOOLEAN, push : BOOLEAN, cfm : BOOLEAN, by : 0..MaxCalls,
         id : Ids, kind : Kinds, comp : Requests \cup {NoReq}]
FreeSlot == [used |-> FALSE, push |-> FALSE, cfm |-> FALSE, by |-> NoCall,
             id |-> CHOOSE i \in Ids : TRUE, kind |-> "plain", comp |-> NoReq]

\* "ok" is a return value of 0: confirmed, left to the worker, or not sent at
\* all because the bus was down; "err" is a negative one.
\* A process inside aicwf_set_cmd_tx is at fill, tx, submit or sent.
Sends == {"fill", "tx", "submit", "sent"}
\* The same places for a direct message, which starts to send at once and
\* frees its slot afterwards.
Direct == [queue |-> "dfill", fill |-> "dfill", tx |-> "dtx", submit |-> "dsubmit",
           sent |-> "dsent", wait |-> "free"]
DirectSends == {"dfill", "dtx", "dsubmit", "dsent"}
DirectPCs == DirectSends \cup {"free"}
CallPCs == Sends \cup DirectPCs \cup {"new", "queue", "wait", "tmo", "ok", "err"}
WorkerPCs == Sends \cup {"idle", "scan", "clear", "wait", "tmo"}
At(l, d) == IF d THEN Direct[l] ELSE l

Returned(c) == pc[c] \in {"ok", "err"}
Goto(p, l) == pc' = [pc EXCEPT ![p] = l]

Listed == ToSet(cmds)
Position(s) == CHOOSE i \in DOMAIN cmds : cmds[i] = s
Without(s) == RemoveAt(cmds, Position(s))
FreeSlots == {s \in Slots : ~slot[s].used}
Lowest(S) == CHOOSE s \in S : \A x \in S : s <= x
SlotOf(c) == CHOOSE s \in Slots : slot[s].by = c
Held(p) == IF p = Worker THEN wslot ELSE SlotOf(p)
Req(s) == <<slot[s].by, slot[s].id>>
Busy(s) == slot[s].push \/ slot[s].cfm
FirstToPush == cmds # <<>> /\ slot[Head(cmds)].push
\* Mutant: the limit is compared too late.
QueueOverfull == Len(cmds) > MaxQueued

QueueFull == cmds # <<>> /\ Len(cmds) = MaxQueued
-----------------------------------------------------------------------------
(***************************************************************************)
(* rwnx_send_msg up to the manager.  A bus that is down makes the call a   *)
(* silent success, an array without a free slot an error; otherwise a slot *)
(* is taken.                                                               *)
(***************************************************************************)
SendNothing(c) ==
    /\ pc[c] = "new"
    /\ ~usbUp \/ FreeSlots = {}
    /\ Goto(c, IF usbUp THEN "err" ELSE "ok")
    /\ UNCHANGED <<usbUp, manager, bus, wslot, killed>>

\* A direct message has an id (0 or -1) that no confirmation bears; its slot is
\* looked at by its id only when a timeout has left it on the list.
TakeSlot(c) ==
    /\ pc[c] = "new"
    /\ usbUp
    /\ FreeSlots # {}
    /\ \E i \in Ids, k \in Kinds :
          /\ slot' = [slot EXCEPT ![Lowest(FreeSlots)] =
                         [@ EXCEPT !.used = TRUE, !.by = c, !.id = i, !.kind = k]]
          /\ Goto(c, At("queue", k = "direct"))
    /\ UNCHANGED <<usbUp, crashed, cmds, pending, bus, wslot, killed>>

(***************************************************************************)
(* cmd_mgr_queue under the lock: refuse, append and push, or append and    *)
(* leave to the worker.  A caller with a buffer of its own polls for an    *)
(* empty list first.                                                       *)
(***************************************************************************)
Refuse(c) ==
    /\ pc[c] = "queue"
    /\ crashed \/ (slot[SlotOf(c)].kind # "buf" /\ QueueFull)
    /\ slot' = [slot EXCEPT ![SlotOf(c)].used = FALSE]
    /\ Goto(c, "err")
    /\ UNCHANGED <<usbUp, crashed, cmds, pending, bus, wslot, killed>>

\* Mutant: only the commands that always wait are deferred.
MustDeferTraffic(c) == slot[SlotOf(c)].kind = "traffic"

MustDefer(c) ==
    \/ slot[SlotOf(c)].kind = "traffic"
    \/ cmds # <<>> /\ Busy(Last(cmds))

Enqueue(c) ==
    /\ pc[c] = "queue"
    /\ ~crashed /\ ~QueueFull
    /\ slot[SlotOf(c)].kind = "buf" => cmds = <<>>
    /\ cmds' = Append(cmds, SlotOf(c))
    /\ slot' = [slot EXCEPT ![SlotOf(c)] =
                   [@ EXCEPT !.cfm = TRUE, !.push = MustDefer(c)]]
    /\ \/ /\ MustDefer(c)
          /\ Goto(c, "ok")
          /\ pending' = (pending \/ cmds = <<>>)
       \/ /\ ~MustDefer(c)
          /\ Goto(c, "fill")
          /\ UNCHANGED pending
    /\ UNCHANGED <<usbUp, crashed, bus, wslot, killed>>
-----------------------------------------------------------------------------
(***************************************************************************)
(* aicwf_set_cmd_tx, by a caller or by the worker: fill the one command    *)
(* buffer, clear msg_finished, submit the one URB, and wait for its        *)
(* completion.  A bus that is down, an URB that is refused, and one that   *)
(* is killed after CMD_TX_TIMEOUT lose the message without telling anybody.*)
(***************************************************************************)
Fill(p) ==
    /\ \E d \in BOOLEAN :
          /\ pc[p] = At("fill", d)
          /\ \/ /\ usbUp
                /\ cmdBuf' = IF d THEN NoReq ELSE Req(Held(p))
                /\ Goto(p, At("tx", d))
             \/ /\ ~usbUp
                /\ Goto(p, At("wait", d))
                /\ UNCHANGED cmdBuf
    /\ UNCHANGED <<usbUp, manager, urb, finished, fw, wslot, killed>>

TxMsg(p) ==
    /\ \E d \in BOOLEAN :
          /\ pc[p] = At("tx", d)
          /\ \/ usbUp /\ finished' = FALSE /\ Goto(p, At("submit", d))
             \/ ~usbUp /\ UNCHANGED finished /\ Goto(p, At("wait", d))
    /\ UNCHANGED <<usbUp, manager, cmdBuf, urb, fw, wslot, killed>>

\* An URB that has not completed is refused (EBUSY).
Submit(p) ==
    /\ \E d \in BOOLEAN :
          /\ pc[p] = At("submit", d)
          /\ \/ urb = "idle" /\ urb' = "out" /\ Goto(p, At("sent", d))
             \/ UNCHANGED urb /\ Goto(p, At("wait", d))
    /\ UNCHANGED <<usbUp, manager, cmdBuf, finished, fw, wslot, killed>>

\* The time-out kills whatever the URB carries by then.
TxDone(p) ==
    /\ \E d \in BOOLEAN : pc[p] = At("sent", d) /\ Goto(p, At("wait", d))
    /\ \/ finished /\ UNCHANGED <<urb, finished>>
       \/ ~finished /\ urb' = "idle" /\ finished' = (urb # "idle")
    /\ UNCHANGED <<usbUp, manager, cmdBuf, fw, wslot, killed>>

\* rwnx_send_msg gives the slot of a direct message back.
FreeDirect(c) ==
    /\ pc[c] = "free"
    /\ slot' = [slot EXCEPT ![SlotOf(c)].used = FALSE]
    /\ Goto(c, "ok")
    /\ UNCHANGED <<usbUp, crashed, cmds, pending, bus, wslot, killed>>

\* The device takes what the buffer holds at that moment.
Transferred ==
    /\ urb = "out"
    /\ urb' = "sent"
    /\ fw' = fw \cup ({cmdBuf} \ {NoReq})
    /\ UNCHANGED <<usbUp, manager, cmdBuf, finished, pc, wslot, killed>>

\* The completion handler.  It runs late, or instead of the transfer.
UrbDone ==
    /\ urb # "idle"
    /\ urb' = "idle"
    /\ finished' = TRUE
    /\ UNCHANGED <<usbUp, manager, cmdBuf, fw, pc, wslot, killed>>
-----------------------------------------------------------------------------
WaitsFor(s, r) == slot[s].cfm /\ slot[s].id = r[2]

FirstMatch(i, r) ==
    /\ WaitsFor(cmds[i], r)
    /\ \A j \in 1..(i - 1) : ~WaitsFor(cmds[j], r)

(***************************************************************************)
(* cmd_mgr_msgind: the confirmation of request r goes to the first listed  *)
(* command that waits for this id, whatever request it belongs to.         *)
(***************************************************************************)
MsgInd(r) ==
    /\ r \in fw
    /\ fw' = fw \ {r}
    /\ \/ /\ \A s \in Listed : ~WaitsFor(s, r)
          /\ UNCHANGED slot
       \/ \E i \in DOMAIN cmds :
             /\ FirstMatch(i, r)
             /\ slot' = [slot EXCEPT ![cmds[i]] =
                            [@ EXCEPT !.cfm = FALSE, !.comp = r]]
    /\ UNCHANGED <<usbUp, crashed, cmds, pending, cmdBuf, urb, finished, pc, wslot, killed>>
-----------------------------------------------------------------------------
\* Mutant: the caller does not wake the worker for the commands behind it.
UnlinkOnly(c) ==
    /\ cmds' = Without(SlotOf(c))
    /\ slot' = [slot EXCEPT ![SlotOf(c)] = FreeSlot]
    /\ UNCHANGED pending

\* The caller removes its command, gives the slot back and wakes the worker
\* for the commands behind it, if the bus is up.
Unlink(c) ==
    /\ cmds' = Without(SlotOf(c))
    /\ slot' = [slot EXCEPT ![SlotOf(c)] = FreeSlot]
    /\ pending' = (pending \/ (cmds' # <<>> /\ usbUp))

\* The wait ends with the completion, and the call has succeeded.
Confirmed(c) ==
    /\ pc[c] = "wait"
    /\ slot[SlotOf(c)].comp # NoReq
    /\ Unlink(c)
    /\ Goto(c, "ok")
    /\ UNCHANGED <<usbUp, crashed, bus, wslot, killed>>

\* A fatal signal ends the killable wait with a value that is not zero
\* either, and the caller takes the same path.
Killed(c) ==
    /\ pc[c] = "wait"
    /\ Cardinality(killed \cup {slot[SlotOf(c)].id}) <= MaxKills
    /\ slot[SlotOf(c)].comp = NoReq
    /\ Unlink(c)
    /\ killed' = killed \cup {slot[SlotOf(c)].id}
    /\ Goto(c, "ok")
    /\ UNCHANGED <<usbUp, crashed, bus, wslot>>

\* RWNX_80211_CMD_TIMEOUT_MS passes; the confirmation may still come
\* before the lock is taken.
TimesOut(p) ==
    /\ pc[p] = "wait"
    /\ slot[Held(p)].comp = NoReq
    /\ Goto(p, "tmo")
    /\ UNCHANGED <<usbUp, manager, bus, wslot, killed>>

\* Mutant: a timeout does not stop the manager.
CrashForgotten(c) ==
    /\ pc[c] = "tmo"
    /\ slot' = [slot EXCEPT ![SlotOf(c)].used = FALSE]
    /\ Goto(c, "err")
    /\ UNCHANGED <<usbUp, crashed, cmds, pending, bus, wslot, killed>>

(***************************************************************************)
(* The timeout is final for the manager.  The command stays on the list,   *)
(* although rwnx_send_msg gives its slot back because of the error.        *)
(***************************************************************************)
Crash(c) ==
    /\ pc[c] = "tmo"
    /\ crashed' = TRUE
    /\ slot' = [slot EXCEPT ![SlotOf(c)].used = FALSE]
    /\ Goto(c, "err")
    /\ UNCHANGED <<usbUp, cmds, pending, bus, wslot, killed>>
-----------------------------------------------------------------------------
(***************************************************************************)
(* cmd_mgr_task_process, on its single-threaded queue: it looks at the     *)
(* first command only, and pushes it when it waits to be pushed.           *)
(***************************************************************************)
WorkStart ==
    /\ pc[Worker] = "idle"
    /\ pending
    /\ pending' = FALSE
    /\ Goto(Worker, "scan")
    /\ UNCHANGED <<usbUp, crashed, cmds, slot, bus, wslot, killed>>

WorkScan ==
    /\ pc[Worker] = "scan"
    /\ \/ /\ FirstToPush
          /\ wslot' = Head(cmds)
          /\ Goto(Worker, "clear")
       \/ /\ ~FirstToPush
          /\ Goto(Worker, "idle")
          /\ UNCHANGED wslot
    /\ UNCHANGED <<usbUp, manager, bus, killed>>

WorkClear ==
    /\ pc[Worker] = "clear"
    /\ slot' = [slot EXCEPT ![wslot].push = FALSE]
    /\ Goto(Worker, "fill")
    /\ UNCHANGED <<usbUp, crashed, cmds, pending, bus, wslot, killed>>

WorkConfirmed ==
    /\ pc[Worker] = "wait"
    /\ slot[wslot].comp # NoReq
    /\ cmds' = Without(wslot)
    /\ slot' = [slot EXCEPT ![wslot] = FreeSlot]
    /\ wslot' = NoSlot
    /\ Goto(Worker, "scan")
    /\ UNCHANGED <<usbUp, crashed, pending, bus, killed>>

\* The timed-out command keeps its slot and its place on the list.
WorkCrash ==
    /\ pc[Worker] = "tmo"
    /\ crashed' = TRUE
    /\ wslot' = NoSlot
    /\ Goto(Worker, "scan")
    /\ UNCHANGED <<usbUp, cmds, slot, pending, bus, killed>>

\* The adapter is unplugged, or its interface is taken down.
UsbDown ==
    /\ usbUp
    /\ usbUp' = FALSE
    /\ UNCHANGED <<manager, bus, pc, wslot, killed>>
-----------------------------------------------------------------------------
Init ==
    /\ usbUp = TRUE
    /\ crashed = FALSE
    /\ cmds = <<>>
    /\ slot = [s \in Slots |-> FreeSlot]
    /\ pending = FALSE
    /\ cmdBuf = NoReq
    /\ urb = "idle"
    /\ finished = FALSE
    /\ fw = {}
    /\ pc = [p \in Calls \cup {Worker} |-> IF p = Worker THEN "idle" ELSE "new"]
    /\ wslot = NoSlot
    /\ killed = {}
    /\ beside = FALSE

\* Calls are numbered in the order they start.
CallStart(c) ==
    /\ \A d \in Calls : d < c => pc[d] # "new"
    /\ SendNothing(c) \/ TakeSlot(c)

CallStep(c) ==
    \/ Refuse(c) \/ Enqueue(c)
    \/ Fill(c) \/ TxMsg(c) \/ Submit(c) \/ TxDone(c)
    \/ Confirmed(c) \/ TimesOut(c) \/ Crash(c) \/ FreeDirect(c)

WorkStep ==
    \/ WorkStart \/ WorkScan \/ WorkClear
    \/ Fill(Worker) \/ TxMsg(Worker) \/ Submit(Worker) \/ TxDone(Worker)
    \/ WorkConfirmed \/ TimesOut(Worker) \/ WorkCrash

Step ==
    \/ \E c \in Calls : CallStart(c) \/ CallStep(c) \/ Killed(c)
    \/ WorkStep
    \/ Transferred \/ UrbDone
    \/ \E r \in Requests : MsgInd(r)
    \/ UsbDown

\* A direct message is under way together with another message, or before
\* the URB of an earlier one has completed.
Overlap ==
    \E c \in Calls :
        \/ /\ pc[c] \in DirectSends
           /\ \E p \in (Calls \cup {Worker}) \ {c} : pc[p] \in Sends \cup DirectSends
        \/ pc[c] \in {"dfill", "dtx", "dsubmit"} /\ urb # "idle"

Watch == beside' = (beside \/ Overlap')

Next == Step /\ Watch

(***************************************************************************)
(* Some thread that the kernel has let into the driver goes on, or the     *)
(* worker does, as long as one of them can. The firmware owes nobody an    *)
(* answer: the timeout stands in for the answer that does not come. Nor    *)
(* does the host controller owe a completion: the sender of a message      *)
(* waits for it with a timeout.                                            *)
(***************************************************************************)
ThreadStep == WorkStep \/ \E c \in Calls : CallStep(c)
Fairness == WF_pc(ThreadStep)

Spec == Init /\ [][Next]_vars /\ Fairness
-----------------------------------------------------------------------------
TypeOK ==
    /\ usbUp \in BOOLEAN /\ crashed \in BOOLEAN /\ pending \in BOOLEAN
    /\ cmds \in Seq(Slots) /\ Len(cmds) <= MaxQueued
    /\ slot \in [Slots -> Slot]
    /\ cmdBuf \in Requests \cup {NoReq}
    /\ urb \in {"idle", "out", "sent"} /\ finished \in BOOLEAN
    /\ fw \subseteq Requests
    /\ pc \in [Calls \cup {Worker} -> CallPCs \cup WorkerPCs]
    /\ wslot \in Slots \cup {NoSlot}
    /\ killed \subseteq Ids /\ beside \in BOOLEAN

\* No waiting caller was killed, and no direct message was sent beside
\* another message.
Undisturbed == killed = {} /\ ~beside

(***************************************************************************)
(* The one command buffer is not filled again before the device has taken  *)
(* what it holds: the processes that have filled it and not yet submitted  *)
(* it, and an URB that is out, are one at most.  Nothing but the state of  *)
(* the list keeps the callers and the worker apart, so this ends with a    *)
(* kill, which lets a confirmation arrive for a command that has not been  *)
(* sent, and with a direct message, which does not look at the list.       *)
(***************************************************************************)
Filled == {p \in Calls \cup {Worker} : pc[p] \in {"tx", "submit", "dtx", "dsubmit"}}
OneWriter ==
    Undisturbed => /\ Cardinality(Filled) <= 1
                   /\ urb = "out" => Filled = {}

(***************************************************************************)
(* As long as nothing disturbs the list, a call that waits and returns     *)
(* success was completed by the confirmation of its own request.  After a  *)
(* kill the late confirmation may complete a command of the same id that   *)
(* is not sent yet; the next command then fills the buffer too early, is   *)
(* sent twice, and a caller of any id may get the second answer.  A direct *)
(* message whose URB is out may be sent as a command in the same way.      *)
(***************************************************************************)
OwnAnswer ==
    [][Undisturbed' => \A c \in Calls : pc[c] = "wait" /\ pc'[c] = "ok" =>
          slot[SlotOf(c)].comp = Req(SlotOf(c))]_vars

(***************************************************************************)
(* As long as the manager has not crashed, a slot on the list is not free  *)
(* for anybody else, and a confirmation is only ever written into the      *)
(* buffer of a caller that has not returned.                               *)
(***************************************************************************)
NoDanglingCommand ==
    ~crashed => \A s \in Listed :
        /\ slot[s].used
        /\ slot[s].kind = "buf" => ~Returned(slot[s].by)

(***************************************************************************)
(* When every call has returned and the worker rests, nothing is left on   *)
(* the list and every slot is back in the array, unless a timeout has      *)
(* stopped the manager or the adapter is gone.                             *)
(***************************************************************************)
NothingLeftBehind ==
    (/\ \A c \in Calls : Returned(c) \/ pc[c] = "new"
     /\ pc[Worker] = "idle" /\ ~pending /\ usbUp /\ ~crashed)
        => cmds = <<>> /\ FreeSlots = Slots

(***************************************************************************)
(* Every call returns, as long as the adapter stays: nobody polls for an   *)
(* empty list, or waits for a confirmation, for ever.  (When the adapter   *)
(* goes, a command left to the worker may block a polling caller.)  Stated *)
(* for all calls at once, which is the same for finitely many.             *)
(***************************************************************************)
Inside(c) == pc[c] # "new" /\ ~Returned(c)

CallsReturn == (\E c \in Calls : Inside(c)) ~> (~usbUp \/ \A c \in Calls : ~Inside(c))

(***************************************************************************)
(* The commands left to the worker are pushed in the end, unless a timeout *)
(* stops the manager or the adapter goes away.                             *)
(***************************************************************************)
LeftToWorker ==
    {s \in Listed : slot[s].push /\ slot[s].by # NoCall /\ Returned(slot[s].by)}

DeferredIsPushed == LeftToWorker # {} ~> (crashed \/ ~usbUp \/ LeftToWorker = {})
=============================================================================
