-------------------------------- MODULE UsbRx --------------------------------
(***************************************************************************)
(* The receive half, of the data endpoint: a completion handler queues the *)
(* frame, counts it, wakes the busrx thread when the count is one and      *)
(* submits every URB that is free; the thread empties the queue. Init is   *)
(* the bus after aicwf_usb_bus_start, with every URB submitted. The        *)
(* message endpoint has handlers of its own, which are not modelled.       *)
(***************************************************************************)
EXTENDS UsbBus

CONSTANTS
    RxUrbs,     \* AICWF_USB_RX_URBS
    QMax,       \* qmax of rxq
    MaxParked   \* bound: completions or submissions that fail

ASSUME RxAssumption ==
    /\ RxUrbs \in Nat \ {0} /\ QMax \in Nat \ {0} /\ MaxParked \in Nat

VARIABLES
    rxFree,     \* length of rx_free_list
    rxAir,      \* URBs with the host controller
    rxq,        \* frames in rx_priv->rxq
    rxCnt,      \* rx_priv->rx_cnt
    rxTrgg,     \* busrx_trgg
    irqPc,      \* where the completion handler stands
    procPc,     \* where usb_busrx_thread stands
    parked,     \* history: completions and submissions that left an URB free
    leaked      \* history: frames given up before they were counted off

rxVars == <<rxFree, rxAir, rxq, rxCnt, rxTrgg, irqPc, procPc, parked, leaked>>

IrqPCs == {"idle", "enqueue", "count", "trigger", "submit"}
ProcPCs == {"wait", "process", "handle", "exit"}

RxInit ==
    /\ rxFree = 0 /\ rxAir = RxUrbs
    /\ rxq = 0 /\ rxCnt = 0 /\ rxTrgg = 0
    /\ irqPc = "idle" /\ procPc = "wait"
    /\ parked = 0 /\ leaked = 0
-----------------------------------------------------------------------------
(***************************************************************************)
(* aicwf_usb_rx_complete, by its outcomes.                                 *)
(***************************************************************************)
\* rwnx_hw is not there yet, or the status is an error: the URB stays on the
\* free list, and nothing is submitted.
RxParked ==
    /\ irqPc = "idle"
    /\ rxAir > 0 /\ Attached
    /\ parked < MaxParked
    /\ rxAir' = rxAir - 1 /\ rxFree' = rxFree + 1
    /\ parked' = parked + 1
    /\ UNCHANGED <<rxq, rxCnt, rxTrgg, irqPc, procPc, leaked, busVars>>

\* The adapter is gone: the URBs come back with an error, one after another.
RxTooLate ==
    /\ irqPc = "idle"
    /\ rxAir > 0
    /\ ~Attached
    /\ rxAir' = rxAir - 1 /\ rxFree' = rxFree + 1
    /\ UNCHANGED <<rxq, rxCnt, rxTrgg, irqPc, procPc, parked, leaked, busVars>>

\* An empty transfer, or one with a length that cannot be.
RxEmpty ==
    /\ irqPc = "idle"
    /\ rxAir > 0 /\ Attached
    /\ rxAir' = rxAir - 1 /\ rxFree' = rxFree + 1
    /\ irqPc' = "submit"
    /\ UNCHANGED <<rxq, rxCnt, rxTrgg, procPc, parked, leaked, busVars>>

RxFrame ==
    /\ irqPc = "idle"
    /\ rxAir > 0 /\ Attached
    /\ rxAir' = rxAir - 1
    /\ irqPc' = "enqueue"
    /\ UNCHANGED <<rxFree, rxq, rxCnt, rxTrgg, procPc, parked, leaked, busVars>>

\* Mutant: the URB of a frame that overflows the queue is forgotten.
RxEnqueueOrForget ==
    /\ irqPc = "enqueue"
    /\ \/ rxq < QMax /\ rxq' = rxq + 1 /\ irqPc' = "count"
       \/ rxq = QMax /\ irqPc' = "submit" /\ UNCHANGED rxq
    /\ UNCHANGED <<rxFree, rxAir, rxCnt, rxTrgg, procPc, parked, leaked, busVars>>

RxEnqueue ==
    /\ irqPc = "enqueue"
    /\ \/ rxq < QMax /\ rxq' = rxq + 1 /\ irqPc' = "count" /\ UNCHANGED rxFree
       \/ rxq = QMax /\ rxFree' = rxFree + 1 /\ irqPc' = "submit" /\ UNCHANGED rxq
    /\ UNCHANGED <<rxAir, rxCnt, rxTrgg, procPc, parked, leaked, busVars>>

RxCount ==
    /\ irqPc = "count"
    /\ rxCnt' = rxCnt + 1
    /\ irqPc' = "trigger"
    /\ UNCHANGED <<rxFree, rxAir, rxq, rxTrgg, procPc, parked, leaked, busVars>>

RxTrigger ==
    /\ irqPc = "trigger"
    /\ rxTrgg' = IF rxCnt = 1 THEN Complete(rxTrgg) ELSE rxTrgg
    /\ rxFree' = rxFree + 1
    /\ irqPc' = "submit"
    /\ UNCHANGED <<rxAir, rxq, rxCnt, procPc, parked, leaked, busVars>>

\* aicwf_usb_rx_submit_all_urb: until no URB is free, or one cannot be
\* submitted.
RxSubmitOk ==
    /\ irqPc = "submit"
    /\ Attached /\ rxFree > 0
    /\ rxFree' = rxFree - 1 /\ rxAir' = rxAir + 1
    /\ UNCHANGED <<rxq, rxCnt, rxTrgg, irqPc, procPc, parked, leaked, busVars>>

RxSubmitFails ==
    /\ irqPc = "submit"
    /\ up /\ rxFree > 0
    /\ \/ Attached /\ parked < MaxParked /\ parked' = parked + 1
       \/ ~Attached /\ UNCHANGED parked
    /\ irqPc' = "idle"
    /\ UNCHANGED <<rxFree, rxAir, rxq, rxCnt, rxTrgg, procPc, leaked, busVars>>

RxSubmitEnds ==
    /\ irqPc = "submit"
    /\ ~up \/ rxFree = 0
    /\ irqPc' = "idle"
    /\ UNCHANGED <<rxFree, rxAir, rxq, rxCnt, rxTrgg, procPc, parked, leaked, busVars>>
-----------------------------------------------------------------------------
(***************************************************************************)
(* usb_busrx_thread and aicwf_process_rxframes.                            *)
(***************************************************************************)
RxWake ==
    /\ procPc = "wait"
    /\ rxTrgg > 0 \/ RxTold
    /\ rxTrgg' = Consume(rxTrgg, RxTold)
    /\ procPc' = IF up THEN "process" ELSE "exit"
    /\ UNCHANGED <<rxFree, rxAir, rxq, rxCnt, irqPc, parked, leaked, busVars>>

RxProcess ==
    /\ procPc = "process"
    /\ \/ rxq > 0 /\ rxq' = rxq - 1 /\ procPc' = "handle"
       \/ rxq = 0 /\ procPc' = "wait" /\ UNCHANGED rxq
    /\ UNCHANGED <<rxFree, rxAir, rxCnt, rxTrgg, irqPc, parked, leaked, busVars>>

\* Mutant: the thread processes one frame for each wakeup.
RxHandledOne ==
    /\ procPc = "handle"
    /\ rxCnt' = rxCnt - 1
    /\ procPc' = "wait"
    /\ UNCHANGED <<rxFree, rxAir, rxq, rxTrgg, irqPc, parked, leaked, busVars>>

RxHandled ==
    /\ procPc = "handle"
    /\ rxCnt' = rxCnt - 1
    /\ procPc' = "process"
    /\ UNCHANGED <<rxFree, rxAir, rxq, rxTrgg, irqPc, parked, leaked, busVars>>

\* No memory for a message inside the frame: the function returns, with the
\* frame freed and still counted, and the rest left in the queue.
RxGivesUp ==
    /\ procPc = "handle"
    /\ leaked' = leaked + 1
    /\ procPc' = "wait"
    /\ UNCHANGED <<rxFree, rxAir, rxq, rxCnt, rxTrgg, irqPc, parked, busVars>>

RxIrq == RxTooLate \/ RxEmpty \/ RxFrame
RxIrqGoesOn ==
    \/ RxEnqueue \/ RxCount \/ RxTrigger \/ RxSubmitOk \/ RxSubmitFails \/ RxSubmitEnds
RxThread == RxWake \/ RxProcess \/ RxHandled \/ RxGivesUp

RxNext == RxParked \/ RxIrq \/ RxIrqGoesOn \/ RxThread

RxFairness ==
    /\ WF_<<rxVars, busVars>>(RxIrqGoesOn)
    /\ WF_<<rxVars, busVars>>(RxThread)
    /\ WF_<<rxVars, busVars>>(RxTooLate)

RxSpec == RxInit /\ BusInit /\ [][RxNext]_<<rxVars, busVars>>
-----------------------------------------------------------------------------
RxTypeOK ==
    /\ rxFree \in Nat /\ rxAir \in Nat
    /\ rxq \in 0..QMax
    /\ rxCnt \in Int
    /\ rxTrgg \in 0..MaxTrgg
    /\ irqPc \in IrqPCs /\ procPc \in ProcPCs
    /\ parked \in 0..MaxParked
    /\ leaked \in Nat

HandlerHolds == irqPc \in {"enqueue", "count", "trigger"}

(***************************************************************************)
(* Every URB is free, with the host controller or with the handler, and    *)
(* while the bus is up a handler that has returned leaves no more of them  *)
(* free than there were failures: reception stops only after as many       *)
(* failures as there are URBs, whatever frames are dropped or overflow.    *)
(***************************************************************************)
ReceptionGoesOn ==
    /\ removal # "done" =>
           rxFree + rxAir + (IF HandlerHolds THEN 1 ELSE 0) = RxUrbs
    /\ Attached /\ irqPc = "idle" => rxFree <= parked

(***************************************************************************)
(* No lost wakeup: a queued frame is seen by the thread, because it is at  *)
(* work, or has a wakeup coming, or the handler will find the count at     *)
(* one.  This is what the order of queueing, counting, processing and      *)
(* counting off has to give; a frame given up for lack of memory breaks it *)
(* for good.                                                               *)
(***************************************************************************)
ReceivedIsSeen ==
    up /\ rxq > 0 /\ leaked = 0 =>
        \/ procPc \in {"process", "handle"}
        \/ rxTrgg > 0
        \/ irqPc \in {"count", "trigger"}
=============================================================================
