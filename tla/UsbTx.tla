-------------------------------- MODULE UsbTx --------------------------------
(***************************************************************************)
(* The transmit half: aicwf_usb_bus_txdata posts a filled URB under the    *)
(* network stack's tx_lock, the bustx thread submits what is posted, the   *)
(* completion gives the URB back, and two water marks stop and wake the    *)
(* network queues.  URBs are interchangeable, so the lists are counts.     *)
(***************************************************************************)
EXTENDS UsbBus

CONSTANTS
    TxUrbs,    \* AICWF_USB_TX_URBS
    Low,       \* AICWF_USB_TX_LOW_WATER
    High       \* AICWF_USB_TX_HIGH_WATER

ASSUME TxAssumption ==
    /\ TxUrbs \in Nat /\ Low \in Nat /\ High \in Nat
    /\ 0 < Low /\ Low <= High /\ High < TxUrbs

VARIABLES
    txFree,    \* length of tx_free_list
    txPost,    \* length of tx_post_list
    txAir,     \* URBs with the host controller
    tbusy,     \* usb_dev->tbusy: the network queues are stopped
    txTrgg,    \* bustx_trgg
    sendPc,    \* where the sender stands in aicwf_usb_bus_txdata
    threadPc,  \* where usb_bustx_thread stands
    givePc,    \* where the completion handler stands
    txFailed   \* history: usb_submit_urb has failed

txVars == <<txFree, txPost, txAir, tbusy, txTrgg, sendPc, threadPc, givePc, txFailed>>

SendPCs == {"idle", "fill", "trigger", "flow"}
ThreadPCs == {"wait", "process", "submit", "exit"}
GivePCs == {"idle", "flow"}

TxInit ==
    /\ txFree = TxUrbs /\ txPost = 0 /\ txAir = 0
    /\ tbusy = FALSE
    /\ txTrgg = 0
    /\ sendPc = "idle" /\ threadPc = "wait" /\ givePc = "idle"
    /\ txFailed = FALSE
-----------------------------------------------------------------------------
(***************************************************************************)
(* aicwf_usb_bus_txdata.  Frames on a bus that is down are dropped before  *)
(* anything changes; a frame for which there is no URB is dropped too, but *)
(* after that the flow is controlled all the same.                         *)
(***************************************************************************)
FrameTx ==
    /\ sendPc = "idle"
    /\ up
    /\ \/ txFree > 0 /\ txFree' = txFree - 1 /\ sendPc' = "fill"
       \/ txFree = 0 /\ sendPc' = "flow" /\ UNCHANGED txFree
    /\ UNCHANGED <<txPost, txAir, tbusy, txTrgg, threadPc, givePc, txFailed, busVars>>

Post ==
    /\ sendPc = "fill"
    /\ txPost' = txPost + 1
    /\ sendPc' = "trigger"
    /\ UNCHANGED <<txFree, txAir, tbusy, txTrgg, threadPc, givePc, txFailed, busVars>>

\* Mutant: nobody wakes the thread.
TriggerNobody ==
    /\ sendPc = "trigger"
    /\ sendPc' = "flow"
    /\ UNCHANGED <<txFree, txPost, txAir, tbusy, txTrgg, threadPc, givePc, txFailed, busVars>>

Trigger ==
    /\ sendPc = "trigger"
    /\ txTrgg' = Complete(txTrgg)
    /\ sendPc' = "flow"
    /\ UNCHANGED <<txFree, txPost, txAir, tbusy, threadPc, givePc, txFailed, busVars>>

FlowStop ==
    /\ sendPc = "flow"
    /\ tbusy' = (tbusy \/ txFree < Low)
    /\ sendPc' = "idle"
    /\ UNCHANGED <<txFree, txPost, txAir, txTrgg, threadPc, givePc, txFailed, busVars>>
-----------------------------------------------------------------------------
(***************************************************************************)
(* usb_bustx_thread and aicwf_usb_tx_process.                              *)
(***************************************************************************)
\* Mutant: the thread does not look at the state of the bus.
TxWakeBlind ==
    /\ threadPc = "wait"
    /\ txTrgg > 0 \/ TxTold
    /\ txTrgg' = Consume(txTrgg, TxTold)
    /\ threadPc' = IF txPost > 0 THEN "process" ELSE "wait"
    /\ UNCHANGED <<txFree, txPost, txAir, tbusy, sendPc, givePc, txFailed, busVars>>

TxWake ==
    /\ threadPc = "wait"
    /\ txTrgg > 0 \/ TxTold
    /\ txTrgg' = Consume(txTrgg, TxTold)
    /\ threadPc' = CASE ~up -> "exit"
                     [] up /\ txPost > 0 -> "process"
                     [] OTHER -> "wait"
    /\ UNCHANGED <<txFree, txPost, txAir, tbusy, sendPc, givePc, txFailed, busVars>>

TxProcess ==
    /\ threadPc = "process"
    /\ \/ /\ txPost > 0 /\ up
          /\ txPost' = txPost - 1
          /\ threadPc' = "submit"
       \/ /\ txPost = 0 \/ ~up
          /\ threadPc' = "wait"
          /\ UNCHANGED txPost
    /\ UNCHANGED <<txFree, txAir, tbusy, txTrgg, sendPc, givePc, txFailed, busVars>>

TxSubmitOk ==
    /\ threadPc = "submit"
    /\ Attached
    /\ txAir' = txAir + 1
    /\ threadPc' = "process"
    /\ UNCHANGED <<txFree, txPost, tbusy, txTrgg, sendPc, givePc, txFailed, busVars>>

\* Mutant: the URB is dropped with its frame.
TxSubmitLost ==
    /\ threadPc = "submit"
    /\ threadPc' = "process"
    /\ txFailed' = TRUE
    /\ UNCHANGED <<txFree, txPost, txAir, tbusy, txTrgg, sendPc, givePc, busVars>>

\* The frame is dropped and the URB is free again, but the flow is not
\* controlled: only a completion wakes the network queues.
TxSubmitFails ==
    /\ threadPc = "submit"
    /\ txFree' = txFree + 1
    /\ threadPc' = "process"
    /\ txFailed' = TRUE
    /\ UNCHANGED <<txPost, txAir, tbusy, txTrgg, sendPc, givePc, busVars>>
-----------------------------------------------------------------------------
(***************************************************************************)
(* aicwf_usb_tx_complete: the handlers of one endpoint do not overlap.     *)
(***************************************************************************)
\* Mutant: the queues are not looked at when the URB comes back.
TxCompleteOnly ==
    /\ givePc = "idle"
    /\ txAir > 0
    /\ txAir' = txAir - 1
    /\ txFree' = txFree + 1
    /\ UNCHANGED <<txPost, tbusy, txTrgg, sendPc, threadPc, givePc, txFailed, busVars>>

TxComplete ==
    /\ givePc = "idle"
    /\ txAir > 0
    /\ txAir' = txAir - 1
    /\ txFree' = txFree + 1
    /\ givePc' = "flow"
    /\ UNCHANGED <<txPost, tbusy, txTrgg, sendPc, threadPc, txFailed, busVars>>

FlowWake ==
    /\ givePc = "flow"
    /\ tbusy' = (tbusy /\ txFree <= High)
    /\ givePc' = "idle"
    /\ UNCHANGED <<txFree, txPost, txAir, txTrgg, sendPc, threadPc, txFailed, busVars>>

SenderGoesOn == Post \/ Trigger \/ FlowStop
TxThread == TxWake \/ TxProcess \/ TxSubmitOk \/ TxSubmitFails
TxGiveBack == TxComplete \/ FlowWake

TxNext == FrameTx \/ SenderGoesOn \/ TxThread \/ TxGiveBack

\* The sender holds a spin lock, the thread has real-time priority, and the
\* host controller gives every URB back, be it with an error.
TxFairness ==
    /\ WF_<<txVars, busVars>>(SenderGoesOn)
    /\ WF_<<txVars, busVars>>(TxThread)
    /\ WF_<<txVars, busVars>>(TxGiveBack)

TxSpec == TxInit /\ BusInit /\ [][TxNext]_<<txVars, busVars>>
-----------------------------------------------------------------------------
Held(b) == IF b THEN 1 ELSE 0

\* With the types, every URB in one place: on one of the two lists, with the
\* host controller, with the sender that fills it or with the thread that
\* submits it.
TxTypeOK ==
    /\ txFree \in Nat /\ txPost \in Nat /\ txAir \in Nat
    /\ tbusy \in BOOLEAN /\ txFailed \in BOOLEAN
    /\ txTrgg \in 0..MaxTrgg
    /\ sendPc \in SendPCs /\ threadPc \in ThreadPCs /\ givePc \in GivePCs
    /\ removal # "done" =>
           txFree + txPost + txAir
             + Held(sendPc = "fill") + Held(threadPc = "submit") = TxUrbs

(***************************************************************************)
(* No lost wakeup for the thread: what is posted on a bus that is up will  *)
(* be looked at, because the thread is at work, or has a wakeup coming, or *)
(* the sender is about to give it one.                                     *)
(***************************************************************************)
PostedIsSeen ==
    up /\ txPost > 0 =>
        \/ threadPc \in {"process", "submit"}
        \/ txTrgg > 0
        \/ sendPc = "trigger"

(***************************************************************************)
(* No lost wakeup for the network: when the queues are stopped, there are  *)
(* either not enough free URBs to wake them or a completion is about to.   *)
(* The exception is a submission that failed.                              *)
(***************************************************************************)
StoppedForAReason ==
    tbusy /\ ~txFailed => txFree <= High \/ givePc = "flow"
=============================================================================
