------------------------------- MODULE UsbData -------------------------------
(***************************************************************************)
(* The two halves of the USB data path and the removal of the adapter: the *)
(* USB core returns the URBs, then aicwf_usb_disconnect takes the bus down *)
(* and stops first the transmit and then the receive thread.               *)
(***************************************************************************)
EXTENDS UsbTx, UsbRx

vars == <<txVars, rxVars, busVars>>

Init == TxInit /\ RxInit /\ BusInit

Unplug ==
    /\ removal = "none"
    /\ removal' = "gone"
    /\ UNCHANGED <<up, txVars, rxVars>>

\* usb_unbind_interface calls the driver once every URB has come back and
\* every handler has returned; aicwf_usb_bus_stop takes the bus down.
BusStop ==
    /\ removal = "gone"
    /\ txAir = 0 /\ givePc = "idle" /\ rxAir = 0 /\ irqPc = "idle"
    /\ up' = FALSE
    /\ removal' = "stopped"
    /\ UNCHANGED <<txVars, rxVars>>

\* rwnx_platform_deinit has unregistered the network devices, so that no
\* sender is left; then complete_all for the transmit thread.
StopTxThread ==
    /\ removal = "stopped"
    /\ sendPc = "idle"
    /\ removal' = "txstop"
    /\ UNCHANGED <<up, txVars, rxVars>>

\* kthread_stop has waited for the transmit thread; complete_all for the
\* receive thread.
StopRxThread ==
    /\ removal = "txstop"
    /\ threadPc = "exit"
    /\ removal' = "rxstop"
    /\ UNCHANGED <<up, txVars, rxVars>>

\* aicwf_rx_deinit and aicwf_usb_deinit free the queue and the free lists.
FreeQueues ==
    /\ removal = "rxstop"
    /\ procPc = "exit"
    /\ removal' = "done"
    /\ rxq' = 0 /\ rxFree' = 0 /\ txFree' = 0
    /\ UNCHANGED <<up, txPost, txAir, tbusy, txTrgg, sendPc, threadPc, givePc, txFailed,
                   rxAir, rxCnt, rxTrgg, irqPc, procPc, parked, leaked>>

Remove == BusStop \/ StopTxThread \/ StopRxThread \/ FreeQueues

Next ==
    \/ TxNext /\ UNCHANGED rxVars
    \/ RxNext /\ UNCHANGED txVars
    \/ Unplug
    \/ Remove

Fairness ==
    /\ TxFairness
    /\ RxFairness
    /\ WF_vars(Remove)

Spec == Init /\ [][Next]_vars /\ Fairness
-----------------------------------------------------------------------------
TypeOK == TxTypeOK /\ RxTypeOK /\ BusTypeOK

(***************************************************************************)
(* Stopped network queues are woken again, unless the frames that the      *)
(* driver still holds in its own queues keep the URBs busy, a submission   *)
(* fails or the adapter goes.                                              *)
(***************************************************************************)
QueuesWake ==
    (tbusy /\ sendPc = "idle") ~> (~tbusy \/ sendPc # "idle" \/ txFailed \/ ~Attached)

(***************************************************************************)
(* Once the adapter is gone its removal comes to an end: both threads see  *)
(* that they are to stop, whatever they were doing.                        *)
(***************************************************************************)
RemovalEnds == removal = "gone" ~> removal = "done"
=============================================================================
