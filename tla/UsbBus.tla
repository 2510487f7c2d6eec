------------------------------- MODULE UsbBus -------------------------------
(***************************************************************************)
(* What the transmit and the receive half of the AIC8800 driver's USB data *)
(* path share: the state of the bus, and how far its removal has come.     *)
(***************************************************************************)
EXTENDS Integers

\* Bound: completions counted by a completion object beyond which one more
\* makes no difference (a thread that wakes for nothing looks and waits again).
CONSTANT MaxTrgg

ASSUME BusAssumption == MaxTrgg \in Nat \ {0}

VARIABLES
    up,        \* usb_dev->state = USB_UP_ST, and with it bus_if->state
    removal    \* how far the removal of the adapter has come

busVars == <<up, removal>>

\* gone: the USB core returns every URB with an error and takes no new one,
\* before it calls the driver.  The others are steps of aicwf_bus_deinit.
Removal == {"none", "gone", "stopped", "txstop", "rxstop", "done"}
Attached == removal = "none"

\* complete_all has been called for the transmit, or the receive, thread.
TxTold == removal \in {"txstop", "rxstop", "done"}
RxTold == removal \in {"rxstop", "done"}

Complete(trgg) == IF trgg < MaxTrgg THEN trgg + 1 ELSE MaxTrgg
Consume(trgg, told) == IF told THEN trgg ELSE trgg - 1

BusInit == up = TRUE /\ removal = "none"
BusTypeOK == up \in BOOLEAN /\ removal \in Removal
=============================================================================
