------------------------------ MODULE MCUsbData ------------------------------
(***************************************************************************)
(* UsbData for TLC.  The halves share the bus state only, so a behaviour   *)
(* exercises one of them, chosen at the start.  The other one rests: it    *)
(* gives its URBs back and stops when the adapter goes, and nothing else.  *)
(***************************************************************************)
EXTENDS UsbData

VARIABLE half

MCInit == Init /\ half \in {"tx", "rx"}

MCNext ==
    /\ \/ half = "tx" /\ TxNext /\ UNCHANGED rxVars
       \/ half = "tx" /\ (RxTooLate \/ RxWake) /\ UNCHANGED txVars
       \/ half = "rx" /\ RxNext /\ UNCHANGED txVars
       \/ half = "rx" /\ TxWake /\ UNCHANGED rxVars
       \/ Unplug
       \/ Remove
    /\ UNCHANGED half

MCSpec == MCInit /\ [][MCNext]_<<vars, half>> /\ Fairness
=============================================================================
