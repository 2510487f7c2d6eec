---------------------------- MODULE UsbData_proofs ----------------------------
(***************************************************************************)
(* Proofs about UsbData with both halves at work at once, for every number *)
(* of URBs, every pair of water marks, every queue length and any number   *)
(* of failures.                                                            *)
(***************************************************************************)
EXTENDS UsbData, TLAPS

\* The bus goes down in the step that ends "gone".
BusInv == BusTypeOK /\ (up <=> removal \in {"none", "gone"})

TxInv == BusInv /\ TxTypeOK /\ PostedIsSeen /\ StoppedForAReason

\* Why reception goes on: at most one URB more than there were failures is
\* free, and only while the handler submits.
FreeForAReason == Attached => rxFree <= parked + Held(irqPc = "submit")

\* Why the handler finds the count at one: it counts the frames of the queue
\* and the one in hand, and lags by the frame it has just queued.
Counted ==
    up /\ leaked = 0 =>
        rxCnt = rxq + Held(procPc = "handle") - Held(irqPc = "count")

\* A thread that waits without a wakeup has left an empty queue, and the one
\* frame queued since then is the handler's own.
QuietIsEmpty ==
    up /\ leaked = 0 /\ procPc = "wait" /\ rxTrgg = 0 =>
        rxq = 0 \/ (rxq = 1 /\ irqPc \in {"count", "trigger"})

RxInv ==
    /\ BusInv /\ RxTypeOK /\ ReceptionGoesOn
    /\ FreeForAReason /\ Counted /\ QuietIsEmpty
    /\ procPc = "exit" => ~up

-----------------------------------------------------------------------------
LEMMA InitInv == Init => TxInv /\ RxInv
<1> SUFFICES ASSUME Init PROVE TxInv /\ RxInv
  OBVIOUS
<1>1. BusInv
  BY DEF Init, BusInit, BusInv, BusTypeOK, Removal
<1>2. TxInv
  <2>1. txTrgg \in 0..MaxTrgg
    BY BusAssumption DEF Init, TxInit
  <2>2. txFree + txPost + txAir + Held(sendPc = "fill") + Held(threadPc = "submit") = TxUrbs
    BY TxAssumption DEF Init, TxInit, Held
  <2>3. TxTypeOK
    BY <2>1, <2>2, TxAssumption DEF Init, TxInit, TxTypeOK, SendPCs, ThreadPCs, GivePCs
  <2>4. QED
    BY <1>1, <2>3 DEF Init, TxInit, TxInv, PostedIsSeen, StoppedForAReason
<1>3. RxInv
  BY <1>1, BusAssumption, RxAssumption
  DEF Init, RxInit, RxInv, RxTypeOK, ReceptionGoesOn, FreeForAReason, Counted, QuietIsEmpty,
      Held, HandlerHolds, Attached, IrqPCs, ProcPCs
<1>4. QED
  BY <1>2, <1>3

\* A completion object holds MaxTrgg wakeups at most.
LEMMA CompleteType ==
    ASSUME NEW t \in 0..MaxTrgg
    PROVE  Complete(t) \in 1..MaxTrgg
BY BusAssumption DEF Complete

-----------------------------------------------------------------------------
(* The transmit half. *)

LEMMA SendStep ==
    ASSUME TxInv, FrameTx \/ SenderGoesOn
    PROVE  TxInv'
<1> USE BusAssumption, TxAssumption
    DEF TxInv, BusInv, BusTypeOK, TxTypeOK, PostedIsSeen, StoppedForAReason, Held, busVars,
        SendPCs, ThreadPCs, GivePCs
<1>1. CASE FrameTx
  BY <1>1 DEF FrameTx
<1>2. CASE Post
  BY <1>2 DEF Post
<1>3. CASE Trigger
  BY <1>3, CompleteType DEF Trigger
<1>4. CASE FlowStop
  BY <1>4 DEF FlowStop
<1>5. QED
  BY <1>1, <1>2, <1>3, <1>4 DEF SenderGoesOn

LEMMA TxThreadStep ==
    ASSUME TxInv, TxThread
    PROVE  TxInv'
<1> USE BusAssumption, TxAssumption
    DEF TxInv, BusInv, BusTypeOK, TxTypeOK, PostedIsSeen, StoppedForAReason, Held, busVars,
        SendPCs, ThreadPCs, GivePCs
<1>1. CASE TxWake
  <2>1. txTrgg' \in 0..MaxTrgg
    BY <1>1 DEF TxWake, TxTold, Consume
  <2>2. QED
    BY <1>1, <2>1 DEF TxWake, TxTold
<1>2. CASE TxProcess
  BY <1>2 DEF TxProcess
<1>3. CASE TxSubmitOk
  BY <1>3 DEF TxSubmitOk
<1>4. CASE TxSubmitFails
  BY <1>4 DEF TxSubmitFails
<1>5. QED
  BY <1>1, <1>2, <1>3, <1>4 DEF TxThread

LEMMA TxGiveBackStep ==
    ASSUME TxInv, TxGiveBack
    PROVE  TxInv'
<1> USE BusAssumption, TxAssumption
    DEF TxInv, BusInv, BusTypeOK, TxTypeOK, PostedIsSeen, StoppedForAReason, Held, busVars,
        SendPCs, ThreadPCs, GivePCs
<1>1. CASE TxComplete
  BY <1>1 DEF TxComplete
<1>2. CASE FlowWake
  BY <1>2 DEF FlowWake
<1>3. QED
  BY <1>1, <1>2 DEF TxGiveBack

\* What the receive half does leaves the transmit half and the bus alone.
LEMMA TxRests ==
    ASSUME TxInv, UNCHANGED <<txVars, busVars>>
    PROVE  TxInv'
BY DEF TxInv, BusInv, BusTypeOK, TxTypeOK, PostedIsSeen, StoppedForAReason, Held,
       txVars, busVars

-----------------------------------------------------------------------------
(* The receive half. *)

LEMMA RxIrqStep ==
    ASSUME RxInv, RxParked \/ RxIrq
    PROVE  RxInv'
<1> USE RxAssumption
    DEF RxInv, BusInv, BusTypeOK, RxTypeOK, ReceptionGoesOn, FreeForAReason, Counted,
        QuietIsEmpty, Held, HandlerHolds, Attached, busVars, IrqPCs, ProcPCs
<1>1. CASE RxParked
  BY <1>1 DEF RxParked
<1>2. CASE RxTooLate
  BY <1>2 DEF RxTooLate
<1>3. CASE RxEmpty
  BY <1>3 DEF RxEmpty
<1>4. CASE RxFrame
  BY <1>4 DEF RxFrame
<1>5. QED
  BY <1>1, <1>2, <1>3, <1>4 DEF RxIrq

LEMMA RxHandlerStep ==
    ASSUME RxInv, RxIrqGoesOn
    PROVE  RxInv'
<1> USE RxAssumption
    DEF RxInv, BusInv, BusTypeOK, RxTypeOK, ReceptionGoesOn, FreeForAReason, Counted,
        QuietIsEmpty, Held, HandlerHolds, Attached, busVars, IrqPCs, ProcPCs
<1>1. CASE RxEnqueue
  BY <1>1 DEF RxEnqueue
<1>2. CASE RxCount
  BY <1>2 DEF RxCount
<1>3. CASE RxTrigger
  <2>1. rxTrgg' \in 0..MaxTrgg /\ (rxCnt = 1 => rxTrgg' # 0) /\ (rxTrgg' = 0 => rxTrgg = 0)
    BY <1>3, CompleteType, BusAssumption DEF RxTrigger
  <2>2. QED
    BY <1>3, <2>1 DEF RxTrigger
<1>4. CASE RxSubmitOk
  BY <1>4 DEF RxSubmitOk
<1>5. CASE RxSubmitFails
  BY <1>5 DEF RxSubmitFails
<1>6. CASE RxSubmitEnds
  BY <1>6 DEF RxSubmitEnds
<1>7. QED
  BY <1>1, <1>2, <1>3, <1>4, <1>5, <1>6 DEF RxIrqGoesOn

LEMMA RxThreadStep ==
    ASSUME RxInv, RxThread
    PROVE  RxInv'
<1> USE RxAssumption
    DEF RxInv, BusInv, BusTypeOK, RxTypeOK, ReceptionGoesOn, FreeForAReason, Counted,
        QuietIsEmpty, Held, HandlerHolds, Attached, busVars, IrqPCs, ProcPCs
<1>1. CASE RxWake
  <2>1. rxTrgg' \in 0..MaxTrgg
    BY <1>1, BusAssumption DEF RxWake, RxTold, Consume
  <2>2. QED
    BY <1>1, <2>1 DEF RxWake
<1>2. CASE RxProcess
  BY <1>2 DEF RxProcess
<1>3. CASE RxHandled
  BY <1>3 DEF RxHandled
<1>4. CASE RxGivesUp
  BY <1>4 DEF RxGivesUp
<1>5. QED
  BY <1>1, <1>2, <1>3, <1>4 DEF RxThread

LEMMA RxRests ==
    ASSUME RxInv, UNCHANGED <<rxVars, busVars>>
    PROVE  RxInv'
BY DEF RxInv, BusInv, BusTypeOK, RxTypeOK, ReceptionGoesOn, FreeForAReason, Counted,
       QuietIsEmpty, Held, HandlerHolds, Attached, rxVars, busVars

-----------------------------------------------------------------------------
(* The removal. *)

LEMMA RemoveStep ==
    ASSUME TxInv, RxInv, Unplug \/ Remove
    PROVE  TxInv' /\ RxInv'
<1> USE TxAssumption, RxAssumption
    DEF TxInv, RxInv, BusInv, BusTypeOK, TxTypeOK, RxTypeOK, PostedIsSeen, StoppedForAReason,
        ReceptionGoesOn, FreeForAReason, Counted, QuietIsEmpty, Held, HandlerHolds, Attached,
        txVars, rxVars, Removal
<1>1. CASE Unplug
  BY <1>1 DEF Unplug
<1>2. CASE BusStop
  BY <1>2 DEF BusStop
<1>3. CASE StopTxThread
  BY <1>3 DEF StopTxThread
<1>4. CASE StopRxThread
  BY <1>4 DEF StopRxThread
<1>5. CASE FreeQueues
  BY <1>5 DEF FreeQueues
<1>6. QED
  BY <1>1, <1>2, <1>3, <1>4, <1>5 DEF Remove

LEMMA NextInv ==
    TxInv /\ RxInv /\ [Next]_vars => (TxInv /\ RxInv)'
<1> SUFFICES ASSUME TxInv, RxInv, [Next]_vars
             PROVE  TxInv' /\ RxInv'
  OBVIOUS
<1>1. CASE TxNext /\ UNCHANGED rxVars
  <2>1. TxInv'
    BY <1>1, SendStep, TxThreadStep, TxGiveBackStep DEF TxNext
  <2>2. UNCHANGED busVars
    BY <1>1 DEF TxNext, SenderGoesOn, TxThread, TxGiveBack, FrameTx, Post, Trigger, FlowStop,
                TxWake, TxProcess, TxSubmitOk, TxSubmitFails, TxComplete, FlowWake
  <2>3. QED
    BY <1>1, <2>1, <2>2, RxRests
<1>2. CASE RxNext /\ UNCHANGED txVars
  <2>1. RxInv'
    BY <1>2, RxIrqStep, RxHandlerStep, RxThreadStep DEF RxNext
  <2>2. UNCHANGED busVars
    BY <1>2 DEF RxNext, RxIrq, RxIrqGoesOn, RxThread, RxParked, RxTooLate, RxEmpty, RxFrame,
                RxEnqueue, RxCount, RxTrigger, RxSubmitOk, RxSubmitFails, RxSubmitEnds,
                RxWake, RxProcess, RxHandled, RxGivesUp
  <2>3. QED
    BY <1>2, <2>1, <2>2, TxRests
<1>3. CASE Unplug \/ Remove
  BY <1>3, RemoveStep
<1>4. CASE UNCHANGED vars
  BY <1>4, TxRests, RxRests DEF vars
<1>5. QED
  BY <1>1, <1>2, <1>3, <1>4 DEF Next

LEMMA Invariance == Spec => [](TxInv /\ RxInv)
<1>1. QED
  BY InitInv, NextInv, PTL DEF Spec

-----------------------------------------------------------------------------
(***************************************************************************)
(* The state of both halves and of the bus is well typed, and no URB of    *)
(* the transmit path is lost or in two places until the lists are freed.   *)
(***************************************************************************)
THEOREM TypeCorrect == Spec => []TypeOK
<1>1. TxInv /\ RxInv => TypeOK
  BY DEF TxInv, RxInv, BusInv, TypeOK
<1>2. QED
  BY <1>1, Invariance, PTL

(***************************************************************************)
(* What is posted while the bus is up is seen by the transmit thread.      *)
(***************************************************************************)
THEOREM PostedSeen == Spec => []PostedIsSeen
<1>1. TxInv => PostedIsSeen
  BY DEF TxInv
<1>2. QED
  BY <1>1, Invariance, PTL

(***************************************************************************)
(* Network queues are stopped only for want of URBs, unless a submission   *)
(* has failed.                                                             *)
(***************************************************************************)
THEOREM StoppedRightly == Spec => []StoppedForAReason
<1>1. TxInv => StoppedForAReason
  BY DEF TxInv
<1>2. QED
  BY <1>1, Invariance, PTL

(***************************************************************************)
(* No receive URB is lost, and no more of them rest than there were        *)
(* failures.                                                               *)
(***************************************************************************)
THEOREM ReceptionCorrect == Spec => []ReceptionGoesOn
<1>1. RxInv => ReceptionGoesOn
  BY DEF RxInv
<1>2. QED
  BY <1>1, Invariance, PTL

(***************************************************************************)
(* A queued frame is seen by the receive thread, as long as no frame was   *)
(* given up for lack of memory.                                            *)
(***************************************************************************)
THEOREM ReceivedSeen == Spec => []ReceivedIsSeen
<1>1. RxInv => ReceivedIsSeen
  BY BusAssumption
  DEF RxInv, RxTypeOK, QuietIsEmpty, ReceivedIsSeen, ProcPCs
<1>2. QED
  BY <1>1, Invariance, PTL
=============================================================================
