------------------------------- MODULE Reorder -------------------------------
(***************************************************************************)
(* The receive reordering of the AIC8800 driver, for one traffic id of one *)
(* station: frames of a block-ack session arrive out of order within the   *)
(* sender's window, are held in a list sorted by sequence number, and      *)
(* leave it in order, or when a timer gives up the missing ones.           *)
(*                                                                         *)
(* A frame is its position in the sender's stream, so that the properties  *)
(* can tell frames with equal sequence numbers apart; the code sees its    *)
(* sequence number only.                                                   *)
(***************************************************************************)
EXTENDS Integers, Sequences, SequencesExt

CONSTANTS
    SnMod,    \* sequence numbers, 4096 in the code
    WSize,    \* AICWF_REORDER_WINSIZE, also the sender's window
    MaxLost,   \* bound: frames in a row of which none comes
    StreamLen  \* bound: frames of the stream

ASSUME ReorderAssumption ==
    /\ SnMod \in Nat /\ WSize \in Nat /\ StreamLen \in Nat
    /\ MaxLost \in Nat
    /\ 1 < WSize /\ SnMod % 2 = 0 /\ MaxLost + 2 * WSize <= SnMod \div 2

Frames == 0..(StreamLen - 1)
None == -1

VARIABLES
    enable,    \* preorder_ctrl->enable
    indSn,     \* ind_sn, None for 0xffff
    list,      \* reord_list
    timer,     \* reord_timer is pending
    firing,    \* reord_timeout_handler runs
    work,      \* reord_timer_work is queued
    flushPc,   \* where the receive thread stands in reord_flush_tid
    up,        \* the bus is up
    base,      \* the sender's window begins here
    top,       \* history: last frame that left the list since the last flush
    newest,    \* history: newest frame that came since the last flush
    out        \* history: how the last step delivered what

vars == <<enable, indSn, list, timer, firing, work, flushPc, up, base, top, newest, out>>

Nothing == [how |-> "none", what |-> <<>>]
Delivered(how, s) == IF s = <<>> THEN Nothing ELSE [how |-> how, what |-> s]

Sn(n) == n % SnMod

\* Mutant: numbers are compared without regard to their wrapping.
SnLessPlain(a, b) == a < b

\* SN_LESS: the top bit of the difference.
SnLess(a, b) == (a - b) % SnMod >= SnMod \div 2
-----------------------------------------------------------------------------
\* reord_need_check, for the number sn: the frame is older than what is
\* expected, and what is expected afterwards.
Expected(sn) == IF indSn = None THEN sn ELSE indSn
Late(sn) == SnLess(sn, Expected(sn))
WindowEnd == (indSn + WSize - 1) % SnMod

\* Mutant: the window slides one frame too far.
SlideToTooFar(sn) == (sn - WSize + 2) % SnMod

SlideTo(sn) ==
    IF sn >= WSize - 1 THEN sn - (WSize - 1)
                       ELSE (SnMod - 1) - (WSize - (sn + 1)) + 1

Checked(sn) ==
    CASE sn = Expected(sn) -> (sn + 1) % SnMod
      [] sn # Expected(sn) /\ SnLess(WindowEnd, sn) -> SlideTo(sn)
      [] OTHER -> Expected(sn)

Has(l, sn) == \E i \in DOMAIN l : Sn(l[i]) = sn

\* reord_rxframe_enqueue: before the first frame that is not older.
Held(sn) == Has(list, sn)
Place(sn) ==
    CHOOSE i \in 1..(Len(list) + 1) :
        /\ \A j \in 1..(i - 1) : SnLess(Sn(list[j]), sn)
        /\ i \in DOMAIN list => ~SnLess(Sn(list[i]), sn)
Enqueued(n) == InsertAt(list, Place(Sn(n)), n)

\* reord_rxframes_process: the list is in order and holds no number twice, so
\* its loop ends at the first number from the expected one on that is missing.
Following(l, ind) ==
    CHOOSE k \in 0..WSize :
        /\ \A j \in 0..(k - 1) : Has(l, (ind + j) % SnMod)
        /\ ~Has(l, (ind + k) % SnMod)

\* Mutant: the expected number does not wrap.
AdvancedUnwrapped(l, ind) == ind + Following(l, ind)

Advanced(l, ind) == (ind + Following(l, ind)) % SnMod
Gap(l, ind) == \E i \in DOMAIN l : SnLess(ind, Sn(l[i]))

\* reord_rxframes_ind: the frames before the first one that is ahead of the
\* expected number go up.
FirstAhead(l, ind) ==
    CHOOSE i \in 1..(Len(l) + 1) :
        /\ \A j \in 1..(i - 1) : ~SnLess(ind, Sn(l[j]))
        /\ i \in DOMAIN l => SnLess(ind, Sn(l[i]))
Waiting(l, ind) == SubSeq(l, FirstAhead(l, ind), Len(l))

Release(l, ind) ==
    /\ indSn' = Advanced(l, ind)
    /\ list' = Waiting(l, indSn')
    /\ LET ready == SubSeq(l, 1, Len(l) - Len(list'))
       IN  /\ out' = Delivered("list", ready)
           /\ top' = IF ready = <<>> THEN top ELSE ready[Len(ready)]
-----------------------------------------------------------------------------
(***************************************************************************)
(* The sender: a frame of its window comes, for the first time or again,   *)
(* or the sender's window moves on past a frame that has come or is given  *)
(* up.  A frame is overtaken by WSize - 1 others at most.                  *)
(***************************************************************************)
InWindow(n) == base <= n /\ n < base + WSize

WindowMoves ==
    /\ base < StreamLen
    /\ newest # None => base <= newest + MaxLost
    /\ base' = base + 1
    /\ out' = Nothing
    /\ UNCHANGED <<enable, indSn, list, timer, firing, work, flushPc, up, top, newest>>

(***************************************************************************)
(* reord_process_unit, under the list's lock.                              *)
(***************************************************************************)
\* A list that was flushed is enabled again and expects any number.
Ind(n) == IF enable THEN Checked(Sn(n)) ELSE (Sn(n) + 1) % SnMod

\* Older than expected: an RTP packet is dropped, another frame goes up past
\* the list.
LateFrame(n) ==
    /\ flushPc = "idle"
    /\ InWindow(n)
    /\ enable /\ Late(Sn(n))
    /\ \/ out' = [how |-> "late", what |-> <<n>>]
       \/ out' = Nothing
    /\ newest' = IF n > newest THEN n ELSE newest
    /\ UNCHANGED <<enable, indSn, list, timer, firing, work, flushPc, up, base, top>>

\* The number is in the list already; what is expected changes all the same.
DuplicateFrame(n) ==
    /\ flushPc = "idle"
    /\ InWindow(n)
    /\ enable /\ ~Late(Sn(n)) /\ Held(Sn(n))
    /\ indSn' = Checked(Sn(n))
    /\ out' = Nothing
    /\ UNCHANGED <<enable, list, timer, firing, work, flushPc, up, base, top, newest>>

HoldFrame(n) ==
    /\ flushPc = "idle"
    /\ InWindow(n)
    /\ enable => ~Late(Sn(n)) /\ ~Held(Sn(n))
    /\ enable' = TRUE
    /\ Release(Enqueued(n), Ind(n))
    /\ timer' = Gap(list', indSn')
    /\ newest' = IF n > newest THEN n ELSE newest
    /\ UNCHANGED <<firing, work, flushPc, up, base>>
-----------------------------------------------------------------------------
(***************************************************************************)
(* The timer fires, its handler queues the work, and the work gives up the *)
(* frames before the first one that is held.                               *)
(***************************************************************************)
TimerFires ==
    /\ timer /\ ~firing
    /\ timer' = FALSE /\ firing' = TRUE
    /\ out' = Nothing
    /\ UNCHANGED <<enable, indSn, list, work, flushPc, up, base, top, newest>>

TimeoutHandler ==
    /\ firing
    /\ firing' = FALSE
    /\ work' = (work \/ up)
    /\ out' = Nothing
    /\ UNCHANGED <<enable, indSn, list, timer, flushPc, up, base, top, newest>>

\* Mutant: the work does not start the timer again for a second gap.
TimeoutWorkerOnce ==
    /\ work
    /\ work' = FALSE
    /\ \/ /\ list # <<>>
          /\ Release(list, Sn(list[1]))
       \/ /\ list = <<>>
          /\ out' = Nothing
          /\ UNCHANGED <<indSn, list, top>>
    /\ UNCHANGED <<timer, enable, firing, flushPc, up, base, newest>>

TimeoutWorker ==
    /\ work
    /\ work' = FALSE
    /\ \/ /\ list # <<>>
          /\ Release(list, Sn(list[1]))
          /\ timer' = (timer \/ Gap(list', indSn'))
       \/ /\ list = <<>>
          /\ out' = Nothing
          /\ UNCHANGED <<indSn, list, timer, top>>
    /\ UNCHANGED <<enable, firing, flushPc, up, base, newest>>

(***************************************************************************)
(* reord_flush_tid, for a frame outside the session: everything held goes  *)
(* up, then timer and work are cancelled.  A handler that already runs is  *)
(* not waited for, since its timer is no longer pending.                   *)
(***************************************************************************)
FlushList ==
    /\ flushPc = "idle"
    /\ enable
    /\ enable' = FALSE
    /\ list' = <<>>
    /\ out' = Delivered("flush", list)
    /\ top' = None /\ newest' = None
    /\ flushPc' = "timer"
    /\ UNCHANGED <<indSn, timer, firing, work, up, base>>

FlushTimer ==
    /\ flushPc = "timer"
    /\ ~(timer /\ firing)
    /\ timer' = FALSE
    /\ flushPc' = "work"
    /\ out' = Nothing
    /\ UNCHANGED <<enable, indSn, list, firing, work, up, base, top, newest>>

FlushWork ==
    /\ flushPc = "work"
    /\ work' = FALSE
    /\ flushPc' = "idle"
    /\ out' = Nothing
    /\ UNCHANGED <<enable, indSn, list, timer, firing, up, base, top, newest>>

BusDown ==
    /\ up
    /\ up' = FALSE
    /\ out' = Nothing
    /\ UNCHANGED <<enable, indSn, list, timer, firing, work, flushPc, base, top, newest>>
-----------------------------------------------------------------------------
Init ==
    /\ enable = TRUE /\ indSn = None /\ list = <<>>
    /\ timer = FALSE /\ firing = FALSE /\ work = FALSE
    /\ flushPc = "idle"
    /\ up = TRUE
    /\ base = 0
    /\ top = None /\ newest = None
    /\ out = Nothing

Next ==
    \/ WindowMoves
    \/ \E n \in Frames : LateFrame(n) \/ DuplicateFrame(n) \/ HoldFrame(n)
    \/ TimerFires \/ TimeoutHandler \/ TimeoutWorker
    \/ FlushList \/ FlushTimer \/ FlushWork
    \/ BusDown

\* The kernel runs timers, queued work and the receive thread; nothing is
\* assumed of the sender.
Fairness ==
    /\ WF_vars(TimerFires) /\ WF_vars(TimeoutHandler) /\ WF_vars(TimeoutWorker)
    /\ WF_vars(FlushTimer) /\ WF_vars(FlushWork)

Spec == Init /\ [][Next]_vars /\ Fairness
-----------------------------------------------------------------------------
TypeOK ==
    /\ enable \in BOOLEAN /\ timer \in BOOLEAN /\ firing \in BOOLEAN
    /\ work \in BOOLEAN /\ up \in BOOLEAN
    /\ indSn \in (0..(SnMod - 1)) \cup {None}
    /\ list \in Seq(Frames)
    /\ flushPc \in {"idle", "timer", "work"}
    /\ base \in 0..StreamLen
    /\ top \in Frames \cup {None} /\ newest \in Frames \cup {None}
    /\ out.how \in {"none", "list", "late", "flush"} /\ out.what \in Seq(Frames)

Increasing(s) == \A i \in 1..(Len(s) - 1) : s[i] < s[i + 1]

(***************************************************************************)
(* Between two flushes the frames leave the list in the order of the       *)
(* stream, also across the wrapping of the sequence numbers, whatever the  *)
(* timer gave up in between.                                               *)
(***************************************************************************)
OutInOrder ==
    [][out'.how = "list" => Increasing(<<top>> \o out'.what)]_vars

(***************************************************************************)
(* A frame that did not come is passed over when its timer runs out or     *)
(* when a frame a whole window newer has come, and never before: what an   *)
(* arriving frame releases follows its predecessor, or has fallen out of   *)
(* the window of the newest frame.                                         *)
(***************************************************************************)
NoneSkippedEarly ==
    [][(out'.how = "list" /\ work' = work /\ top # None) =>
         LET s == <<top>> \o out'.what
         IN  \A i \in 2..Len(s) : s[i] = s[i - 1] + 1 \/ s[i] <= newest' - WSize + 1]_vars

(***************************************************************************)
(* A frame goes past the list, or is dropped for being late, only when a   *)
(* newer one, or itself, has come before: no frame is taken for an old one *)
(* because its number has wrapped.                                         *)
(***************************************************************************)
LateIsOld == \A n \in Frames :
    (flushPc = "idle" /\ InWindow(n) /\ enable /\ newest # None /\ n > newest)
        => ~Late(Sn(n))

(***************************************************************************)
(* What is held is in the order of the stream, newer than what has left,   *)
(* and within one window of the newest frame, so the list stays short and  *)
(* its first frame is the oldest.                                          *)
(***************************************************************************)
HeldWithinWindow ==
    /\ Increasing(<<top>> \o list)
    /\ \A i \in DOMAIN list : newest - WSize < list[i] /\ list[i] <= newest

(***************************************************************************)
(* No frame is held for ever, as long as the bus is up.                    *)
(***************************************************************************)
Holds(n) == \E i \in DOMAIN list : list[i] = n
HeldComesOut == \A n \in Frames : Holds(n) ~> (~Holds(n) \/ ~up)
=============================================================================
