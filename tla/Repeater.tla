------------------------------ MODULE Repeater ------------------------------
(***************************************************************************)
(* A valid frame at the repeater: lora_rx.cpp drops what the duplicate     *)
(* cache (Dedup) knows, and lora_repeater.cpp decides what is forwarded    *)
(* and holds that to a rate.  What it lets through goes to txEnqueue() of  *)
(* TxQueue, which may still refuse it: the frame has then used up its      *)
(* place under the limit and in the cache all the same.                    *)
(***************************************************************************)
EXTENDS Dedup

CONSTANTS
    Own,            \* keys of the repeater's own frames, heard as an echo
    Local,          \* keys of frames addressed to the repeater
    FWD_MAX_PER_MIN,
    MINUTE          \* 60000 ms

ASSUME RepeaterAssumption ==
    /\ Own \subseteq Keys
    /\ Local \subseteq Keys
    /\ FWD_MAX_PER_MIN \in Nat \ {0}
    /\ MINUTE \in Nat \ {0}
    /\ MaxElapsed + MINUTE <= CLOCK

VARIABLES
    fwdWindowStart, fwdWindowCount,
    passed      \* for each age below a minute, the frames let through then

rateVars == <<fwdWindowStart, fwdWindowCount, passed>>
repeaterVars == <<vars, rateVars>>

Ages == 0 .. MINUTE - 1

RepeaterInit ==
    /\ Init
    /\ fwdWindowStart = 0
    /\ fwdWindowCount = 0
    /\ passed = [a \in Ages |-> 0]

----------------------------------------------------------------------------
\* Mutant of WindowOver: comparing with the end breaks when that wraps.
WindowOverUnwrapped == now >= fwdWindowStart + MINUTE

WindowOver == (now - fwdWindowStart) % CLOCK >= MINUTE

\* Mutant of BelowLimit: one frame more than the limit.
BelowLimitOffByOne == fwdWindowCount <= FWD_MAX_PER_MIN

BelowLimit == fwdWindowCount < FWD_MAX_PER_MIN

\* Its own echo and frames addressed to it (commands get a NAK) stay here.
HandleLocal(k) ==
    /\ k \in Own \cup Local
    /\ Accept(k)
    /\ UNCHANGED rateVars

\* fwdRateAllow() allows the frame.
Forward(k) ==
    /\ k \notin Own \cup Local
    /\ WindowOver \/ BelowLimit
    /\ Accept(k)
    /\ fwdWindowStart' = IF WindowOver THEN now ELSE fwdWindowStart
    /\ fwdWindowCount' = IF WindowOver THEN 1 ELSE fwdWindowCount + 1
    /\ passed' = [passed EXCEPT ![0] = @ + 1]

\* fwdRateAllow() refuses it: no copy of it is forwarded for a TTL either.
Refuse(k) ==
    /\ k \notin Own \cup Local
    /\ ~WindowOver /\ ~BelowLimit
    /\ Accept(k)
    /\ UNCHANGED rateVars

DropDuplicate(k) == Duplicate(k) /\ UNCHANGED rateVars

Wait(d) ==
    /\ Elapse(d)
    /\ passed' = [a \in Ages |-> IF a < d THEN 0 ELSE passed[a - d]]
    /\ UNCHANGED <<fwdWindowStart, fwdWindowCount>>

RepeaterNext ==
    \/ \E k \in Keys :
           HandleLocal(k) \/ Forward(k) \/ Refuse(k) \/ DropDuplicate(k)
    \/ \E d \in 1 .. MaxElapsed : Wait(d)

RepeaterSpec == RepeaterInit /\ [][RepeaterNext]_repeaterVars

----------------------------------------------------------------------------
(* Properties                                                              *)

\* Each frame let through within the last minute, under its age and its number
\* among those of that age.
Recent == UNION {{a} \X (1 .. passed[a]) : a \in Ages}

InLastMinute == Cardinality(Recent)

\* The storm protection of lora_repeater.cpp in numbers: its windows are
\* fixed, so any sixty seconds see up to twice FWD_MAX_PER_MIN forwards, on
\* either side of the turn of millis(), and never more.
RateBounded == InLastMinute <= 2 * FWD_MAX_PER_MIN

\* No frame is refused for the rate unless that many were let through within
\* the last minute: a repeater that has been quiet forwards.
RefusedOnlyWhenBusy ==
    [][(\E k \in Keys : Refuse(k)) => InLastMinute >= FWD_MAX_PER_MIN]_repeaterVars
=============================================================================
