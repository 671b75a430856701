------------------------------ MODULE PTPTimer ------------------------------
(***************************************************************************)
(* The retransmission timer of one PTP slot, with the times PTPClient and  *)
(* PTPServer leave out: timeout_msec, tick_count and retry_count from the  *)
(* moment the slot sends its first packet until it gives up, when the      *)
(* other end stays silent.  The client's slot starts with timeout_msec =   *)
(* MinTimeout, the server's with 0; the rest of the two tick() functions   *)
(* is the same.                                                            *)
(***************************************************************************)
EXTENDS Integers

CONSTANTS MinTimeout, MaxTimeout, DeltaTimeout,  \* in msec
          FirstTimeout,                          \* timeout_msec in start()
          InboundTicksPerSec, MaxRetries

VARIABLES timeout,  \* timeout_msec
          ticks,    \* tick_count
          retry,    \* retry_count
          silence,  \* calls of tick() since the last packet the slot sent
          over      \* the slot has given up

vars == <<timeout, ticks, retry, silence, over>>

\* Slot::setTick
SetTick(was) ==
  /\ ticks' = (was * InboundTicksPerSec) \div 1000
  /\ timeout' = IF was < MaxTimeout THEN was + DeltaTimeout ELSE was

Init == /\ timeout = FirstTimeout + (IF FirstTimeout < MaxTimeout THEN DeltaTimeout ELSE 0)
        /\ ticks = (FirstTimeout * InboundTicksPerSec) \div 1000
        /\ retry = MaxRetries
        /\ silence = 0 /\ over = FALSE

\* Slot::tick while tick_count runs
TickWait == /\ ~over /\ ticks > 0
            /\ ticks' = ticks - 1
            /\ silence' = silence + 1
            /\ UNCHANGED <<timeout, retry, over>>

\* Slot::tick with retries left : RECALL or SENDRET, RERET
TickSend == /\ ~over /\ ticks = 0 /\ retry > 0
            /\ retry' = retry - 1
            /\ SetTick(timeout)
            /\ silence' = 0
            /\ UNCHANGED over

\* Slot::tick with none left
TickGiveUp == /\ ~over /\ ticks = 0 /\ retry = 0
              /\ over' = TRUE
              /\ UNCHANGED <<timeout, ticks, retry, silence>>

Next == TickWait \/ TickSend \/ TickGiveUp

Spec == Init /\ [][Next]_vars

-----------------------------------------------------------------------------
\* A slot does not repeat itself before MinTimeout has passed (of the tick
\* that sends only the beginning counts).
SendsApart == [][retry' # retry => silence * 1000 >= MinTimeout * InboundTicksPerSec]_vars
=============================================================================
