----------------------------- MODULE AntiReplay -----------------------------
(***************************************************************************)
(* PSec::AntiReplay at one end, and the other end's numbers.  A packet may *)
(* be lost, late and repeated, and the numbers wrap around; the window of  *)
(* bits is kept in units and moves with the newest packet taken.           *)
(***************************************************************************)
EXTENDS Integers, Sequences, SequencesExt

CONSTANTS UnitBits, WinUnits, ForeLen,
          NumMod,   \* the values of a SequenceNumber, 2^32 in the code
          MaxLate,  \* bound: a copy is not older than the last MaxLate packets sent
          MaxLead   \* bound: the packets sent since the newest one taken

WinLen == UnitBits * WinUnits

VARIABLES base, bits,
          out_sequence_number,  \* of the sender
          taken,                \* history: for the last packets sent, the newest at the end, whether it was taken
          lead                  \* history: the packets sent past the end of the window

vars == <<base, bits, out_sequence_number, taken, lead>>

Units == 0..(WinUnits - 1)

Init == /\ base = 0
        /\ bits = [u \in Units |-> {}]
        /\ out_sequence_number = 0
        /\ taken = << >>
        /\ lead = -WinLen

-----------------------------------------------------------------------------
\* A unit is the set of its bits that are one.
Test(b, num) == (num % UnitBits) \in b[num \div UnitBits]

Set(b, num) == [b EXCEPT ![num \div UnitBits] = @ \cup {num % UnitBits}]

\* Shift : the unit of the two that begins s bits up
Shift(hi, lo, s) ==
  {i - s : i \in {k \in lo : k >= s}} \cup {i + UnitBits - s : i \in {k \in hi : k < s}}

\* What could be wrong in the code, to show that the properties see it.
ShiftedTop(b, sh) ==      \* the unit that gets no upper half keeps it
  LET n == sh \div UnitBits
      s == sh % UnitBits IN
  IF sh >= WinLen THEN [u \in Units |-> {}]
  ELSE [u \in Units |->
         IF u + n >= WinUnits THEN {}
         ELSE Shift(IF u + n + 1 < WinUnits THEN b[u + n + 1] ELSE b[0], b[u + n], s)]

\* What the code does: BitFlags::shift, both of its loops
Shifted(b, sh) ==
  LET n == sh \div UnitBits
      s == sh % UnitBits
      At(u) == IF u < WinUnits THEN b[u] ELSE {} IN
  IF sh >= WinLen THEN [u \in Units |-> {}]
  ELSE [u \in Units |-> IF s = 0 THEN At(u + n) ELSE Shift(At(u + n + 1), At(u + n), s)]

Offset(num) == (num - base) % NumMod

testReplay(num) ==
  LET off == Offset(num) IN
  IF off < WinLen THEN Test(bits, off) ELSE off >= WinLen + ForeLen

-----------------------------------------------------------------------------
\* The last packets sent, and the number of each.
Sent == DOMAIN taken

Number(k) == (out_sequence_number - 1 - (Len(taken) - k)) % NumMod

\* Where a packet is: 0 is just past the end of the window.
Position(k) == lead - 1 - (Len(taken) - k)

\* PacketProcessor::outbound : the packet may be lost
Outbound ==
  /\ lead < MaxLead
  /\ out_sequence_number' = (out_sequence_number + 1) % NumMod
  /\ taken' = IF Len(taken) < MaxLate THEN Append(taken, FALSE) ELSE Append(Tail(taken), FALSE)
  /\ lead' = lead + 1
  /\ UNCHANGED <<base, bits>>

\* PacketProcessor::inbound : testReplay, and add when the hash comes out right
Inbound(k) ==
  LET off == Offset(Number(k))
      sh  == off - WinLen + 1 IN
  /\ ~testReplay(Number(k))
  /\ IF off < WinLen
     THEN bits' = Set(bits, off) /\ UNCHANGED base
     ELSE base' = (base + sh) % NumMod /\ bits' = Set(Shifted(bits, sh), WinLen - 1)
  /\ taken' = [taken EXCEPT ![k] = TRUE]
  /\ lead' = IF Position(k) < 0 THEN lead ELSE lead - Position(k) - 1
  /\ UNCHANGED out_sequence_number

Next == Outbound \/ \E k \in Sent : Inbound(k)

Spec == Init /\ [][Next]_vars

-----------------------------------------------------------------------------
\* A copy of a packet that may still come is refused exactly when the packet
\* was taken already, or is older than the window, or ForeLen or more past its
\* end: no packet is taken twice, and none is refused for a bit that the units'
\* shift left behind or for a number that has wrapped around.
WindowExact ==
  \A k \in Sent :
    testReplay(Number(k)) <=> \/ taken[k]
                              \/ Position(k) < -WinLen
                              \/ Position(k) >= ForeLen
=============================================================================
