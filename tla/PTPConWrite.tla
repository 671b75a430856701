---------------------------- MODULE PTPConWrite ----------------------------
(***************************************************************************)
(* class PTPConWrite : the console of a server prints the texts of its     *)
(* client in the order of their numbers.  A text that comes before its     *)
(* turn waits in a ring of frames, for write_ticks ticks; then those       *)
(* before it are given up.  Numbers wrap around; any may come, and again.  *)
(***************************************************************************)
EXTENDS Integers, Sequences, SequencesExt

CONSTANTS BufLen,      \* 128 in the code
          NumMod,      \* the values of a number, 2^32 in the code
          write_ticks,
          MaxLead,     \* bound: how far the number that comes is past next_number
          MaxLate      \* bound: and how far before it

VARIABLES is_opened,  \* of PTPConProc
          writer,   \* next_number, ind, buf and ok; and what the last step has printed
          last,     \* history: the number printed last
          skipped   \* history: a number was passed over

vars == <<is_opened, writer, last, skipped>>

\* A frame has the number of its text.
Empty == [ok |-> FALSE, write_ticks |-> 0, number |-> 0]
Full(number) == [ok |-> TRUE, write_ticks |-> write_ticks, number |-> number]

\* PTPConWrite, and open, which leaves the frames as close has left them
Opened(ok) == [next_number |-> 0, ind |-> 0, buf |-> [i \in 0..(BufLen - 1) |-> Empty], ok |-> ok, printed |-> << >>]

-----------------------------------------------------------------------------
\* The frame of the n-th number after next_number
Place(w, n) == (w.ind + n - 1) % BufLen
FrameOf(w, n) == w.buf[Place(w, n)]
Waits(w, n) == n \in 1..BufLen /\ FrameOf(w, n).ok

\* What could be wrong in the code, to show that the properties see it: here
\* and below, the operators between two such comments.
ReachNow(w, d) == d    \* the loop does not print what is ready behind

\* What the code does.
\* Where the loops of shift() stop that go d numbers on: not before a frame that
\* is empty, and once around the ring all are.
Reach(w, d) == Min({n \in d..(BufLen + 1) : ~Waits(w, n)})

\* print : of the next n frames those that are full, in their order
Ready(w, n) == {k \in 1..n : Waits(w, k)}
Nth(S, i) == CHOOSE k \in S : Cardinality({j \in S : j <= k}) = i

Printed(w, n) ==
  LET full == Ready(w, n) IN
  [w EXCEPT !.buf = [i \in DOMAIN @ |-> IF \E k \in 1..n : Place(w, k) = i THEN Empty ELSE @[i]],
            !.printed = @ \o [i \in 1..Cardinality(full) |-> FrameOf(w, Nth(full, i)).number]]

\* skip, as often as it takes to pass d numbers
Skip(w, d) == LET n == Reach(w, d) IN
  [Printed(w, n) EXCEPT !.next_number = (@ + n) % NumMod, !.ind = (@ + n) % BufLen]

set(w, n, number) == IF Waits(w, n) THEN [w EXCEPT !.ok = FALSE]
                     ELSE [w EXCEPT !.buf[Place(w, n)] = Full(number)]

write(w, n, number) == IF n = 0 THEN Skip([w EXCEPT !.printed = Append(@, number)], 1)
                       ELSE set(w, n, number)

Fault(w) == [w EXCEPT !.ok = FALSE]

\* What could be wrong in the code, to show that the properties see it.
WrittenLate(w, number) ==    \* a number that was passed is not told from one to come
  LET n == (number - w.next_number) % NumMod IN
  IF n >= 2 * BufLen
  THEN Fault(set([Printed(w, BufLen) EXCEPT !.next_number = (number - BufLen) % NumMod, !.ind = 0], BufLen, number))
  ELSE IF n > BufLen
  THEN LET s == Skip(w, n - BufLen) IN Fault(write(s, (number - s.next_number) % NumMod, number))
  ELSE write(w, n, number)

\* What the code does: operator()
Written(w, number) ==
  LET n == (number - w.next_number) % NumMod
      s == Skip(w, n - BufLen) IN
  CASE n >= NumMod \div 2 -> Fault(w)
    [] n < NumMod \div 2 /\ n >= 2 * BufLen ->
         Fault(set([Printed(w, BufLen) EXCEPT !.next_number = (number - BufLen) % NumMod, !.ind = 0], BufLen, number))
    [] n < 2 * BufLen /\ n > BufLen -> Fault(write(s, (number - s.next_number) % NumMod, number))
    [] n <= BufLen -> write(w, n, number)

Aged(f) == IF f.ok THEN [f EXCEPT !.write_ticks = @ - 1] ELSE f

\* tick : frames that have waited long enough go, with all before them; the
\* others wait on
Ticked(w) ==
  LET late == {n \in 1..BufLen : Waits(w, n) /\ FrameOf(w, n).write_ticks = 0}
      rest == IF late = {} THEN w ELSE Fault(Skip(w, Max(late)))
  IN [rest EXCEPT !.buf = [i \in DOMAIN @ |-> Aged(@[i])]]

-----------------------------------------------------------------------------
\* A step that makes w of the writer
Becomes(w) ==
  LET texts == <<last>> \o w.printed IN
  /\ writer' = w
  /\ last' = texts[Len(texts)]
  /\ skipped' = (skipped \/ \E i \in 2..Len(texts) : texts[i] # (texts[i - 1] + 1) % NumMod)

Quiet == [writer EXCEPT !.printed = << >>]

Init == is_opened = FALSE /\ writer = Opened(FALSE) /\ last = NumMod - 1 /\ skipped = FALSE

Open == /\ ~is_opened /\ is_opened' = TRUE
        /\ writer' = [Opened(TRUE) EXCEPT !.buf = writer.buf] /\ last' = NumMod - 1 /\ skipped' = FALSE

\* What could be wrong in the code, to show that the properties see it.
CloseForgets == /\ is_opened /\ is_opened' = FALSE    \* what waits is not printed
                /\ Becomes([Quiet EXCEPT !.buf = Opened(TRUE).buf])

\* What the code does.
Close == is_opened /\ is_opened' = FALSE /\ Becomes(Printed(Quiet, BufLen))

PutText(number) == is_opened /\ Becomes(Written(Quiet, number)) /\ UNCHANGED is_opened

Tick == is_opened /\ Becomes(Ticked(Quiet)) /\ UNCHANGED is_opened

\* The numbers that may come
Numbers == {(writer.next_number + n) % NumMod : n \in -MaxLate..MaxLead}

Next == Open \/ Close \/ Tick \/ \E number \in Numbers : PutText(number)

Spec == Init /\ [][Next]_vars

-----------------------------------------------------------------------------
\* As long as the client is told that all is well, all texts before the next
\* one are printed, in their order and each once.
OkMeansAll == is_opened /\ writer.ok => ~skipped /\ last = (writer.next_number - 1) % NumMod

\* Whatever comes late, again or far ahead, each frame has the number that its
\* place in the ring stands for ...
FramesMatch == \A n \in 1..BufLen : Waits(writer, n) => FrameOf(writer, n).number = (writer.next_number + n) % NumMod

\* ... and what was passed is not printed any more: the numbers that are printed
\* do not go back.  (When a number comes that is 2 * BufLen ahead the last one
\* printed may be next_number itself, and be printed once more if it is repeated.)
NeverBack ==
  [][\A i \in DOMAIN writer'.printed :
       (writer'.printed[i] - (IF i = 1 THEN last ELSE writer'.printed[i - 1])) % NumMod < NumMod \div 2]_vars
=============================================================================
