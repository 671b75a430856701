-------------------------- MODULE PTPClient_proofs --------------------------
(***************************************************************************)
(* PTPClient, for all sets of transactions, slots and answers and any      *)
(* number of retries: slots and transactions name each other, a packet is  *)
(* completed by one, and a result that was given back stays.  Then the     *)
(* console that runs on it, PTPCon, and its writer, PTPConWrite, for all   *)
(* sets of writes and tasks and any number of frames: no text is lost.     *)
(*                                                                         *)
(* Most handlers of the engine change the state and call pump() on what    *)
(* they have made, so its invariant is stated of any packets tr, slots cs, *)
(* list q and cancellers ab, and pump() is shown to keep it once and for   *)
(* all.  In the same way operator() and tick() of the writer are shown to  *)
(* keep any writer w with B frames: PTPConWrite is instantiated twice, by  *)
(* itself and in the server's console, and both instances are that one.    *)
(***************************************************************************)
EXTENDS MCPTPClient, TaskCount_proofs

Types(tr, cs, q) == tr \in [Trans -> TransExt] /\ cs \in [ClientSlot -> Slot] /\ q \in Seq(Trans)

Slots(tr, cs) ==
  /\ \A t \in Trans : tr[t].state = "Active" => cs[tr[t].slot].active /\ cs[tr[t].slot].trans = t
  /\ \A s \in ClientSlot : cs[s].active =>
       tr[cs[s].trans].state = "Active" /\ tr[cs[s].trans].slot = s

Queue(tr, q) ==
  /\ \A t \in Trans : tr[t].state = "Pending" <=> \E k \in DOMAIN q : q[k] = t
  /\ \A k, l \in DOMAIN q : q[k] = q[l] => k = l

\* Who completes the packet x, a saying whether its canceller is on its way
\* to abort(): as long as it is with the engine it has a cancel function, or
\* its canceller has taken it.
Owner(x, a) ==
  /\ a => x.cancel = "Cancelled"
  /\ x.state = "New" => ~a /\ x.cancel # "HasFunction" /\ x.completed = 0
  /\ x.state \in {"Pending", "Active"} => x.completed = 0 /\ (x.cancel = "HasFunction" \/ a)
  /\ x.state = "Completed" => /\ x.cancel # "HasFunction" /\ x.result # "Initial"
                              /\ x.completed = 1 <=> ~a

Owners(tr, ab) == \A t \in Trans : Owner(tr[t], t \in ab)

Good(tr, cs, q, ab) == Types(tr, cs, q) /\ Slots(tr, cs) /\ Queue(tr, q) /\ Owners(tr, ab)

IInv == Good(trans, cslot, pending, aborting) /\ TypeOK

Outbound == CallPacket \cup ControlPacket

\* What a step may make of the packet x of transaction t, given the answers
\* ans that came for it: it goes on, or it ends with an error or an answer; one
\* that is over keeps its result, and one that was started keeps its slot.
Move(x, y, t, ans) ==
  /\ x.completed = 1 => y.completed = 1
  /\ x.state \in {"Active", "Completed"} => y.slot = x.slot
  /\ \/ /\ y.state = x.state \/ (x.state \in {"New", "Pending"} /\ y.state \in {"Pending", "Active"})
        /\ y.result = x.result /\ y.ans = x.ans
     \/ /\ x.state # "Completed" /\ y.state = "Completed"
        /\ y.result \in Result \ {"Initial", "Ok"} /\ y.ans = x.ans
     \/ /\ x.state = "Active" /\ y.state = "Completed"
        /\ y.result = "Ok" /\ <<t, y.ans>> \in ans

Moved(tr, tr2, ans) == \A t \in Trans : Move(tr[t], tr2[t], t, ans)

\* What the packet m to the server says is so: its transaction was started in
\* the slot it names, and an ACK is for one that is over.
Says(m, tr) ==
  /\ tr[m.tid].state \in {"Active", "Completed"} /\ tr[m.tid].slot = m.cslot
  /\ m.type \in {"CALL", "RECALL"} => m.info = m.tid
  /\ m.type = "ACK" => tr[m.tid].state = "Completed"

AllSay(packets, tr) == \A m \in packets : Says(m, tr)

\* So is what the packet pk from the server says; and the answer it brings.
Told(pk) == trans[pk.tid].state \in {"Active", "Completed"} /\ trans[pk.tid].slot = pk.cslot

AnswerIn(pk) == IF pk.type = "RET" THEN {<<pk.tid, pk.ans>>} ELSE {}

-----------------------------------------------------------------------------
\* What a packet is made of, and how the engine completes one.
LEMMA PacketType ==
  ASSUME NEW t \in Trans, NEW s \in ClientSlot, NEW sslot \in ServerSlot,
         NEW call \in {"CALL", "RECALL"}, NEW ask \in {"ACK", "SENDRET"}
  PROVE  /\ CallFrom(call, t, s) \in CallPacket \cup ControlPacket
         /\ Control(ask, t, s, sslot) \in CallPacket \cup ControlPacket
BY DEF CallFrom, Control, CallPacket, ControlPacket

LEMMA ClearCancelFields ==
  ASSUME NEW x \in TransExt, x.cancel = "Cancelled" \/ x.completed = 0
  PROVE  /\ ClearCancel(x) \in TransExt
         /\ ClearCancel(x).state = x.state /\ ClearCancel(x).result = x.result
         /\ ClearCancel(x).slot = x.slot /\ ClearCancel(x).ans = x.ans
         /\ ClearCancel(x).cancel = IF x.cancel = "Cancelled" THEN "Cancelled" ELSE "NoFunction"
         /\ ClearCancel(x).completed = x.completed + (IF x.cancel = "Cancelled" THEN 0 ELSE 1)
<1> DEFINE y == [x EXCEPT !.cancel = "NoFunction"]
<1>1. /\ y \in TransExt /\ y.cancel = "NoFunction"
      /\ y.state = x.state /\ y.result = x.result /\ y.completed = x.completed
      /\ y.slot = x.slot /\ y.ans = x.ans
  BY DEF TransExt
<1>2. ClearCancel(x) = IF x.cancel = "Cancelled" THEN x ELSE [y EXCEPT !.completed = @ + 1]
  BY Zenon DEF ClearCancel
<1> HIDE DEF y
<1>3. CASE x.cancel = "Cancelled"
  BY <1>2, <1>3 DEF TransExt
<1>4. CASE x.cancel # "Cancelled"
  BY <1>1, <1>2, <1>4 DEF TransExt
<1> QED
  BY <1>3, <1>4

LEMMA ErrorCompletes ==
  ASSUME NEW x \in TransExt, NEW a \in BOOLEAN, Owner(x, a), x.state \in {"Pending", "Active"},
         NEW result \in Result \ {"Initial", "Ok"}, NEW t, NEW ans
  PROVE  /\ CompleteError(x, result) \in TransExt /\ Owner(CompleteError(x, result), a)
         /\ CompleteError(x, result).state = "Completed" /\ Move(x, CompleteError(x, result), t, ans)
<1> DEFINE y == [x EXCEPT !.state = "Completed"]
           z == [y EXCEPT !.result = result]
<1>1. /\ y \in TransExt /\ y.state = "Completed" /\ y.cancel = x.cancel /\ y.completed = x.completed
      /\ y.slot = x.slot /\ y.ans = x.ans
  BY DEF TransExt
<1>2. CompleteError(x, result) = ClearCancel(z)
  BY Zenon DEF CompleteError
<1> HIDE DEF y
<1>3. /\ z \in TransExt /\ z.state = "Completed" /\ z.result = result
      /\ z.cancel = x.cancel /\ z.completed = x.completed /\ z.slot = x.slot /\ z.ans = x.ans
  BY <1>1 DEF TransExt
<1> HIDE DEF z
<1>4. x.completed = 0
  BY DEF Owner
<1> DEFINE e == ClearCancel(z)
<1>5. /\ e \in TransExt /\ e.state = "Completed" /\ e.result = result /\ e.slot = x.slot /\ e.ans = x.ans
      /\ e.cancel = IF x.cancel = "Cancelled" THEN "Cancelled" ELSE "NoFunction"
      /\ e.completed = IF x.cancel = "Cancelled" THEN 0 ELSE 1
  BY <1>3, <1>4, ClearCancelFields
<1> HIDE DEF e
<1>6. Owner(e, a)
  BY <1>5 DEF Owner, TransExt
<1>7. Move(x, e, t, ans)
  BY <1>4, <1>5 DEF Move
<1> QED
  BY <1>2, <1>5, <1>6, <1>7 DEF e

LEMMA InfoCompletes ==
  ASSUME NEW x \in TransExt, NEW a \in BOOLEAN, Owner(x, a), x.state = "Active",
         NEW ans \in Answer, NEW t
  PROVE  /\ CompleteInfo(x, ans) \in TransExt /\ Owner(CompleteInfo(x, ans), a)
         /\ CompleteInfo(x, ans).state = "Completed" /\ Move(x, CompleteInfo(x, ans), t, {<<t, ans>>})
<1> DEFINE result == IF x.cancel = "Cancelled" THEN "Aborted" ELSE "Ok"
           y == [x EXCEPT !.state = "Completed"]
           z == [y EXCEPT !.result = result]
           w == [z EXCEPT !.ans = ans]
<1>1. /\ y \in TransExt /\ y.state = "Completed" /\ y.cancel = x.cancel /\ y.completed = x.completed
      /\ y.slot = x.slot /\ y.ans = x.ans
  BY DEF TransExt
<1>2. CompleteInfo(x, ans) = ClearCancel(IF x.cancel = "Cancelled" THEN z ELSE w)
  <2>1. CASE x.cancel = "Cancelled"
    BY <2>1, Zenon DEF CompleteInfo
  <2>2. CASE x.cancel # "Cancelled"
    BY <2>2, Zenon DEF CompleteInfo
  <2> QED
    BY <2>1, <2>2
<1>3. result \in Result \ {"Initial"} /\ (result = "Ok" <=> x.cancel # "Cancelled")
  BY DEF Result
<1> HIDE DEF y, result
<1>4. /\ z \in TransExt /\ z.state = "Completed" /\ z.result = result
      /\ z.cancel = x.cancel /\ z.completed = x.completed /\ z.slot = x.slot /\ z.ans = x.ans
  BY <1>1, <1>3 DEF TransExt
<1> HIDE DEF z
<1>5. /\ w \in TransExt /\ w.state = "Completed" /\ w.result = result
      /\ w.cancel = x.cancel /\ w.completed = x.completed /\ w.slot = x.slot /\ w.ans = ans
  BY <1>4 DEF TransExt
<1> HIDE DEF w
<1>6. x.completed = 0
  BY DEF Owner
<1> DEFINE v == IF x.cancel = "Cancelled" THEN z ELSE w
<1>7. /\ v \in TransExt /\ v.state = "Completed" /\ v.result = result
      /\ v.cancel = x.cancel /\ v.completed = x.completed /\ v.slot = x.slot
      /\ v.ans = IF x.cancel = "Cancelled" THEN x.ans ELSE ans
  BY <1>4, <1>5
<1>8. CompleteInfo(x, ans) = ClearCancel(v)
  BY <1>2
<1> HIDE DEF v
<1> DEFINE e == ClearCancel(v)
<1>9. /\ e \in TransExt /\ e.state = "Completed" /\ e.result = result /\ e.slot = x.slot
      /\ e.ans = IF x.cancel = "Cancelled" THEN x.ans ELSE ans
      /\ e.cancel = IF x.cancel = "Cancelled" THEN "Cancelled" ELSE "NoFunction"
      /\ e.completed = IF x.cancel = "Cancelled" THEN 0 ELSE 1
  BY <1>6, <1>7, ClearCancelFields
<1> HIDE DEF e
<1>10. Owner(e, a)
  BY <1>3, <1>9 DEF Owner, TransExt
<1>11. Move(x, e, t, {<<t, ans>>})
  BY <1>3, <1>6, <1>9 DEF Move
<1> QED
  BY <1>8, <1>9, <1>10, <1>11 DEF e

\* A slot that starts.
LEMMA StartedType ==
  ASSUME NEW cs, NEW s \in ClientSlot, NEW t \in Trans, cs[s] \in Slot
  PROVE  /\ Started(cs, s, t) \in Slot
         /\ Started(cs, s, t).active /\ Started(cs, s, t).trans = t
<1> DEFINE x == [cs[s] EXCEPT !.active = TRUE]
           y == [x EXCEPT !.trans = t]
           z == [y EXCEPT !.no_info = FALSE]
<1>1. x \in Slot /\ x.active
  BY DEF Slot
<1>2. Started(cs, s, t) = [z EXCEPT !.retry = MaxRetries]
  BY Zenon DEF Started
<1> HIDE DEF x
<1>3. y \in Slot /\ y.active /\ y.trans = t
  BY <1>1 DEF Slot
<1> HIDE DEF y
<1>4. z \in Slot /\ z.active /\ z.trans = t
  BY <1>3 DEF Slot
<1> HIDE DEF z
<1> QED
  BY <1>2, <1>4, ClientAssumption DEF Slot

\* A part of the list ...
LEMMA PartOfList ==
  ASSUME NEW q \in Seq(Trans), NEW m \in 1..(Len(q) + 1), NEW n \in (m - 1)..Len(q)
  PROVE  /\ SubSeq(q, m, n) \in Seq(Trans) /\ Len(SubSeq(q, m, n)) = n - m + 1
         /\ \A i \in 1..(n - m + 1) : SubSeq(q, m, n)[i] = q[m + i - 1]
<1>1. m \in Int /\ n \in Int /\ Len(q) \in Nat
  OBVIOUS
<1>2. \A i \in m..n : q[i] \in Trans
  BY <1>1, ElementOfSeq
<1>3. /\ SubSeq(q, m, n) \in Seq(Trans)
      /\ Len(SubSeq(q, m, n)) = IF m <= n THEN n - m + 1 ELSE 0
      /\ \A i \in 1..(n - m + 1) : SubSeq(q, m, n)[i] = q[m + i - 1]
  BY <1>1, <1>2, SubSeqProperties, SMTT(30)
<1> DEFINE subq == SubSeq(q, m, n)
<1> HIDE DEF subq
<1>4. Len(subq) = IF m <= n THEN n - m + 1 ELSE 0
  BY <1>3 DEF subq
<1>5. Len(subq) = n - m + 1
  BY <1>1, <1>4
<1> QED
  BY <1>3, <1>5, Zenon DEF subq

\* ... and the list without its k-th packet.
LEMMA WithoutOne ==
  ASSUME NEW q \in Seq(Trans), NEW k \in DOMAIN q, \A i, j \in DOMAIN q : q[i] = q[j] => i = j
  PROVE  /\ Without(q, k) \in Seq(Trans)
         /\ \A i, j \in DOMAIN Without(q, k) : Without(q, k)[i] = Without(q, k)[j] => i = j
         /\ \A t \in Trans : (\E i \in DOMAIN Without(q, k) : Without(q, k)[i] = t)
                              <=> t # q[k] /\ \E i \in DOMAIN q : q[i] = t
<1> DEFINE w == Without(q, k)
<1>1. Len(q) \in Nat /\ DOMAIN q = 1..Len(q) /\ k \in 1..Len(q)
  OBVIOUS
<1>2. /\ w \in Seq(Trans) /\ Len(w) = Len(q) - 1
      /\ \A i \in 1..(Len(q) - 1) : w[i] = IF i < k THEN q[i] ELSE q[i + 1]
  <2> DEFINE before == SubSeq(q, 1, k - 1)
             after  == SubSeq(q, k + 1, Len(q))
  <2>1. before \in Seq(Trans) /\ Len(before) = k - 1 /\ \A i \in 1..(k - 1) : before[i] = q[i]
    BY <1>1, PartOfList
  <2>2. /\ after \in Seq(Trans) /\ Len(after) = Len(q) - k
        /\ \A i \in 1..(Len(q) - k) : after[i] = q[k + i]
    BY <1>1, PartOfList
  <2>3. w = before \o after
    BY DEF Without
  <2> HIDE DEF w, before, after
  <2>4. /\ w \in Seq(Trans) /\ Len(w) = Len(before) + Len(after)
        /\ \A i \in 1..(Len(before) + Len(after)) :
             w[i] = IF i <= Len(before) THEN before[i] ELSE after[i - Len(before)]
    <3>1. before \in Seq(Trans) /\ after \in Seq(Trans)
      BY <2>1, <2>2
    <3>2. /\ before \o after \in Seq(Trans) /\ Len(before \o after) = Len(before) + Len(after)
          /\ \A i \in 1..(Len(before) + Len(after)) :
               (before \o after)[i] = IF i <= Len(before) THEN before[i] ELSE after[i - Len(before)]
      BY <3>1, ConcatProperties
    <3> QED
      BY <2>3, <3>2
  <2>5. Len(before) + Len(after) = Len(q) - 1
    BY <1>1, <2>1, <2>2
  <2>6. ASSUME NEW i \in 1..(Len(q) - 1)
        PROVE  w[i] = IF i < k THEN q[i] ELSE q[i + 1]
    <3>1. CASE i < k
      BY <1>1, <2>1, <2>4, <2>5, <3>1
    <3>2. CASE ~(i < k)
      <4>1. w[i] = after[i - (k - 1)] /\ i - (k - 1) \in 1..(Len(q) - k)
        BY <1>1, <2>1, <2>4, <2>5, <3>2
      <4>2. k + (i - (k - 1)) = i + 1
        BY <1>1
      <4> QED
        BY <2>2, <3>2, <4>1, <4>2
    <3> QED
      BY <3>1, <3>2
  <2> QED
    BY <2>4, <2>5, <2>6
<1> HIDE DEF w
<1>3. DOMAIN w = 1..(Len(q) - 1)
  BY <1>1, <1>2
<1>4. ASSUME NEW i \in DOMAIN w, NEW j \in DOMAIN w, w[i] = w[j]
      PROVE  i = j
  <2> DEFINE sl(n) == IF n < k THEN n ELSE n + 1
  <2>1. i \in 1..(Len(q) - 1) /\ j \in 1..(Len(q) - 1) /\ w[i] = w[j]
    BY <1>3, <1>4
  <2>2. sl(i) \in DOMAIN q /\ sl(j) \in DOMAIN q
    BY <1>1, <2>1
  <2>3. w[i] = q[sl(i)] /\ w[j] = q[sl(j)]
    BY <1>2, <2>1
  <2>4. sl(i) = sl(j)
    <3> HIDE DEF sl
    <3> QED
      BY <2>1, <2>2, <2>3
  <2> QED
    BY <1>1, <2>1, <2>4
<1>5. ASSUME NEW t \in Trans
      PROVE  (\E i \in DOMAIN w : w[i] = t) <=> t # q[k] /\ \E i \in DOMAIN q : q[i] = t
  <2>1. ASSUME NEW i \in DOMAIN w, w[i] = t
        PROVE  t # q[k] /\ \E j \in DOMAIN q : q[j] = t
    BY <1>1, <1>2, <1>3, <2>1
  <2>2. ASSUME NEW j \in DOMAIN q, q[j] = t, t # q[k]
        PROVE  \E i \in DOMAIN w : w[i] = t
    <3>1. CASE j < k
      BY <1>1, <1>2, <1>3, <2>2, <3>1
    <3>2. CASE j > k
      <4>1. j - 1 \in DOMAIN w /\ w[j - 1] = q[j]
        BY <1>1, <1>2, <1>3, <3>2
      <4> QED
        BY <4>1, <2>2
    <3> QED
      BY <1>1, <2>2, <3>1, <3>2
  <2> QED
    BY <2>1, <2>2
<1> QED
  BY <1>2, <1>4, <1>5 DEF w

-----------------------------------------------------------------------------
\* A transaction moves on step by step, and what was said of it stays true.
LEMMA MovedTwice ==
  ASSUME NEW tr, NEW tr2, NEW tr3, NEW ans, Moved(tr, tr2, ans), Moved(tr2, tr3, {})
  PROVE  Moved(tr, tr3, ans)
<1> SUFFICES ASSUME NEW t \in Trans, Move(tr[t], tr2[t], t, ans), Move(tr2[t], tr3[t], t, {})
             PROVE  Move(tr[t], tr3[t], t, ans)
  BY DEF Moved
<1> DEFINE x == tr[t]
           y == tr2[t]
           z == tr3[t]
<1>1. /\ Move(x, y, t, ans) /\ y.completed = 1 => z.completed = 1
      /\ y.state \in {"Active", "Completed"} => z.slot = y.slot
      /\ \/ /\ z.state = y.state \/ (y.state \in {"New", "Pending"} /\ z.state \in {"Pending", "Active"})
            /\ z.result = y.result /\ z.ans = y.ans
         \/ /\ y.state # "Completed" /\ z.state = "Completed"
            /\ z.result \in Result \ {"Initial", "Ok"} /\ z.ans = y.ans
  BY DEF Move
<1> HIDE DEF x, y, z
<1>2. CASE /\ z.state = y.state \/ (y.state \in {"New", "Pending"} /\ z.state \in {"Pending", "Active"})
           /\ z.result = y.result /\ z.ans = y.ans
  <2>1. CASE /\ y.state = x.state \/ (x.state \in {"New", "Pending"} /\ y.state \in {"Pending", "Active"})
             /\ y.result = x.result /\ y.ans = x.ans
    <3>1. /\ z.state = x.state \/ (x.state \in {"New", "Pending"} /\ z.state \in {"Pending", "Active"})
          /\ z.result = x.result /\ z.ans = x.ans
      BY <1>2, <2>1
    <3> QED
      BY <1>1, <2>1, <3>1 DEF Move
  <2>2. CASE y.state = "Completed" /\ x.state # "Completed"
    BY <1>1, <1>2, <2>2 DEF Move
  <2> QED
    BY <1>1, <2>1, <2>2 DEF Move
<1>3. CASE /\ y.state # "Completed" /\ z.state = "Completed"
           /\ z.result \in Result \ {"Initial", "Ok"} /\ z.ans = y.ans
  BY <1>1, <1>3 DEF Move
<1> QED
  BY <1>1, <1>2, <1>3 DEF x, z

LEMMA SaysStays ==
  ASSUME NEW tr, NEW tr2, NEW ans, Moved(tr, tr2, ans), NEW m, m.tid \in Trans, Says(m, tr)
  PROVE  Says(m, tr2)
<1>1. Move(tr[m.tid], tr2[m.tid], m.tid, ans)
  BY DEF Moved
<1> QED
  BY <1>1 DEF Says, Move

\* pump() keeps the invariant: the n packets it takes from the list are those
\* that fit, which get a free slot each, and those that are too long, which it
\* completes.
LEMMA PumpKeeps ==
  ASSUME NEW tr, NEW cs, NEW q, NEW msgs, Good(tr, cs, q, aborting), msgs \subseteq Outbound,
         toServer \subseteq Outbound, Pump(tr, cs, q, msgs)
  PROVE  /\ Good(trans', cslot', pending', aborting) /\ toServer' \subseteq Outbound
         /\ Moved(tr, trans', {})
         /\ AllSay(msgs, tr) => AllSay(toServer' \ toServer, trans')
<1> DEFINE free     == {s \in ClientSlot : ~cs[s].active}
           fit(n)   == {q[k] : k \in 1..n} \ Long
           taken(n) == {q[k] : k \in 1..n}
<1>1. PICK n \in 0..Len(q) : \E sl \in [fit(n) -> free] :
            /\ \A t, u \in fit(n) : sl[t] = sl[u] => t = u
            /\ trans' = [t \in Trans |->
                 IF t \in fit(n) THEN [tr[t] EXCEPT !.state = "Active", !.slot = sl[t]]
                 ELSE IF \E k \in 1..n : q[k] = t THEN CompleteError(tr[t], "BadDataLen")
                 ELSE tr[t]]
            /\ cslot' = [s \in ClientSlot |->
                 IF \E t \in fit(n) : sl[t] = s
                 THEN Started(cs, s, CHOOSE t \in fit(n) : sl[t] = s) ELSE cs[s]]
            /\ Sent(msgs \cup {CallFrom("CALL", t, sl[t]) : t \in fit(n)})
            /\ pending' = SubSeq(q, n + 1, Len(q))
  BY Zenon DEF Pump
<1>2. PICK sl \in [fit(n) -> free] :
            /\ \A t, u \in fit(n) : sl[t] = sl[u] => t = u
            /\ trans' = [t \in Trans |->
                 IF t \in fit(n) THEN [tr[t] EXCEPT !.state = "Active", !.slot = sl[t]]
                 ELSE IF \E k \in 1..n : q[k] = t THEN CompleteError(tr[t], "BadDataLen")
                 ELSE tr[t]]
            /\ cslot' = [s \in ClientSlot |->
                 IF \E t \in fit(n) : sl[t] = s
                 THEN Started(cs, s, CHOOSE t \in fit(n) : sl[t] = s) ELSE cs[s]]
            /\ Sent(msgs \cup {CallFrom("CALL", t, sl[t]) : t \in fit(n)})
            /\ pending' = SubSeq(q, n + 1, Len(q))
  BY <1>1
<1> DEFINE Fit == fit(n)
           Taken == taken(n)
<1>3. /\ n \in Nat /\ Len(q) \in Nat /\ n <= Len(q) /\ DOMAIN q = 1..Len(q)
      /\ tr \in [Trans -> TransExt] /\ cs \in [ClientSlot -> Slot] /\ q \in Seq(Trans)
      /\ \A k \in 1..Len(q) : q[k] \in Trans
  BY LenProperties, ElementOfSeq DEF Good, Types
<1>4. Fit \subseteq Taken /\ Taken \subseteq Trans /\ \A t \in Taken : tr[t].state = "Pending"
  BY <1>3 DEF Good, Queue
<1>5. \A t \in Fit : sl[t] \in ClientSlot /\ ~cs[sl[t]].active
  BY <1>2
<1>6. /\ \A t, u \in Fit : sl[t] = sl[u] => t = u
      /\ trans' = [t \in Trans |->
           IF t \in Fit THEN [tr[t] EXCEPT !.state = "Active", !.slot = sl[t]]
           ELSE IF t \in Taken THEN CompleteError(tr[t], "BadDataLen") ELSE tr[t]]
      /\ cslot' = [s \in ClientSlot |->
           IF \E t \in Fit : sl[t] = s THEN Started(cs, s, CHOOSE t \in Fit : sl[t] = s) ELSE cs[s]]
      /\ Sent(msgs \cup {CallFrom("CALL", t, sl[t]) : t \in Fit})
      /\ pending' = SubSeq(q, n + 1, Len(q))
  <2>1. \A t : t \in Taken <=> \E k \in 1..n : q[k] = t
    OBVIOUS
  <2> QED
    BY <1>2, <2>1
<1>7. /\ pending' \in Seq(Trans)
      /\ \A k, l \in DOMAIN pending' : pending'[k] = pending'[l] => k = l
      /\ \A t \in Trans : (\E k \in DOMAIN pending' : pending'[k] = t)
                            <=> t \notin Taken /\ \E k \in DOMAIN q : q[k] = t
  <2>1. /\ pending' \in Seq(Trans) /\ DOMAIN pending' = 1..(Len(q) - n)
        /\ \A k \in 1..(Len(q) - n) : pending'[k] = q[n + k]
    <3> DEFINE rest == SubSeq(q, n + 1, Len(q))
    <3>1. n + 1 \in 1..(Len(q) + 1) /\ Len(q) \in ((n + 1) - 1)..Len(q)
      BY <1>3
    <3>2. /\ rest \in Seq(Trans) /\ Len(rest) = Len(q) - (n + 1) + 1
          /\ \A k \in 1..(Len(q) - (n + 1) + 1) : rest[k] = q[(n + 1) + k - 1]
      BY <1>3, <3>1, PartOfList
    <3> HIDE DEF rest
    <3>3. DOMAIN rest = 1..Len(rest)
      BY <3>2
    <3>4. /\ Len(q) - (n + 1) + 1 = Len(q) - n
          /\ \A k \in 1..(Len(q) - n) : (n + 1) + k - 1 = n + k
      BY <1>3
    <3>5. pending' = rest
      BY <1>6 DEF rest
    <3> QED
      BY <3>2, <3>3, <3>4, <3>5
  <2>2. \A k, l \in 1..Len(q) : q[k] = q[l] => k = l
    BY <1>3 DEF Good, Queue
  <2>3. \A k, l \in DOMAIN pending' : pending'[k] = pending'[l] => k = l
    BY <1>3, <2>1, <2>2
  <2>4. ASSUME NEW t \in Trans, NEW k \in DOMAIN pending', pending'[k] = t
        PROVE  t \notin Taken /\ \E l \in DOMAIN q : q[l] = t
    <3>1. n + k \in 1..Len(q) /\ q[n + k] = t /\ n + k > n
      BY <1>3, <2>1, <2>4
    <3> QED
      BY <1>3, <2>2, <3>1
  <2>5. ASSUME NEW t \in Trans, t \notin Taken, NEW k \in DOMAIN q, q[k] = t
        PROVE  \E l \in DOMAIN pending' : pending'[l] = t
    <3>1. k > n
      BY <1>3, <2>5
    <3>2. k - n \in 1..(Len(q) - n) /\ n + (k - n) = k
      BY <1>3, <3>1
    <3> QED
      BY <2>1, <2>5, <3>2
  <2> QED
    BY <2>1, <2>3, <2>4, <2>5
<1> HIDE DEF free, fit, taken, Fit, Taken
<1>8. ASSUME NEW t \in Fit
      PROVE  /\ trans'[t] \in TransExt /\ trans'[t].state = "Active" /\ trans'[t].slot = sl[t]
             /\ trans'[t].cancel = tr[t].cancel /\ trans'[t].completed = tr[t].completed
             /\ trans'[t].result = tr[t].result /\ trans'[t].ans = tr[t].ans
  <2> DEFINE x == [tr[t] EXCEPT !.state = "Active"]
  <2>1. t \in Trans /\ tr[t] \in TransExt
    BY <1>3, <1>4
  <2>2. /\ x \in TransExt /\ x.state = "Active" /\ x.cancel = tr[t].cancel /\ x.completed = tr[t].completed
        /\ x.result = tr[t].result /\ x.ans = tr[t].ans
    BY <2>1 DEF TransExt
  <2>3. trans'[t] = [x EXCEPT !.slot = sl[t]]
    BY <1>6, <2>1, Zenon
  <2> HIDE DEF x
  <2> QED
    BY <1>5, <2>2, <2>3 DEF TransExt
<1>9. ASSUME NEW t \in Taken \ Fit
      PROVE  /\ trans'[t] \in TransExt /\ trans'[t].state = "Completed"
             /\ Owner(trans'[t], t \in aborting) /\ Move(tr[t], trans'[t], t, {})
  <2>1. t \in Trans /\ tr[t] \in TransExt /\ tr[t].state = "Pending" /\ Owner(tr[t], t \in aborting)
    BY <1>3, <1>4 DEF Good, Owners
  <2>2. trans'[t] = CompleteError(tr[t], "BadDataLen")
    BY <1>6, <2>1
  <2>3. "BadDataLen" \in Result \ {"Initial", "Ok"} /\ (t \in aborting) \in BOOLEAN
    BY DEF Result
  <2> DEFINE x == CompleteError(tr[t], "BadDataLen")
  <2>4. /\ x \in TransExt /\ x.state = "Completed"
        /\ Owner(x, t \in aborting) /\ Move(tr[t], x, t, {})
    BY <2>1, <2>3, ErrorCompletes
  <2> HIDE DEF x
  <2> QED
    BY <2>2, <2>4 DEF x
<1>10. \A t \in Trans \ Taken : trans'[t] = tr[t]
  BY <1>4, <1>6
<1>11. trans' \in [Trans -> TransExt]
  <2>1. \A t \in Trans : trans'[t] \in TransExt
    BY <1>3, <1>8, <1>9, <1>10
  <2> QED
    BY <1>6, <2>1
<1>12. /\ \A t \in Fit : cslot'[sl[t]] \in Slot /\ cslot'[sl[t]].active /\ cslot'[sl[t]].trans = t
       /\ \A s \in ClientSlot : (\A t \in Fit : sl[t] # s) => cslot'[s] = cs[s]
       /\ cslot' \in [ClientSlot -> Slot]
  <2>1. ASSUME NEW t \in Fit
        PROVE  cslot'[sl[t]] \in Slot /\ cslot'[sl[t]].active /\ cslot'[sl[t]].trans = t
    <3>1. t \in Trans /\ cs[sl[t]] \in Slot
      BY <1>3, <1>4, <1>5
    <3>2. (CHOOSE u \in Fit : sl[u] = sl[t]) = t
      BY <1>6
    <3>3. cslot'[sl[t]] = Started(cs, sl[t], t)
      BY <1>5, <1>6, <3>2
    <3> QED
      BY <1>5, <3>1, <3>3, StartedType
  <2>2. \A s \in ClientSlot : (\A t \in Fit : sl[t] # s) => cslot'[s] = cs[s]
    BY <1>6
  <2>3. \A s \in ClientSlot : cslot'[s] \in Slot
    BY <1>3, <2>1, <2>2
  <2> QED
    BY <1>6, <2>1, <2>2, <2>3
<1>13. Slots(trans', cslot')
  <2>1. \A t \in Trans : tr[t].state = "Active" => cs[tr[t].slot].active /\ cs[tr[t].slot].trans = t
    BY DEF Good, Slots
  <2>2. \A s \in ClientSlot : cs[s].active =>
             tr[cs[s].trans].state = "Active" /\ tr[cs[s].trans].slot = s
    BY DEF Good, Slots
  <2>3. ASSUME NEW t \in Trans, trans'[t].state = "Active"
        PROVE  cslot'[trans'[t].slot].active /\ cslot'[trans'[t].slot].trans = t
    <3>1. CASE t \in Fit
      BY <1>8, <1>12, <3>1
    <3>2. CASE t \notin Fit
      <4>1. trans'[t] = tr[t] /\ tr[t].slot \in ClientSlot
        BY <1>3, <1>9, <1>10, <2>3, <3>2 DEF TransExt
      <4>2. \A u \in Fit : sl[u] # tr[t].slot
        BY <1>5, <2>1, <2>3, <4>1
      <4> QED
        BY <1>12, <2>1, <2>3, <4>1, <4>2
    <3> QED
      BY <3>1, <3>2
  <2>4. ASSUME NEW s \in ClientSlot, cslot'[s].active
        PROVE  trans'[cslot'[s].trans].state = "Active" /\ trans'[cslot'[s].trans].slot = s
    <3>1. CASE \E t \in Fit : sl[t] = s
      BY <1>8, <1>12, <3>1
    <3>2. CASE \A t \in Fit : sl[t] # s
      <4>1. cslot'[s] = cs[s] /\ cs[s].trans \in Trans
        BY <1>3, <1>12, <3>2 DEF Slot
      <4>2. tr[cs[s].trans].state = "Active" /\ tr[cs[s].trans].slot = s
        BY <2>2, <2>4, <4>1
      <4>3. cs[s].trans \notin Taken
        BY <1>4, <4>2
      <4> QED
        BY <1>10, <4>1, <4>2, <4>3
    <3> QED
      BY <3>1, <3>2
  <2> QED
    BY <2>3, <2>4 DEF Slots
<1>14. Queue(trans', pending')
  <2>1. ASSUME NEW t \in Trans
        PROVE  trans'[t].state = "Pending" <=> t \notin Taken /\ \E k \in DOMAIN q : q[k] = t
    <3>1. CASE t \in Taken
      BY <1>8, <1>9, <3>1
    <3>2. CASE t \notin Taken
      BY <1>10, <3>2 DEF Good, Queue
    <3> QED
      BY <3>1, <3>2
  <2> QED
    BY <1>7, <2>1 DEF Queue
<1>15. Owners(trans', aborting)
  <2> SUFFICES ASSUME NEW t \in Trans
               PROVE  Owner(trans'[t], t \in aborting)
    BY DEF Owners
  <2>1. Owner(tr[t], t \in aborting)
    BY DEF Good, Owners
  <2>2. CASE t \in Fit
    BY <1>4, <1>8, <2>1, <2>2 DEF Owner
  <2>3. CASE t \notin Fit
    BY <1>9, <1>10, <2>1, <2>3
  <2> QED
    BY <2>2, <2>3
<1>16. toServer' \subseteq Outbound
  <2>1. \A t \in Fit : CallFrom("CALL", t, sl[t]) \in Outbound
    BY <1>4, <1>5 DEF CallFrom, Outbound, CallPacket
  <2> QED
    BY <1>6, <2>1 DEF Sent
<1>17. Moved(tr, trans', {})
  <2> SUFFICES ASSUME NEW t \in Trans
               PROVE  Move(tr[t], trans'[t], t, {})
    BY DEF Moved
  <2>1. CASE t \in Fit
    BY <1>4, <1>8, <2>1 DEF Move
  <2>2. CASE t \in Taken \ Fit
    BY <1>9, <2>2
  <2>3. CASE t \notin Taken
    BY <1>10, <2>3 DEF Move
  <2> QED
    BY <2>1, <2>2, <2>3
<1>18. ASSUME AllSay(msgs, tr)
       PROVE  AllSay(toServer' \ toServer, trans')
  <2>1. \A m \in toServer' \ toServer : m \in msgs \/ \E t \in Fit : m = CallFrom("CALL", t, sl[t])
    BY <1>6 DEF Sent
  <2>2. \A m \in msgs : m.tid \in Trans
    BY DEF Outbound, CallPacket, ControlPacket
  <2>3. \A m \in msgs : Says(m, trans')
    BY <1>17, <1>18, <2>2, SaysStays DEF AllSay
  <2>4. \A t \in Fit : Says(CallFrom("CALL", t, sl[t]), trans')
    BY <1>8 DEF Says, CallFrom
  <2> QED
    BY <2>1, <2>3, <2>4 DEF AllSay
<1> QED
  BY <1>7, <1>11, <1>12, <1>13, <1>14, <1>15, <1>16, <1>17, <1>18 DEF Good, Types

-----------------------------------------------------------------------------
\* A handler ends the slots in E and completes their transactions, which
\* leaves tr and cs for pump().
Ends(E, tr, cs, ans) ==
  /\ E \subseteq ClientSlot /\ tr \in [Trans -> TransExt] /\ cs \in [ClientSlot -> Slot]
  /\ \A s \in E : cslot[s].active
  /\ \A s \in ClientSlot : /\ cs[s].trans = cslot[s].trans
                           /\ cs[s].active <=> cslot[s].active /\ s \notin E
  /\ \A t \in Trans : IF \E s \in E : cslot[s].trans = t
                       THEN /\ tr[t].state = "Completed" /\ Owner(tr[t], t \in aborting)
                            /\ Move(trans[t], tr[t], t, ans)
                       ELSE tr[t] = trans[t]

LEMMA EndKeeps ==
  ASSUME Good(trans, cslot, pending, aborting), NEW E, NEW ans, NEW tr, NEW cs, Ends(E, tr, cs, ans)
  PROVE  Good(tr, cs, pending, aborting) /\ Moved(trans, tr, ans)
<1>0. /\ E \in SUBSET ClientSlot /\ tr \in [Trans -> TransExt] /\ cs \in [ClientSlot -> Slot]
      /\ \A s \in E : cslot[s].active
      /\ \A s \in ClientSlot : /\ cs[s].trans = cslot[s].trans
                               /\ cs[s].active <=> cslot[s].active /\ s \notin E
      /\ \A t \in Trans : IF \E s \in E : cslot[s].trans = t
                           THEN /\ tr[t].state = "Completed" /\ Owner(tr[t], t \in aborting)
                                /\ Move(trans[t], tr[t], t, ans)
                           ELSE tr[t] = trans[t]
  BY Zenon DEF Ends
<1> DEFINE over(t) == \E s \in E : cslot[s].trans = t
<1>1. /\ \A t \in Trans : trans[t].state = "Active" => cslot[trans[t].slot].active /\ cslot[trans[t].slot].trans = t
      /\ \A s \in ClientSlot : cslot[s].active =>
           trans[cslot[s].trans].state = "Active" /\ trans[cslot[s].trans].slot = s
  BY DEF Good, Slots
<1>2. trans \in [Trans -> TransExt] /\ cslot \in [ClientSlot -> Slot] /\ pending \in Seq(Trans)
  BY DEF Good, Types
<1>3. \A t \in Trans : over(t) => trans[t].state = "Active"
  BY <1>0, <1>1
<1>4. Slots(tr, cs)
  <2>1. ASSUME NEW t \in Trans, tr[t].state = "Active"
        PROVE  cs[tr[t].slot].active /\ cs[tr[t].slot].trans = t
    <3>1. ~over(t) /\ tr[t] = trans[t] /\ trans[t].slot \in ClientSlot
      BY <1>0, <1>2, <2>1 DEF TransExt
    <3> QED
      BY <1>0, <1>1, <2>1, <3>1
  <2>2. ASSUME NEW s \in ClientSlot, cs[s].active
        PROVE  tr[cs[s].trans].state = "Active" /\ tr[cs[s].trans].slot = s
    <3>0. cs[s].trans = cslot[s].trans /\ (cs[s].active <=> cslot[s].active /\ s \notin E)
      BY <1>0, Zenon
    <3>1. cslot[s].active /\ s \notin E /\ cs[s].trans = cslot[s].trans
      BY <2>2, <3>0
    <3>2. cslot[s].trans \in Trans
      BY <1>2 DEF Slot
    <3>3. ~over(cslot[s].trans)
      BY <1>0, <1>1, <3>1
    <3> QED
      BY <1>0, <1>1, <3>1, <3>2, <3>3
  <2> QED
    BY <2>1, <2>2 DEF Slots
<1>5. Queue(tr, pending)
  <2>1. \A t \in Trans : tr[t].state = "Pending" <=> trans[t].state = "Pending"
    BY <1>0, <1>3
  <2> QED
    BY <2>1 DEF Good, Queue
<1>6. Owners(tr, aborting)
  BY <1>0 DEF Good, Owners
<1>7. Moved(trans, tr, ans)
  BY <1>0 DEF Moved, Move
<1> QED
  BY <1>0, <1>2, <1>4, <1>5, <1>6, <1>7 DEF Good, Types

-----------------------------------------------------------------------------
LEMMA InitGood == Init => IInv
<1> SUFFICES ASSUME Init PROVE IInv
  OBVIOUS
<1>1. (CHOOSE s \in ClientSlot : TRUE) \in ClientSlot /\ (CHOOSE t \in Trans : TRUE) \in Trans
      /\ (CHOOSE s \in ServerSlot : TRUE) \in ServerSlot
  BY ClientAssumption
<1>2. NewTrans \in TransExt /\ NewSlot \in Slot
  BY <1>1, ClientAssumption DEF NewTrans, NewSlot, TransExt, Slot, Result
<1>3. trans \in [Trans -> TransExt] /\ cslot \in [ClientSlot -> Slot] /\ pending \in Seq(Trans)
      /\ DOMAIN pending = {}
  BY <1>2 DEF Init
<1>4. /\ \A t \in Trans : trans[t].state = "New" /\ trans[t].cancel = "NoFunction" /\ trans[t].completed = 0
      /\ \A s \in ClientSlot : ~cslot[s].active
  BY DEF Init, NewTrans, NewSlot
<1>5. Good(trans, cslot, pending, aborting)
  BY <1>3, <1>4 DEF Good, Types, Slots, Queue, Owners, Owner, Init
<1> QED
  BY <1>3, <1>5 DEF IInv, TypeOK, Init

\* A packet cancelled before start() is completed, another one joins the list.
LEMMA StartKeeps ==
  ASSUME IInv, NEW t \in Trans, Start(t)
  PROVE  IInv' /\ Moved(trans, trans', {}) /\ AllSay(toServer' \ toServer, trans')
<1>0. /\ trans \in [Trans -> TransExt] /\ cslot \in [ClientSlot -> Slot] /\ pending \in Seq(Trans)
      /\ trans[t].state = "New" /\ Owner(trans[t], t \in aborting) /\ aborting' = aborting
      /\ aborting \subseteq Trans /\ toServer \subseteq Outbound
      /\ Good(trans, cslot, pending, aborting)
  BY DEF IInv, TypeOK, Good, Types, Owners, Start, Outbound
<1>1. CASE trans[t].cancel = "NoFunction"
  <2> DEFINE x  == [trans EXCEPT ![t].cancel = "HasFunction"]
             tr == [x EXCEPT ![t].state = "Pending"]
             q  == Append(pending, t)
  <2>1. Pump(tr, cslot, q, {})
    BY <1>1, Zenon DEF Start
  <2>2. /\ x \in [Trans -> TransExt] /\ \A u \in Trans \ {t} : x[u] = trans[u]
        /\ x[t].cancel = "HasFunction" /\ x[t].completed = trans[t].completed
        /\ x[t].result = trans[t].result /\ x[t].ans = trans[t].ans
    BY <1>0 DEF TransExt
  <2> HIDE DEF x
  <2>3. /\ tr \in [Trans -> TransExt] /\ \A u \in Trans \ {t} : tr[u] = trans[u]
        /\ tr[t].cancel = "HasFunction" /\ tr[t].completed = trans[t].completed /\ tr[t].state = "Pending"
        /\ tr[t].result = trans[t].result /\ tr[t].ans = trans[t].ans
    BY <2>2 DEF TransExt
  <2>4. /\ q \in Seq(Trans) /\ DOMAIN q = 1..(Len(pending) + 1) /\ q[Len(pending) + 1] = t
        /\ \A k \in 1..Len(pending) : q[k] = pending[k]
        /\ Len(pending) \in Nat /\ DOMAIN pending = 1..Len(pending)
    BY <1>0
  <2> HIDE DEF tr, q
  <2>5. Slots(tr, cslot)
    <3>1. \A s \in ClientSlot : cslot[s].trans \in Trans
      BY <1>0 DEF Slot
    <3> QED
      BY <1>0, <2>3, <3>1 DEF Good, Slots
  <2>6. Queue(tr, q)
    <3>1. \A k \in DOMAIN pending : pending[k] # t
      BY <1>0 DEF Good, Queue
    <3>2. \A u \in Trans : (\E k \in DOMAIN q : q[k] = u)
                            <=> u = t \/ \E k \in DOMAIN pending : pending[k] = u
      BY <2>4
    <3>3. \A k, l \in DOMAIN q : q[k] = q[l] => k = l
      BY <1>0, <2>4, <3>1 DEF Good, Queue
    <3>4. \A u \in Trans : tr[u].state = "Pending" <=> u = t \/ trans[u].state = "Pending"
      BY <2>3
    <3> QED
      BY <1>0, <3>2, <3>3, <3>4 DEF Good, Queue
  <2>7. Owners(tr, aborting)
    BY <1>0, <2>3 DEF Good, Owners, Owner
  <2>8. Good(tr, cslot, q, aborting)
    BY <1>0, <2>3, <2>4, <2>5, <2>6, <2>7 DEF Good, Types
  <2>9. Moved(trans, tr, {})
    BY <1>0, <2>3 DEF Moved, Move
  <2>10. AllSay({}, tr) /\ {} \subseteq Outbound
    BY DEF AllSay
  <2>11. /\ Good(trans', cslot', pending', aborting) /\ toServer' \subseteq Outbound
         /\ Moved(tr, trans', {})
         /\ AllSay({}, tr) => AllSay(toServer' \ toServer, trans')
    BY <1>0, <2>1, <2>8, <2>10, PumpKeeps
  <2> QED
    BY <1>0, <2>9, <2>10, <2>11, MovedTwice DEF IInv, TypeOK, Good, Types, Outbound
<1>2. CASE trans[t].cancel = "Cancelled"
  <2> DEFINE x == [trans EXCEPT ![t].state = "Completed"]
             y == [x EXCEPT ![t].result = "Aborted"]
             z == [y EXCEPT ![t].completed = trans[t].completed + 1]
  <2>1. trans' = z /\ UNCHANGED <<cslot, pending, toServer>>
    <3>1. trans[t].cancel # "NoFunction"
      BY <1>2
    <3> QED
      BY <3>1, Zenon DEF Start
  <2>2. /\ x \in [Trans -> TransExt] /\ \A u \in Trans \ {t} : x[u] = trans[u]
        /\ x[t].cancel = "Cancelled" /\ x[t].completed = 0 /\ x[t].state = "Completed"
        /\ x[t].ans = trans[t].ans
        /\ trans[t].completed = 0
    BY <1>0, <1>2 DEF TransExt, Owner
  <2> HIDE DEF x
  <2>3. /\ y \in [Trans -> TransExt] /\ \A u \in Trans \ {t} : y[u] = trans[u]
        /\ y[t].cancel = "Cancelled" /\ y[t].completed = 0 /\ y[t].state = "Completed"
        /\ y[t].result = "Aborted" /\ y[t].ans = trans[t].ans
    BY <2>2 DEF TransExt, Result
  <2> HIDE DEF y
  <2>4. /\ z \in [Trans -> TransExt] /\ \A u \in Trans \ {t} : z[u] = trans[u]
        /\ z[t].cancel = "Cancelled" /\ z[t].completed = 1 /\ z[t].state = "Completed"
        /\ z[t].result = "Aborted" /\ z[t].ans = trans[t].ans
    <3>1. z = [y EXCEPT ![t].completed = 1]
      BY <2>2
    <3> HIDE DEF z
    <3> QED
      BY <2>3, <3>1 DEF TransExt
  <2> HIDE DEF z
  <2>5. Slots(z, cslot)
    <3>1. \A s \in ClientSlot : cslot[s].trans \in Trans
      BY <1>0 DEF Slot
    <3>2. \A u \in Trans : z[u].state = "Active" => u # t /\ z[u] = trans[u]
      BY <2>4
    <3>3. \A s \in ClientSlot : cslot[s].active => cslot[s].trans # t
      BY <1>0 DEF Good, Slots
    <3> QED
      BY <1>0, <2>4, <3>1, <3>2, <3>3 DEF Good, Slots
  <2>6. Queue(z, pending)
    BY <1>0, <2>4 DEF Good, Queue
  <2>7. Owners(z, aborting)
    BY <1>0, <2>4 DEF Good, Owners, Owner
  <2>8. Good(z, cslot, pending, aborting)
    BY <1>0, <2>4, <2>5, <2>6, <2>7 DEF Good, Types
  <2>9. Moved(trans, z, {})
    BY <1>0, <2>4 DEF Moved, Move, Result
  <2>10. AllSay(toServer' \ toServer, trans')
    BY <2>1 DEF AllSay
  <2> QED
    BY <1>0, <2>1, <2>8, <2>9, <2>10 DEF IInv, TypeOK, Good, Types, Outbound
<1> QED
  BY <1>1, <1>2 DEF Start

\* The canceller takes the cancel function.
LEMMA CancelKeeps ==
  ASSUME IInv, NEW t \in Trans, Cancel(t)
  PROVE  IInv' /\ Moved(trans, trans', {}) /\ AllSay(toServer' \ toServer, trans')
<1>0. /\ trans \in [Trans -> TransExt] /\ cslot \in [ClientSlot -> Slot] /\ pending \in Seq(Trans)
      /\ Owner(trans[t], t \in aborting) /\ aborting \subseteq Trans
      /\ Good(trans, cslot, pending, aborting)
  BY DEF IInv, TypeOK, Good, Types, Owners
<1>1. /\ trans' \in [Trans -> TransExt] /\ \A u \in Trans \ {t} : trans'[u] = trans[u]
      /\ trans'[t].cancel = "Cancelled" /\ trans'[t].completed = trans[t].completed
      /\ trans'[t].state = trans[t].state /\ trans'[t].slot = trans[t].slot
      /\ trans'[t].result = trans[t].result /\ trans'[t].ans = trans[t].ans
  BY <1>0 DEF Cancel, TransExt
<1>2. /\ aborting' = IF trans[t].cancel = "HasFunction" THEN aborting \cup {t} ELSE aborting
      /\ trans[t].cancel # "Cancelled" /\ UNCHANGED <<cslot, pending, toServer>>
  BY DEF Cancel
<1>3. Slots(trans', cslot')
  <2>1. \A u \in Trans : trans'[u].state = trans[u].state /\ trans'[u].slot = trans[u].slot
    BY <1>1
  <2>2. \A s \in ClientSlot : cslot[s].trans \in Trans
    BY <1>0 DEF Slot
  <2> QED
    BY <1>0, <1>2, <2>1, <2>2 DEF Good, Slots
<1>4. Queue(trans', pending')
  BY <1>0, <1>1, <1>2 DEF Good, Queue
<1>5. Owners(trans', aborting')
  <2>1. Owner(trans'[t], t \in aborting')
    BY <1>0, <1>1, <1>2 DEF Owner, TransExt
  <2>2. \A u \in Trans \ {t} : trans'[u] = trans[u] /\ (u \in aborting' <=> u \in aborting)
    BY <1>1, <1>2
  <2>3. \A u \in Trans \ {t} : Owner(trans'[u], u \in aborting')
    BY <1>0, <2>2 DEF Good, Owners
  <2> QED
    BY <2>1, <2>3 DEF Owners
<1>6. Moved(trans, trans', {}) /\ AllSay(toServer' \ toServer, trans')
  BY <1>1, <1>2 DEF Moved, Move, AllSay
<1> QED
  BY <1>0, <1>1, <1>2, <1>3, <1>4, <1>5, <1>6 DEF IInv, TypeOK, Good, Types

\* abort() takes the packet out of the list or frees its slot, and completes it
\* in the engine's place.
LEMMA AbortKeeps ==
  ASSUME IInv, NEW t \in Trans, Abort(t)
  PROVE  IInv' /\ Moved(trans, trans', {}) /\ AllSay(toServer' \ toServer, trans')
<1> DEFINE x == [trans EXCEPT ![t].completed = @ + 1]
           y == [x EXCEPT ![t].result = IF trans[t].state = "Completed" THEN trans[t].result ELSE "Aborted"]
           z == [y EXCEPT ![t].state = "Completed"]
<1>0. /\ trans \in [Trans -> TransExt] /\ cslot \in [ClientSlot -> Slot] /\ pending \in Seq(Trans)
      /\ Owner(trans[t], t \in aborting) /\ t \in aborting /\ aborting \subseteq Trans
      /\ Good(trans, cslot, pending, aborting)
  BY DEF IInv, TypeOK, Good, Types, Owners, Abort
<1>1. trans[t].completed = 0 /\ trans[t].cancel = "Cancelled"
      /\ (trans[t].state = "Completed" => trans[t].result # "Initial")
  BY <1>0 DEF Owner, TransExt
<1>2. /\ x \in [Trans -> TransExt] /\ \A u \in Trans \ {t} : x[u] = trans[u]
      /\ x[t].cancel = "Cancelled" /\ x[t].completed = 1
      /\ x[t].slot = trans[t].slot /\ x[t].ans = trans[t].ans
  BY <1>0, <1>1 DEF TransExt
<1>3. trans' = z /\ aborting' = aborting \ {t} /\ toServer' = toServer
  BY Zenon DEF Abort
<1> HIDE DEF x
<1>4. /\ y \in [Trans -> TransExt] /\ \A u \in Trans \ {t} : y[u] = trans[u]
      /\ y[t].cancel = "Cancelled" /\ y[t].completed = 1 /\ y[t].result # "Initial"
      /\ y[t].slot = trans[t].slot /\ y[t].ans = trans[t].ans
      /\ y[t].result = IF trans[t].state = "Completed" THEN trans[t].result ELSE "Aborted"
  <2>1. trans[t].result \in Result /\ "Aborted" \in Result
    BY <1>0 DEF TransExt, Result
  <2> QED
    BY <1>1, <1>2, <2>1 DEF TransExt
<1> HIDE DEF y
<1>5. /\ z \in [Trans -> TransExt] /\ \A u \in Trans \ {t} : z[u] = trans[u]
      /\ z[t].cancel = "Cancelled" /\ z[t].completed = 1 /\ z[t].result # "Initial"
      /\ z[t].state = "Completed" /\ z[t].slot = trans[t].slot /\ z[t].ans = trans[t].ans
      /\ z[t].result = IF trans[t].state = "Completed" THEN trans[t].result ELSE "Aborted"
  BY <1>4 DEF TransExt
<1> HIDE DEF z
<1>6. Owners(trans', aborting')
  <2>1. Owner(trans'[t], t \in aborting')
    BY <1>3, <1>5 DEF Owner
  <2>2. \A u \in Trans \ {t} : trans'[u] = trans[u] /\ (u \in aborting' <=> u \in aborting)
    BY <1>3, <1>5
  <2>3. \A u \in Trans \ {t} : Owner(trans'[u], u \in aborting')
    BY <1>0, <2>2 DEF Good, Owners
  <2> QED
    BY <2>1, <2>3 DEF Owners
<1>7. Moved(trans, trans', {}) /\ AllSay(toServer' \ toServer, trans')
  <2>1. Move(trans[t], trans'[t], t, {})
    BY <1>1, <1>3, <1>5 DEF Move, Result
  <2>2. \A u \in Trans \ {t} : Move(trans[u], trans'[u], u, {})
    BY <1>3, <1>5 DEF Move
  <2> QED
    BY <1>3, <2>1, <2>2 DEF Moved, AllSay
<1>8. \A s \in ClientSlot : cslot[s].trans \in Trans
  BY <1>0 DEF Slot
<1>9. /\ \A u \in Trans \ {t} : trans'[u] = trans[u]
      /\ trans'[t].state = "Completed"
  BY <1>3, <1>5
<1>10. CASE /\ trans[t].state = "Pending"
            /\ \E k \in DOMAIN pending : pending[k] = t /\ pending' = Without(pending, k)
            /\ UNCHANGED cslot
  <2>1. PICK k \in DOMAIN pending : pending[k] = t /\ pending' = Without(pending, k)
    BY <1>10
  <2>2. \A i, j \in DOMAIN pending : pending[i] = pending[j] => i = j
    BY <1>0 DEF Good, Queue
  <2>3. /\ pending' \in Seq(Trans)
        /\ \A i, j \in DOMAIN pending' : pending'[i] = pending'[j] => i = j
        /\ \A u \in Trans : (\E i \in DOMAIN pending' : pending'[i] = u)
                              <=> u # t /\ \E i \in DOMAIN pending : pending[i] = u
    BY <1>0, <2>1, <2>2, WithoutOne
  <2>4. Queue(trans', pending')
    BY <1>0, <1>9, <2>3 DEF Good, Queue
  <2>5. Slots(trans', cslot')
    <3>1. \A s \in ClientSlot : cslot[s].active => cslot[s].trans # t
      BY <1>0, <1>10 DEF Good, Slots
    <3> QED
      BY <1>0, <1>8, <1>9, <1>10, <3>1 DEF Good, Slots
  <2> QED
    BY <1>0, <1>3, <1>5, <1>6, <1>7, <1>10, <2>3, <2>4, <2>5 DEF IInv, TypeOK, Good, Types
<1>11. CASE trans[t].state = "Active" /\ cslot' = Freed(cslot, trans[t].slot) /\ UNCHANGED pending
  <2>1. trans[t].slot \in ClientSlot
    BY <1>0 DEF TransExt
  <2>2. /\ cslot' \in [ClientSlot -> Slot] /\ ~cslot'[trans[t].slot].active
        /\ \A s \in ClientSlot \ {trans[t].slot} : cslot'[s] = cslot[s]
    BY <1>0, <1>11, <2>1 DEF Freed, Slot
  <2>3. Queue(trans', pending')
    BY <1>0, <1>9, <1>11 DEF Good, Queue
  <2>4. Slots(trans', cslot')
    <3>1. \A s \in ClientSlot \ {trans[t].slot} : cslot[s].active => cslot[s].trans # t
      BY <1>0 DEF Good, Slots
    <3>2. \A u \in Trans \ {t} : trans[u].state = "Active" => trans[u].slot # trans[t].slot
      BY <1>0, <1>11 DEF Good, Slots
    <3>3. \A u \in Trans : trans[u].slot \in ClientSlot
      BY <1>0 DEF TransExt
    <3> QED
      BY <1>0, <1>8, <1>9, <2>2, <3>1, <3>2, <3>3 DEF Good, Slots
  <2> QED
    BY <1>0, <1>3, <1>5, <1>6, <1>7, <1>11, <2>2, <2>3, <2>4 DEF IInv, TypeOK, Good, Types
<1>12. CASE trans[t].state = "Completed" /\ UNCHANGED <<cslot, pending>>
  <2>1. Queue(trans', pending')
    BY <1>0, <1>9, <1>12 DEF Good, Queue
  <2>2. Slots(trans', cslot')
    <3>1. \A s \in ClientSlot : cslot[s].active => cslot[s].trans # t
      BY <1>0, <1>12 DEF Good, Slots
    <3> QED
      BY <1>0, <1>8, <1>9, <1>12, <3>1 DEF Good, Slots
  <2> QED
    BY <1>0, <1>3, <1>5, <1>6, <1>7, <1>12, <2>1, <2>2 DEF IInv, TypeOK, Good, Types
<1> QED
  BY <1>10, <1>11, <1>12 DEF Abort

-----------------------------------------------------------------------------
LEMMA EndAndPump ==
  ASSUME IInv, NEW E, NEW ans, NEW tr, NEW cs, NEW msgs, msgs \subseteq Outbound,
         Ends(E, tr, cs, ans), Pump(tr, cs, pending, msgs), aborting' = aborting
  PROVE  /\ IInv' /\ Moved(trans, trans', ans)
         /\ AllSay(msgs, tr) => AllSay(toServer' \ toServer, trans')
<1>1. Good(tr, cs, pending, aborting) /\ Moved(trans, tr, ans)
  BY EndKeeps, Zenon DEF IInv
<1>2. toServer \subseteq Outbound /\ aborting \subseteq Trans
  BY DEF IInv, TypeOK, Outbound
<1>3. /\ Good(trans', cslot', pending', aborting) /\ toServer' \subseteq Outbound
      /\ Moved(tr, trans', {})
      /\ AllSay(msgs, tr) => AllSay(toServer' \ toServer, trans')
  BY <1>1, <1>2, PumpKeeps
<1> QED
  BY <1>1, <1>2, <1>3, MovedTwice DEF IInv, TypeOK, Good, Types, Outbound

\* What the invariant says of the transaction of a slot in use.
LEMMA ServedTrans ==
  ASSUME IInv, NEW s \in ClientSlot, cslot[s].active
  PROVE  /\ cslot[s].trans \in Trans /\ trans[cslot[s].trans] \in TransExt
         /\ trans[cslot[s].trans].state = "Active" /\ trans[cslot[s].trans].slot = s
         /\ Owner(trans[cslot[s].trans], cslot[s].trans \in aborting)
<1>1. cslot[s].trans \in Trans
  BY DEF IInv, TypeOK, Slot
<1> QED
  BY <1>1 DEF IInv, TypeOK, Good, Slots, Owners

\* A packet for no slot is answered with an ACK, and one that ends nothing
\* leaves the packets alone.
LEMMA PacketAnswered ==
  ASSUME IInv, NEW msgs \in SUBSET Outbound, NEW cs \in [ClientSlot -> Slot],
         \A s \in ClientSlot : cs[s].trans = cslot[s].trans /\ cs[s].active = cslot[s].active,
         Pump(trans, cs, pending, msgs), aborting' = aborting
  PROVE  /\ IInv' /\ Moved(trans, trans', {})
         /\ AllSay(msgs, trans) => AllSay(toServer' \ toServer, trans')
<1> DEFINE E == {}
<1>1. trans \in [Trans -> TransExt] /\ E \in SUBSET ClientSlot
  BY DEF IInv, TypeOK
<1>2. /\ \A s \in E : cslot[s].active
      /\ \A s \in ClientSlot : /\ cs[s].trans = cslot[s].trans
                               /\ cs[s].active <=> cslot[s].active /\ s \notin E
      /\ \A t \in Trans : IF \E s \in E : cslot[s].trans = t
                           THEN /\ trans[t].state = "Completed" /\ Owner(trans[t], t \in aborting)
                                /\ Move(trans[t], trans[t], t, {})
                           ELSE trans[t] = trans[t]
  BY DEF IInv, TypeOK, Slot
<1>3. Ends(E, trans, cs, {})
  BY <1>1, <1>2 DEF Ends
<1> HIDE DEF E
<1> QED
  BY <1>3, EndAndPump, Zenon

\* No packet is for no slot while its transaction is served.
LEMMA AnsweredWhenOver ==
  ASSUME IInv, NEW pk \in InboundPacket, Found(pk) = {}, Told(pk)
  PROVE  AllSay({Control("ACK", pk.tid, pk.cslot, pk.sslot)}, trans)
<1>1. pk.tid \in Trans /\ pk.cslot \in ClientSlot
  BY DEF InboundPacket, AnswerPacket, ReplyPacket
<1>2. trans[pk.tid].state # "Active"
  <2>1. ~(cslot[pk.cslot].active /\ cslot[pk.cslot].trans = pk.tid)
    BY <1>1 DEF Found
  <2> QED
    BY <1>1, <2>1 DEF IInv, Good, Slots, Told
<1> QED
  BY <1>2 DEF AllSay, Says, Control, Told

LEMMA MovedMore ==
  ASSUME Moved(trans, trans', {}), NEW ans
  PROVE  Moved(trans, trans', ans)
BY DEF Moved, Move

\* RET and CANCEL.
LEMMA EndPacketKeeps ==
  ASSUME IInv, NEW pk \in InboundPacket, InboundEnd(pk), aborting' = aborting
  PROVE  /\ IInv' /\ Moved(trans, trans', AnswerIn(pk))
         /\ Told(pk) => AllSay(toServer' \ toServer, trans')
<1>0. /\ trans \in [Trans -> TransExt] /\ cslot \in [ClientSlot -> Slot] /\ pending \in Seq(Trans)
      /\ pk.tid \in Trans /\ pk.cslot \in ClientSlot /\ pk.sslot \in ServerSlot
      /\ pk.type = "RET" => pk.ans \in Answer
  BY DEF IInv, TypeOK, InboundPacket, AnswerPacket, ReplyPacket
<1>1. CASE \E s \in Found(pk) :
             Pump([trans EXCEPT ![cslot[s].trans] = IF pk.type = "RET" THEN CompleteInfo(@, pk.ans)
                                                    ELSE CompleteError(@, "Cancelled")],
                  [Freed(cslot, s) EXCEPT ![s].sslot = pk.sslot],
                  pending, {Control("ACK", cslot[s].trans, s, pk.sslot)})
  <2>1. PICK s \in Found(pk) :
             Pump([trans EXCEPT ![cslot[s].trans] = IF pk.type = "RET" THEN CompleteInfo(@, pk.ans)
                                                    ELSE CompleteError(@, "Cancelled")],
                  [Freed(cslot, s) EXCEPT ![s].sslot = pk.sslot],
                  pending, {Control("ACK", cslot[s].trans, s, pk.sslot)})
    BY <1>1
  <2> DEFINE t  == cslot[s].trans
             x  == IF pk.type = "RET" THEN CompleteInfo(trans[t], pk.ans)
                   ELSE CompleteError(trans[t], "Cancelled")
             tr == [trans EXCEPT ![t] = x]
             fr == Freed(cslot, s)
             cs == [fr EXCEPT ![s].sslot = pk.sslot]
  <2>2. s \in ClientSlot /\ cslot[s].active /\ t = pk.tid
    BY DEF Found
  <2>3. /\ t \in Trans /\ trans[t] \in TransExt /\ trans[t].state = "Active" /\ trans[t].slot = s
        /\ Owner(trans[t], t \in aborting)
    BY <2>2, ServedTrans
  <2>4. /\ x \in TransExt /\ x.state = "Completed" /\ Owner(x, t \in aborting)
        /\ Move(trans[t], x, t, AnswerIn(pk))
    <3>1. (t \in aborting) \in BOOLEAN /\ trans[t].state \in {"Pending", "Active"}
      BY <2>3
    <3>2. CASE pk.type = "RET"
      <4>1. AnswerIn(pk) = {<<t, pk.ans>>} /\ x = CompleteInfo(trans[t], pk.ans)
        BY <2>2, <3>2 DEF AnswerIn
      <4> HIDE DEF x, t
      <4> QED
        BY <1>0, <2>3, <3>1, <3>2, <4>1, InfoCompletes
    <3>3. CASE pk.type # "RET"
      <4>1. "Cancelled" \in Result \ {"Initial", "Ok"} /\ x = CompleteError(trans[t], "Cancelled")
        BY <3>3 DEF Result
      <4> HIDE DEF x, t
      <4> QED
        BY <2>3, <3>1, <3>3, <4>1, ErrorCompletes
    <3> QED
      BY <3>2, <3>3
  <2>5. Pump(tr, cs, pending, {Control("ACK", t, s, pk.sslot)})
    BY <2>1
  <2> HIDE DEF x
  <2>6. tr \in [Trans -> TransExt] /\ tr[t] = x /\ \A u \in Trans \ {t} : tr[u] = trans[u]
    BY <1>0, <2>3, <2>4
  <2>7. /\ fr \in [ClientSlot -> Slot] /\ ~fr[s].active /\ fr[s].trans = t
        /\ \A i \in ClientSlot \ {s} : fr[i] = cslot[i]
    BY <1>0, <2>2 DEF Freed, Slot
  <2> HIDE DEF fr
  <2>8. /\ cs \in [ClientSlot -> Slot] /\ ~cs[s].active /\ cs[s].trans = t
        /\ \A i \in ClientSlot \ {s} : cs[i] = cslot[i]
    <3> DEFINE y == [fr[s] EXCEPT !.sslot = pk.sslot]
    <3>1. fr[s] \in Slot /\ pk.sslot \in ServerSlot
      BY <1>0, <2>2, <2>7
    <3>2. y \in Slot /\ y.active = fr[s].active /\ y.trans = fr[s].trans
      BY <3>1 DEF Slot
    <3>3. cs = [fr EXCEPT ![s] = y]
      OBVIOUS
    <3> HIDE DEF y, cs
    <3> QED
      BY <2>2, <2>7, <3>2, <3>3
  <2>9. {Control("ACK", t, s, pk.sslot)} \in SUBSET Outbound
    BY <1>0, <2>2, <2>3 DEF Control, Outbound, ControlPacket
  <2> HIDE DEF tr, cs
  <2> DEFINE E == {s}
  <2>10. E \in SUBSET ClientSlot /\ \A i \in E : cslot[i].active
    BY <2>2
  <2>11. \A i \in ClientSlot : cs[i].trans = cslot[i].trans
                               /\ (cs[i].active <=> cslot[i].active /\ i \notin E)
    BY <2>8
  <2>12. \A u \in Trans : IF \E i \in E : cslot[i].trans = u
                          THEN /\ tr[u].state = "Completed" /\ Owner(tr[u], u \in aborting)
                               /\ Move(trans[u], tr[u], u, AnswerIn(pk))
                          ELSE tr[u] = trans[u]
    BY <2>4, <2>6
  <2>13. AllSay({Control("ACK", t, s, pk.sslot)}, tr)
    BY <2>3, <2>4, <2>6 DEF AllSay, Says, Control, Move
  <2> HIDE DEF E
  <2>14. Ends(E, tr, cs, AnswerIn(pk))
    BY <2>6, <2>8, <2>10, <2>11, <2>12 DEF Ends
  <2>15. {Control("ACK", t, s, pk.sslot)} \subseteq Outbound
    BY <2>9
  <2> QED
    BY <2>5, <2>13, <2>14, <2>15, EndAndPump, Zenon
<1>2. CASE Found(pk) = {} /\ Pump(trans, cslot, pending, {Control("ACK", pk.tid, pk.cslot, pk.sslot)})
  <2>1. {Control("ACK", pk.tid, pk.cslot, pk.sslot)} \in SUBSET Outbound
    BY <1>0 DEF Control, Outbound, ControlPacket
  <2> QED
    BY <1>0, <1>2, <2>1, PacketAnswered, AnsweredWhenOver, MovedMore
<1> QED
  BY <1>1, <1>2 DEF InboundEnd

\* NOINFO and RERET.
LEMMA AskPacketKeeps ==
  ASSUME IInv, NEW pk \in InboundPacket, InboundAsk(pk), aborting' = aborting
  PROVE  /\ IInv' /\ Moved(trans, trans', AnswerIn(pk))
         /\ Told(pk) => AllSay(toServer' \ toServer, trans')
<1>0. /\ trans \in [Trans -> TransExt] /\ cslot \in [ClientSlot -> Slot] /\ pending \in Seq(Trans)
      /\ pk.tid \in Trans /\ pk.cslot \in ClientSlot /\ pk.sslot \in ServerSlot
  BY DEF IInv, TypeOK, InboundPacket, AnswerPacket, ReplyPacket
<1>1. ASSUME NEW s \in Found(pk),
             Pump(trans,
                  [cslot EXCEPT ![s].sslot = pk.sslot, ![s].no_info = @ \/ pk.type = "NOINFO"],
                  pending,
                  IF pk.type = "RERET" THEN {Control("SENDRET", cslot[s].trans, s, pk.sslot)} ELSE {})
      PROVE  /\ IInv' /\ Moved(trans, trans', AnswerIn(pk))
             /\ Told(pk) => AllSay(toServer' \ toServer, trans')
  <2> DEFINE x    == [cslot EXCEPT ![s].sslot = pk.sslot]
             cs   == [x EXCEPT ![s].no_info = cslot[s].no_info \/ pk.type = "NOINFO"]
             msgs == IF pk.type = "RERET" THEN {Control("SENDRET", cslot[s].trans, s, pk.sslot)} ELSE {}
  <2>1. s \in ClientSlot /\ cslot[s].active
    BY DEF Found
  <2>2. Pump(trans, cs, pending, msgs)
    BY <1>1, Zenon
  <2>3. msgs \in SUBSET Outbound
    BY <1>0, <2>1 DEF Control, Outbound, ControlPacket, Slot
  <2>4. /\ x \in [ClientSlot -> Slot]
        /\ \A i \in ClientSlot : x[i].trans = cslot[i].trans /\ x[i].active = cslot[i].active
    BY <1>0, <2>1 DEF Slot
  <2> HIDE DEF x
  <2>5. /\ cs \in [ClientSlot -> Slot]
        /\ \A i \in ClientSlot : cs[i].trans = cslot[i].trans /\ cs[i].active = cslot[i].active
    <3>1. (cslot[s].no_info \/ pk.type = "NOINFO") \in BOOLEAN
      OBVIOUS
    <3> QED
      BY <2>1, <2>4, <3>1 DEF Slot
  <2>6. AllSay(msgs, trans)
    BY <2>1, ServedTrans DEF AllSay, Says, Control
  <2> HIDE DEF cs, msgs
  <2> QED
    BY <2>2, <2>3, <2>5, <2>6, PacketAnswered, MovedMore
<1>2. CASE Found(pk) = {} /\ Pump(trans, cslot, pending, {Control("ACK", pk.tid, pk.cslot, pk.sslot)})
  <2>1. {Control("ACK", pk.tid, pk.cslot, pk.sslot)} \in SUBSET Outbound
    BY <1>0 DEF Control, Outbound, ControlPacket
  <2> QED
    BY <1>0, <1>2, <2>1, PacketAnswered, AnsweredWhenOver, MovedMore
<1> QED
  BY <1>1, <1>2 DEF InboundAsk

\* The slots whose ticks run out repeat their request or end.
LEMMA TickKeeps ==
  ASSUME IInv, NEW exp \in SUBSET ClientSlot, Tick(exp)
  PROVE  IInv' /\ Moved(trans, trans', {}) /\ AllSay(toServer' \ toServer, trans')
<1> DEFINE again == {s \in exp : cslot[s].retry > 0}
           E     == exp \ again
           tr    == [t \in Trans |-> IF \E s \in E : cslot[s].trans = t
                                    THEN CompleteError(trans[t], "Timeout") ELSE trans[t]]
           cs    == [s \in ClientSlot |-> IF s \in again THEN [cslot[s] EXCEPT !.retry = @ - 1]
                                         ELSE IF s \in E THEN [cslot[s] EXCEPT !.active = FALSE]
                                         ELSE cslot[s]]
           msgs  == {Retry(s) : s \in again}
<1>0. trans \in [Trans -> TransExt] /\ cslot \in [ClientSlot -> Slot]
  BY DEF IInv, TypeOK
<1>1. (\A s \in exp : cslot[s].active) /\ aborting' = aborting /\ Pump(tr, cs, pending, msgs)
  BY Zenon DEF Tick
<1>2. \A s \in ClientSlot : cs[s] = IF s \in again THEN [cslot[s] EXCEPT !.retry = @ - 1]
                                    ELSE IF s \in E THEN [cslot[s] EXCEPT !.active = FALSE]
                                    ELSE cslot[s]
  OBVIOUS
<1>3. ASSUME NEW t \in Trans, \E s \in E : cslot[s].trans = t
      PROVE  /\ tr[t] \in TransExt /\ tr[t].state = "Completed" /\ Owner(tr[t], t \in aborting)
             /\ Move(trans[t], tr[t], t, {})
  <2>1. PICK s \in E : cslot[s].trans = t
    BY <1>3
  <2>2. trans[t] \in TransExt /\ trans[t].state = "Active" /\ Owner(trans[t], t \in aborting)
    BY <1>1, <2>1, ServedTrans
  <2>3. tr[t] = CompleteError(trans[t], "Timeout")
    BY <1>3
  <2>4. "Timeout" \in Result \ {"Initial", "Ok"} /\ (t \in aborting) \in BOOLEAN
    BY DEF Result
  <2> QED
    BY <2>2, <2>3, <2>4, ErrorCompletes
<1>4. \A t \in Trans : ~(\E s \in E : cslot[s].trans = t) => tr[t] = trans[t]
  OBVIOUS
<1>5. tr \in [Trans -> TransExt]
  <2>1. \A t \in Trans : tr[t] \in TransExt
    BY <1>0, <1>3, <1>4
  <2> HIDE DEF E
  <2> QED
    BY <2>1
<1>6. ASSUME NEW s \in ClientSlot
      PROVE  /\ cs[s] \in Slot /\ cs[s].trans = cslot[s].trans
             /\ cs[s].active <=> cslot[s].active /\ s \notin E
  <2>1. cslot[s] \in Slot
    BY <1>0
  <2>2. CASE s \in again
    <3>1. cs[s] = [cslot[s] EXCEPT !.retry = @ - 1] /\ cslot[s].retry > 0 /\ s \notin E
      BY <1>2, <2>2
    <3> QED
      BY <2>1, <3>1, ClientAssumption DEF Slot
  <2>3. CASE s \in E
    <3>1. cs[s] = [cslot[s] EXCEPT !.active = FALSE]
      BY <1>2, <2>3
    <3> QED
      BY <2>1, <2>3, <3>1 DEF Slot
  <2>4. CASE s \notin again /\ s \notin E
    BY <1>2, <2>1, <2>4
  <2> QED
    BY <2>2, <2>3, <2>4
<1>7. cs \in [ClientSlot -> Slot]
  <2>1. \A s \in ClientSlot : cs[s] \in Slot
    BY <1>6
  <2> HIDE DEF E, again
  <2> QED
    BY <2>1
<1>8. msgs \in SUBSET Outbound
  <2>1. ASSUME NEW s \in again PROVE Retry(s) \in Outbound
    <3>1. s \in ClientSlot /\ cslot[s] \in Slot
      BY <1>0
    <3> QED
      BY <3>1 DEF Retry, Control, CallFrom, Outbound, ControlPacket, CallPacket, Slot
  <2> QED
    BY <2>1
<1>9. E \in SUBSET ClientSlot /\ \A s \in E : cslot[s].active
  BY <1>1
<1>10. AllSay(msgs, tr)
  <2> SUFFICES ASSUME NEW s \in again
               PROVE  Says(Retry(s), tr)
    BY DEF AllSay
  <2>1. /\ cslot[s].trans \in Trans /\ trans[cslot[s].trans].state = "Active"
        /\ trans[cslot[s].trans].slot = s
    BY <1>1, ServedTrans
  <2>2. \A e \in E : cslot[e].trans # cslot[s].trans
    BY <1>1, <2>1, ServedTrans
  <2>3. tr[cslot[s].trans] = trans[cslot[s].trans]
    BY <1>4, <2>1, <2>2
  <2> HIDE DEF tr
  <2> QED
    BY <2>1, <2>3 DEF Says, Retry, Control, CallFrom
<1> HIDE DEF again, E, tr, cs, msgs
<1>11. \A t \in Trans : IF \E s \in E : cslot[s].trans = t
                        THEN /\ tr[t].state = "Completed" /\ Owner(tr[t], t \in aborting)
                             /\ Move(trans[t], tr[t], t, {})
                        ELSE tr[t] = trans[t]
  BY <1>3, <1>4
<1>12. Ends(E, tr, cs, {}) /\ msgs \subseteq Outbound
  BY <1>5, <1>6, <1>7, <1>8, <1>9, <1>11 DEF Ends
<1> QED
  BY <1>1, <1>10, <1>12, EndAndPump, Zenon

\* abortAll() completes what waits and what is served, and frees every slot.
LEMMA AbortAllKeeps ==
  ASSUME IInv, AbortAll
  PROVE  IInv' /\ Moved(trans, trans', {}) /\ AllSay(toServer' \ toServer, trans')
<1>0. /\ trans \in [Trans -> TransExt] /\ cslot \in [ClientSlot -> Slot]
      /\ Good(trans, cslot, pending, aborting)
  BY DEF IInv, TypeOK
<1>1. /\ trans' = [t \in Trans |-> IF trans[t].state \in {"Pending", "Active"}
                                   THEN CompleteError(trans[t], "Aborted") ELSE trans[t]]
      /\ cslot' = [s \in ClientSlot |-> [cslot[s] EXCEPT !.active = FALSE]]
      /\ pending' = << >> /\ aborting' = aborting /\ toServer' = toServer
  BY DEF AbortAll
<1>2. ASSUME NEW t \in Trans
      PROVE  /\ trans'[t] \in TransExt /\ trans'[t].state \in {"New", "Completed"}
             /\ Owner(trans'[t], t \in aborting)
             /\ Move(trans[t], trans'[t], t, {})
  <2>1. trans[t] \in TransExt /\ Owner(trans[t], t \in aborting)
    BY <1>0 DEF Good, Owners
  <2>2. CASE trans[t].state \in {"Pending", "Active"}
    <3>1. "Aborted" \in Result \ {"Initial", "Ok"} /\ (t \in aborting) \in BOOLEAN
      BY DEF Result
    <3>2. trans'[t] = CompleteError(trans[t], "Aborted")
      BY <1>1, <2>2
    <3>3. /\ CompleteError(trans[t], "Aborted") \in TransExt
          /\ Owner(CompleteError(trans[t], "Aborted"), t \in aborting)
          /\ CompleteError(trans[t], "Aborted").state = "Completed"
          /\ Move(trans[t], CompleteError(trans[t], "Aborted"), t, {})
      BY <2>1, <2>2, <3>1, ErrorCompletes
    <3> QED
      BY <3>2, <3>3
  <2>3. CASE trans[t].state \notin {"Pending", "Active"}
    <3>1. trans'[t] = trans[t]
      BY <1>1, <2>3
    <3> QED
      BY <2>1, <2>3, <3>1 DEF TransExt, Move
  <2> QED
    BY <2>2, <2>3
<1>3. trans' \in [Trans -> TransExt]
  <2>1. trans' = [t \in Trans |-> trans'[t]]
    BY <1>1
  <2> QED
    BY <1>2, <2>1
<1>4. cslot' \in [ClientSlot -> Slot] /\ \A s \in ClientSlot : ~cslot'[s].active
  BY <1>0, <1>1 DEF Slot
<1>5. pending' \in Seq(Trans) /\ DOMAIN pending' = {}
  BY <1>1
<1>6. Slots(trans', cslot') /\ Queue(trans', pending') /\ Owners(trans', aborting')
  BY <1>1, <1>2, <1>4, <1>5 DEF Slots, Queue, Owners
<1>7. Moved(trans, trans', {}) /\ AllSay(toServer' \ toServer, trans')
  BY <1>1, <1>2 DEF Moved, AllSay
<1> QED
  BY <1>1, <1>2, <1>3, <1>4, <1>5, <1>6, <1>7 DEF IInv, TypeOK, Good, Types

-----------------------------------------------------------------------------
\* What the user, a canceller and the device's timer do ...
LEMMA OwnKeeps ==
  ASSUME IInv, Own
  PROVE  IInv' /\ Moved(trans, trans', {}) /\ AllSay(toServer' \ toServer, trans')
<1>1. CASE \E t \in Trans : Start(t)
  BY <1>1, StartKeeps
<1>2. CASE \E t \in Trans : Cancel(t)
  BY <1>2, CancelKeeps
<1>3. CASE \E t \in Trans : Abort(t)
  BY <1>3, AbortKeeps
<1>4. CASE \E exp \in SUBSET ClientSlot : Tick(exp)
  BY <1>4, TickKeeps
<1>5. CASE AbortAll
  BY <1>5, AbortAllKeeps
<1> QED
  BY <1>1, <1>2, <1>3, <1>4, <1>5 DEF Own

\* ... and what a packet does.
LEMMA InboundKeeps ==
  ASSUME IInv, NEW pk \in InboundPacket, Inbound(pk)
  PROVE  /\ IInv' /\ Moved(trans, trans', AnswerIn(pk))
         /\ Told(pk) => AllSay(toServer' \ toServer, trans')
BY EndPacketKeeps, AskPacketKeeps DEF Inbound

LEMMA StepKeeps ==
  ASSUME IInv, [Next]_vars
  PROVE  IInv' /\ \E ans : Moved(trans, trans', ans)
<1>1. CASE Own
  BY <1>1, OwnKeeps
<1>2. CASE \E pk \in InboundPacket : Inbound(pk)
  BY <1>2, InboundKeeps
<1>3. CASE UNCHANGED vars
  <2>1. Moved(trans, trans', {})
    BY <1>3 DEF vars, Moved, Move
  <2> QED
    BY <1>3, <2>1 DEF vars, IInv, Good, Types, Slots, Queue, Owners, TypeOK
<1> QED
  BY <1>1, <1>2, <1>3 DEF Next

\* The inductive invariant holds in every state, and it says what TransMatch says.
LEMMA InvMatches == IInv => TransMatch
<1> SUFFICES ASSUME IInv PROVE TransMatch
  OBVIOUS
<1>1. SlotsMatch
  BY DEF IInv, Good, Slots, Queue, SlotsMatch
<1>2. CompletedByOne
  BY DEF IInv, TypeOK, TransExt, Good, Owners, Owner, CompletedByOne
<1> QED
  BY <1>1, <1>2 DEF TransMatch

\* A slot and the transaction it serves name each other, the list holds what
\* waits, once, and a packet is completed by the engine or by its canceller.
THEOREM SlotsAndOwners == Spec => []TransMatch
<1>1. IInv /\ [Next]_vars => IInv'
  BY StepKeeps
<1> QED
  BY <1>1, InitGood, InvMatches, PTL DEF Spec

\* The result that a transaction was given back with stays.
THEOREM ResultStays == Spec => ResultIsFinal
<1> DEFINE Stays == \A t \in Trans : trans[t].completed = 1 =>
                      trans'[t].completed = 1 /\ trans'[t].result = trans[t].result /\ trans'[t].ans = trans[t].ans
<1>1. IInv /\ [Next]_vars => IInv'
  BY StepKeeps
<1>2. IInv /\ [Next]_vars => [Stays]_vars
  <2> SUFFICES ASSUME IInv, [Next]_vars, NEW t \in Trans, trans[t].completed = 1
               PROVE  trans'[t].completed = 1 /\ trans'[t].result = trans[t].result
                        /\ trans'[t].ans = trans[t].ans
    OBVIOUS
  <2>1. PICK ans : Move(trans[t], trans'[t], t, ans)
    BY StepKeeps DEF Moved
  <2>2. trans[t].state = "Completed"
    BY InvMatches DEF TransMatch, CompletedByOne
  <2> QED
    BY <2>1, <2>2 DEF Move
<1>3. ResultIsFinal <=> [][Stays]_vars
  BY Zenon DEF ResultIsFinal
<1> QED
  BY <1>1, <1>2, <1>3, InitGood, PTL DEF Spec

-----------------------------------------------------------------------------
\* The remainders of the division by d.
LEMMA ModMultiple ==
  ASSUME NEW d \in Nat \ {0}, NEW a \in Int, NEW q \in Int
  PROVE  (a + d * q) % d = a % d
<1>1. a \div d \in Int /\ a % d \in 0..(d - 1) /\ a = d * (a \div d) + (a % d)
  BY Division
<1>2. a + d * q = d * ((a \div d) + q) + (a % d)
  BY <1>1
<1>3. d * q \in Int /\ a + d * q \in Int /\ (a \div d) + q \in Int
  BY <1>1
<1> QED
  BY <1>1, <1>2, <1>3, DivisionUnique

LEMMA ModNext ==
  ASSUME NEW d \in Nat \ {0}, NEW a \in Int
  PROVE  (a + d) % d = a % d
<1>1. PICK q \in Int : q = 1
  OBVIOUS
<1>2. (a + d * q) % d = a % d
  BY ModMultiple
<1>3. a + d * q = a + d
  BY <1>1
<1> QED
  BY <1>2, <1>3

LEMMA ModOwn ==
  ASSUME NEW d \in Nat \ {0}, NEW r \in 0..(d - 1)
  PROVE  r % d = r
BY DivisionUnique

\* A remainder stands for its number in sums and differences.
LEMMA ModAdd ==
  ASSUME NEW d \in Nat \ {0}, NEW a \in Int, NEW b \in Int
  PROVE  /\ (a % d) \in 0..(d - 1)
         /\ ((a % d) + b) % d = (a + b) % d
         /\ (b - (a % d)) % d = (b - a) % d
<1>1. a \div d \in Int /\ a % d \in 0..(d - 1) /\ a = d * (a \div d) + (a % d)
  BY Division
<1> DEFINE q == a \div d
           r == a % d
<1> HIDE DEF q, r
<1>2. q \in Int /\ r \in 0..(d - 1) /\ a = d * q + r /\ r = a % d
  BY <1>1 DEF q, r
<1> DEFINE x == r + b
           y == b - a
<1>3. x \in Int /\ y \in Int /\ x + d * q = a + b /\ y + d * q = b - r
  BY <1>2
<1> HIDE DEF x, y
<1>4. (x + d * q) % d = x % d /\ (y + d * q) % d = y % d
  BY <1>2, <1>3, ModMultiple
<1>5. x % d = (a + b) % d /\ (b - r) % d = y % d
  BY <1>3, <1>4
<1> QED
  BY <1>2, <1>5 DEF x, y

\* d numbers in a row have different remainders.
LEMMA ModApart ==
  ASSUME NEW d \in Nat \ {0}, NEW a \in Int, NEW b \in Int, a % d = b % d, a - b < d, b - a < d
  PROVE  a = b
<1>1. /\ a \div d \in Int /\ a = d * (a \div d) + (a % d) /\ a % d \in 0..(d - 1)
      /\ b \div d \in Int /\ b = d * (b \div d) + (b % d)
  BY Division
<1>2. ~ (a \div d >= (b \div d) + 1)
  BY <1>1, Multiples
<1>3. ~ (b \div d >= (a \div d) + 1)
  BY <1>1, Multiples
<1>4. a \div d = b \div d
  BY <1>1, <1>2, <1>3
<1> QED
  BY <1>1, <1>4

-----------------------------------------------------------------------------
\* PTPConWrite with B frames: what W and the writer of C have in common.
NoText == [ok |-> FALSE, write_ticks |-> 0, number |-> 0]
TextOf(number) == [ok |-> TRUE, write_ticks |-> write_ticks, number |-> number]

PlaceIn(B, w, n) == (w.ind + n - 1) % B
FrameIn(B, w, n) == w.buf[PlaceIn(B, w, n)]
WaitsIn(B, w, n) == n \in 1..B /\ FrameIn(B, w, n).ok

ReachIn(B, w, d) == CHOOSE n \in {n \in d..(B + 1) : ~WaitsIn(B, w, n)} :
                      \A m \in {m \in d..(B + 1) : ~WaitsIn(B, w, m)} : n <= m

ReadyIn(B, w, n) == {k \in 1..n : WaitsIn(B, w, k)}
NthOf(S, i) == CHOOSE k \in S : Cardinality({j \in S : j <= k}) = i

TextsIn(B, w, n) == [i \in 1..Cardinality(ReadyIn(B, w, n)) |-> FrameIn(B, w, NthOf(ReadyIn(B, w, n), i)).number]

PrintedIn(B, w, n) ==
  [w EXCEPT !.buf = [i \in DOMAIN @ |-> IF \E k \in 1..n : PlaceIn(B, w, k) = i THEN NoText ELSE @[i]],
            !.printed = @ \o TextsIn(B, w, n)]

SkipIn(B, w, d) ==
  [PrintedIn(B, w, ReachIn(B, w, d)) EXCEPT !.next_number = (@ + ReachIn(B, w, d)) % NumMod,
                                            !.ind = (@ + ReachIn(B, w, d)) % B]

FaultOf(w) == [w EXCEPT !.ok = FALSE]

SetIn(B, w, n, number) == IF WaitsIn(B, w, n) THEN FaultOf(w)
                          ELSE [w EXCEPT !.buf[PlaceIn(B, w, n)] = TextOf(number)]

WriteIn(B, w, n, number) == IF n = 0 THEN SkipIn(B, [w EXCEPT !.printed = Append(@, number)], 1)
                            ELSE SetIn(B, w, n, number)

FarIn(B, w, number) == FaultOf(SetIn(B, [PrintedIn(B, w, B) EXCEPT !.next_number = (number - B) % NumMod, !.ind = 0],
                                     B, number))

PassIn(B, w, n, number) ==
  FaultOf(WriteIn(B, SkipIn(B, w, n - B), (number - SkipIn(B, w, n - B).next_number) % NumMod, number))

\* The operators of the two writers are those with B frames.
LEMMA SamePlace ==
  /\ \A w, n : /\ W!Place(w, n) = PlaceIn(WriterFrames, w, n) /\ W!FrameOf(w, n) = FrameIn(WriterFrames, w, n)
               /\ W!Waits(w, n) = WaitsIn(WriterFrames, w, n)
  /\ \A w, n : /\ C!Con!Place(w, n) = PlaceIn(ConFrames, w, n) /\ C!Con!FrameOf(w, n) = FrameIn(ConFrames, w, n)
               /\ C!Con!Waits(w, n) = WaitsIn(ConFrames, w, n)
BY DEF W!Place, W!FrameOf, W!Waits, C!Con!Place, C!Con!FrameOf, C!Con!Waits, PlaceIn, FrameIn, WaitsIn

LEMMA SamePrinted ==
  /\ \A w, n : W!Printed(w, n) = PrintedIn(WriterFrames, w, n)
  /\ \A w, n : C!Con!Printed(w, n) = PrintedIn(ConFrames, w, n)
BY DEF W!Place, W!FrameOf, W!Waits, C!Con!Place, C!Con!FrameOf, C!Con!Waits, PlaceIn, FrameIn, WaitsIn,
   W!Printed, C!Con!Printed, PrintedIn, TextsIn, W!Ready, C!Con!Ready, ReadyIn, W!Nth, C!Con!Nth, NthOf,
   W!Empty, C!Con!Empty, NoText, Cardinality, W!Cardinality, C!Con!Cardinality

\* The m numbers after a.
RunOf(a, m) == [i \in 1..m |-> (a + i) % NumMod]

\* From p on, v has printed the numbers from a on, and the next one is r after a.
Runs(a, v, r, p) == v.next_number = (a + r) % NumMod /\ v.printed = p \o RunOf(a, r - 1)

LateIn(B, w) == {n \in 1..B : WaitsIn(B, w, n) /\ FrameIn(B, w, n).write_ticks = 0}

Aged(f) == IF f.ok THEN [f EXCEPT !.write_ticks = @ - 1] ELSE f
AgedAll(buf) == [i \in DOMAIN buf |-> Aged(buf[i])]
Ages(w) == [w EXCEPT !.buf = AgedAll(@)]

GreatestOf(S) == CHOOSE x \in S : \A y \in S : x >= y

LEMMA SameSkip ==
  /\ \A w, d : W!Reach(w, d) = ReachIn(WriterFrames, w, d) /\ W!Skip(w, d) = SkipIn(WriterFrames, w, d)
  /\ \A w, d : C!Con!Reach(w, d) = ReachIn(ConFrames, w, d) /\ C!Con!Skip(w, d) = SkipIn(ConFrames, w, d)
<1>1. \A w, d : W!Reach(w, d) = ReachIn(WriterFrames, w, d)
  BY DEF W!Place, W!FrameOf, W!Waits, PlaceIn, FrameIn, WaitsIn, W!Reach, W!Min, ReachIn
<1>2. \A w, d : C!Con!Reach(w, d) = ReachIn(ConFrames, w, d)
  BY DEF C!Con!Place, C!Con!FrameOf, C!Con!Waits, PlaceIn, FrameIn, WaitsIn, C!Con!Reach, C!Con!Min, ReachIn
<1> QED
  BY <1>1, <1>2, SamePrinted DEF W!Skip, C!Con!Skip, SkipIn

LEMMA SameWrite ==
  /\ \A w, n, number : /\ W!set(w, n, number) = SetIn(WriterFrames, w, n, number)
                       /\ W!write(w, n, number) = WriteIn(WriterFrames, w, n, number)
  /\ \A w, n, number : /\ C!Con!set(w, n, number) = SetIn(ConFrames, w, n, number)
                       /\ C!Con!write(w, n, number) = WriteIn(ConFrames, w, n, number)
<1>1. \A w, n, number : W!set(w, n, number) = SetIn(WriterFrames, w, n, number)
  BY SamePlace DEF W!set, SetIn, W!Full, TextOf, FaultOf
<1>2. \A w, n, number : C!Con!set(w, n, number) = SetIn(ConFrames, w, n, number)
  BY SamePlace DEF C!Con!set, SetIn, C!Con!Full, TextOf, FaultOf
<1> QED
  BY <1>1, <1>2, SameSkip DEF W!write, C!Con!write, WriteIn

\* What operator() makes of w in each of its cases, n being how far the number
\* is past next_number.
Writes(B, w, number, v) ==
  LET n == (number - w.next_number) % NumMod IN
  \/ n >= NumMod \div 2 /\ v = FaultOf(w)
  \/ n < NumMod \div 2 /\ n >= 2 * B /\ v = FarIn(B, w, number)
  \/ n \in (B + 1)..(2 * B - 1) /\ v = PassIn(B, w, n, number)
  \/ n \in 0..B /\ v = WriteIn(B, w, n, number)

Ticks(B, w, v) == IF LateIn(B, w) = {} THEN v = Ages(w)
                  ELSE v = Ages(FaultOf(SkipIn(B, w, GreatestOf(LateIn(B, w)))))

\* What the numbers of the console may be.
LEMMA SizesOfConsole ==
  /\ NumMod \in Nat \ {0} /\ write_ticks \in Nat
  /\ WriterFrames \in Nat \ {0} /\ 4 * WriterFrames <= NumMod
  /\ ConFrames \in Nat \ {0} /\ 4 * ConFrames <= NumMod
BY ConsoleAssumption

\* What operator() makes of a writer is a case of Writes, and tick() one of Ticks.
LEMMA SameWritten ==
  /\ \A w, number : (number - w.next_number) % NumMod \in Nat => Writes(WriterFrames, w, number, W!Written(w, number))
  /\ \A w, number : (number - w.next_number) % NumMod \in Nat => Writes(ConFrames, w, number, C!Con!Written(w, number))
<1>1. ASSUME NEW w, NEW number, (number - w.next_number) % NumMod \in Nat
      PROVE  Writes(WriterFrames, w, number, W!Written(w, number))
  <2> DEFINE n == (number - w.next_number) % NumMod
             h == NumMod \div 2
             a == FaultOf(w)
             b == FarIn(WriterFrames, w, number)
             c == PassIn(WriterFrames, w, n, number)
             d == WriteIn(WriterFrames, w, n, number)
             v == W!Written(w, number)
  <2>1. v = CASE n >= h -> a
              [] n < h /\ n >= 2 * WriterFrames -> b
              [] n < 2 * WriterFrames /\ n > WriterFrames -> c
              [] n <= WriterFrames -> d
    BY SamePrinted, SameSkip, SameWrite DEF W!Written, W!Fault, FaultOf, FarIn, PassIn
  <2>2. n \in Nat /\ h \in Nat /\ 2 * WriterFrames <= h
    BY <1>1, SizesOfConsole
  <2> HIDE DEF n, h, a, b, c, d, v
  <2>3. \/ n >= h /\ v = a
        \/ n < h /\ n >= 2 * WriterFrames /\ v = b
        \/ n \in (WriterFrames + 1)..(2 * WriterFrames - 1) /\ v = c
        \/ n \in 0..WriterFrames /\ v = d
    BY <2>1, <2>2, SizesOfConsole
  <2> QED
    BY <2>3 DEF Writes, n, h, a, b, c, d, v
<1>2. ASSUME NEW w, NEW number, (number - w.next_number) % NumMod \in Nat
      PROVE  Writes(ConFrames, w, number, C!Con!Written(w, number))
  <2> DEFINE n == (number - w.next_number) % NumMod
             h == NumMod \div 2
             a == FaultOf(w)
             b == FarIn(ConFrames, w, number)
             c == PassIn(ConFrames, w, n, number)
             d == WriteIn(ConFrames, w, n, number)
             v == C!Con!Written(w, number)
  <2>1. v = CASE n >= h -> a
              [] n < h /\ n >= 2 * ConFrames -> b
              [] n < 2 * ConFrames /\ n > ConFrames -> c
              [] n <= ConFrames -> d
    BY SamePrinted, SameSkip, SameWrite DEF C!Con!Written, C!Con!Fault, FaultOf, FarIn, PassIn
  <2>2. n \in Nat /\ h \in Nat /\ 2 * ConFrames <= h
    BY <1>2, SizesOfConsole
  <2> HIDE DEF n, h, a, b, c, d, v
  <2>3. \/ n >= h /\ v = a
        \/ n < h /\ n >= 2 * ConFrames /\ v = b
        \/ n \in (ConFrames + 1)..(2 * ConFrames - 1) /\ v = c
        \/ n \in 0..ConFrames /\ v = d
    BY <2>1, <2>2, SizesOfConsole
  <2> QED
    BY <2>3 DEF Writes, n, h, a, b, c, d, v
<1> QED
  BY <1>1, <1>2

LEMMA SameTicked ==
  /\ \A w : Ticks(WriterFrames, w, W!Ticked(w))
  /\ \A w : Ticks(ConFrames, w, C!Con!Ticked(w))
<1>1. ASSUME NEW w PROVE Ticks(WriterFrames, w, W!Ticked(w))
  <2> DEFINE late == {n \in 1..WriterFrames : W!Waits(w, n) /\ W!FrameOf(w, n).write_ticks = 0}
             rest == IF late = {} THEN w ELSE W!Fault(W!Skip(w, W!Max(late)))
  <2>1. late = LateIn(WriterFrames, w)
    BY SamePlace DEF LateIn
  <2>2. W!Ticked(w) = Ages(rest)
    BY DEF W!Ticked, W!Aged, Ages, AgedAll, Aged
  <2> HIDE DEF late
  <2>3. W!Max(late) = GreatestOf(late)
    BY DEF W!Max, GreatestOf
  <2>4. rest = IF late = {} THEN w ELSE FaultOf(SkipIn(WriterFrames, w, GreatestOf(late)))
    BY <2>3, SameSkip DEF W!Fault, FaultOf
  <2> QED
    BY <2>1, <2>2, <2>4 DEF Ticks
<1>2. ASSUME NEW w PROVE Ticks(ConFrames, w, C!Con!Ticked(w))
  <2> DEFINE late == {n \in 1..ConFrames : C!Con!Waits(w, n) /\ C!Con!FrameOf(w, n).write_ticks = 0}
             rest == IF late = {} THEN w ELSE C!Con!Fault(C!Con!Skip(w, C!Con!Max(late)))
  <2>1. late = LateIn(ConFrames, w)
    BY SamePlace DEF LateIn
  <2>2. C!Con!Ticked(w) = Ages(rest)
    BY DEF C!Con!Ticked, C!Con!Aged, Ages, AgedAll, Aged
  <2> HIDE DEF late
  <2>3. C!Con!Max(late) = GreatestOf(late)
    BY DEF C!Con!Max, GreatestOf
  <2>4. rest = IF late = {} THEN w ELSE FaultOf(SkipIn(ConFrames, w, GreatestOf(late)))
    BY <2>3, SameSkip DEF C!Con!Fault, FaultOf
  <2> QED
    BY <2>1, <2>2, <2>4 DEF Ticks
<1> QED
  BY <1>1, <1>2

-----------------------------------------------------------------------------
\* The elements of a finite set of numbers, in their order.
LEMMA NthOfSet ==
  ASSUME NEW S, IsFiniteSet(S), S \subseteq Nat
  PROVE  /\ Cardinality(S) \in Nat
         /\ \A i \in 1..Cardinality(S) : NthOf(S, i) \in S
         /\ \A k \in S : \E i \in 1..Cardinality(S) : NthOf(S, i) = k
         /\ \A i \in 1..Cardinality(S) : Cardinality({j \in S : j <= NthOf(S, i)}) = i
<1> DEFINE N == Cardinality(S)
           Upto(k) == {j \in S : j <= k}
           f == [k \in S |-> Cardinality(Upto(k))]
<1>1. N \in Nat /\ IsFiniteSet(1..N) /\ Cardinality(1..N) = N
  BY FS_CardinalityType, FS_Interval
<1>2. \A k \in S : /\ IsFiniteSet(Upto(k)) /\ Cardinality(Upto(k)) \in 1..N
  <2> SUFFICES ASSUME NEW k \in S
               PROVE  IsFiniteSet(Upto(k)) /\ Cardinality(Upto(k)) \in 1..N
    OBVIOUS
  <2>1. Upto(k) \in SUBSET S /\ k \in Upto(k)
    OBVIOUS
  <2> HIDE DEF Upto
  <2>2. IsFiniteSet(Upto(k)) /\ Cardinality(Upto(k)) <= N
    BY <2>1, FS_Subset
  <2>3. Cardinality(Upto(k)) \in Nat /\ Cardinality(Upto(k)) # 0
    BY <2>1, <2>2, FS_CardinalityType, FS_EmptySet
  <2> QED
    BY <1>1, <2>2, <2>3
<1>3. \A k, l \in S : k < l => Cardinality(Upto(k)) # Cardinality(Upto(l))
  <2> SUFFICES ASSUME NEW k \in S, NEW l \in S, k < l, Cardinality(Upto(k)) = Cardinality(Upto(l))
               PROVE  FALSE
    OBVIOUS
  <2>0. k \in Nat /\ l \in Nat /\ \A j \in S : j \in Nat
    OBVIOUS
  <2>1. Upto(k) \subseteq Upto(l) /\ l \in Upto(l) /\ l \notin Upto(k)
    <3>1. \A j \in S : j <= k => j <= l
      BY <2>0
    <3>2. \A x : /\ x \in Upto(k) <=> x \in S /\ x <= k
                 /\ x \in Upto(l) <=> x \in S /\ x <= l
      OBVIOUS
    <3> HIDE DEF Upto
    <3>3. k <= k /\ l <= l /\ ~ (l <= k)
      BY <2>0
    <3> QED
      BY <3>1, <3>2, <3>3
  <2>2. IsFiniteSet(Upto(l))
    BY <1>2
  <2> HIDE DEF Upto
  <2>3. Upto(l) = Upto(k)
    BY <2>1, <2>2, FS_Subset
  <2> QED
    BY <2>1, <2>3
<1> HIDE DEF Upto
<1>4. \A k, l \in S : Cardinality(Upto(k)) = Cardinality(Upto(l)) => k = l
  BY <1>3
<1>5. f \in Injection(S, 1..N)
  BY <1>2, <1>4 DEF Injection, IsInjective
<1>6. f \in Surjection(S, 1..N)
  BY <1>1, <1>5, FS_Injection
<1>7. \A i \in 1..N : \E k \in S : Cardinality(Upto(k)) = i
  BY <1>6 DEF Surjection
<1>8. \A i \in 1..N : NthOf(S, i) \in S /\ Cardinality(Upto(NthOf(S, i))) = i
  BY <1>7 DEF NthOf, Upto
<1>9. \A k \in S : NthOf(S, Cardinality(Upto(k))) = k
  BY <1>2, <1>4, <1>8
<1> QED
  BY <1>1, <1>2, <1>8, <1>9 DEF Upto

\* Of the interval from 1: each number is at its own place.
LEMMA NthOfInterval ==
  ASSUME NEW m \in Nat
  PROVE  Cardinality(1..m) = m /\ \A i \in 1..m : NthOf(1..m, i) = i
<1>1. \A n \in Nat : IsFiniteSet(1..n) /\ Cardinality(1..n) = n
  BY FS_Interval
<1>2. \A k \in 1..m : {j \in 1..m : j <= k} = 1..k
  OBVIOUS
<1>3. ASSUME NEW k \in 1..m PROVE Cardinality({j \in 1..m : j <= k}) = k
  <2>1. {j \in 1..m : j <= k} = 1..k /\ k \in Nat
    BY <1>2
  <2> QED
    BY <1>1, <2>1
<1> QED
  BY <1>1, <1>3 DEF NthOf

-----------------------------------------------------------------------------
\* Each frame of the ring has one place among the next B.
LEMMA PlaceInRing ==
  ASSUME NEW B \in Nat \ {0}, NEW w, w.ind \in 0..(B - 1)
  PROVE  /\ \A n \in Int : PlaceIn(B, w, n) \in 0..(B - 1) /\ PlaceIn(B, w, n + B) = PlaceIn(B, w, n)
         /\ \A n, m \in 1..B : PlaceIn(B, w, n) = PlaceIn(B, w, m) => n = m
         /\ \A i \in 0..(B - 1) : \E n \in 1..B : PlaceIn(B, w, n) = i
<1> DEFINE e == w.ind
<1>0. e \in 0..(B - 1) /\ \A n : PlaceIn(B, w, n) = (e + n - 1) % B
  BY DEF PlaceIn
<1> HIDE DEF e
<1>1. ASSUME NEW n \in Int
      PROVE  PlaceIn(B, w, n) \in 0..(B - 1) /\ PlaceIn(B, w, n + B) = PlaceIn(B, w, n)
  <2> DEFINE a == e + n - 1
  <2>1. a \in Int /\ e + (n + B) - 1 = a + B
    BY <1>0
  <2> HIDE DEF a
  <2>2. a % B \in 0..(B - 1) /\ (a + B) % B = a % B
    BY <2>1, ModNext, Division
  <2> QED
    BY <1>0, <2>1, <2>2 DEF a
<1>2. ASSUME NEW n \in 1..B, NEW m \in 1..B, PlaceIn(B, w, n) = PlaceIn(B, w, m)
      PROVE  n = m
  <2> DEFINE a == e + n - 1
             b == e + m - 1
  <2>1. a \in Int /\ b \in Int /\ a - b < B /\ b - a < B /\ a % B = b % B
    BY <1>0, <1>2
  <2> HIDE DEF a, b
  <2>2. a = b
    BY <2>1, ModApart
  <2> QED
    BY <1>0, <2>2 DEF a, b
<1>3. ASSUME NEW i \in 0..(B - 1)
      PROVE  \E n \in 1..B : PlaceIn(B, w, n) = i
  <2>1. CASE i >= e
    <3>1. i - e + 1 \in 1..B /\ e + (i - e + 1) - 1 = i
      BY <1>0, <2>1
    <3> QED
      BY <1>0, <3>1, ModOwn
  <2>2. CASE i < e
    <3> DEFINE n == i - e + 1 + B
    <3>1. n \in 1..B /\ e + n - 1 = i + B
      BY <1>0, <2>2
    <3> HIDE DEF n
    <3>2. (i + B) % B = i
      <4>1. i \in Int /\ i % B = i
        BY ModOwn
      <4>2. (i + B) % B = i % B
        BY <4>1, ModNext
      <4> QED
        BY <4>1, <4>2
    <3>3. PlaceIn(B, w, n) = (e + n - 1) % B
      BY <1>0
    <3>4. PlaceIn(B, w, n) = i
      BY <3>1, <3>2, <3>3
    <3> QED
      BY <3>1, <3>4
  <2> QED
    BY <1>0, <2>1, <2>2
<1> QED
  BY <1>1, <1>2, <1>3

-----------------------------------------------------------------------------
\* The writer with B frames, and what it has of the texts.
FrameSet == [ok : BOOLEAN, write_ticks : Int, number : Int]

WriterSet(B) == [next_number : 0..(NumMod - 1), ind : 0..(B - 1), buf : [0..(B - 1) -> FrameSet],
                 ok : BOOLEAN, printed : Seq(Int)]

\* The number x waits in a frame, or is printed.
HeldIn(w, x) == \E i \in DOMAIN w.buf : w.buf[i].ok /\ w.buf[i].number = x
OutOf(w, x) == \E i \in DOMAIN w.printed : w.printed[i] = x
Has(w, x) == HeldIn(w, x) \/ OutOf(w, x)

\* Each frame has the number that its place stands for.
MatchIn(B, w) == \A n \in 1..B : WaitsIn(B, w, n) => FrameIn(B, w, n).number = (w.next_number + n) % NumMod

NoneWait(w) == \A i \in DOMAIN w.buf : ~w.buf[i].ok

\* From w to v nothing is lost, and each frame has its number.
Keeps(B, w, v) == /\ v \in WriterSet(B)
                  /\ \A x : Has(w, x) => Has(v, x)
                  /\ MatchIn(B, w) => MatchIn(B, v)

\* Where the row of frames that wait ends.
LEMMA ReachStops ==
  ASSUME NEW B \in Nat \ {0}, NEW w \in WriterSet(B), NEW d \in 1..(B + 1), NEW r, r = ReachIn(B, w, d)
  PROVE  /\ r \in d..(B + 1) /\ ~WaitsIn(B, w, r)
         /\ \A n \in d..(r - 1) : WaitsIn(B, w, n)
<1> DEFINE Q == {n \in d..(B + 1) : ~WaitsIn(B, w, n)}
           f == [n \in Q |-> n]
<1>1. B + 1 \in Q
  BY DEF WaitsIn
<1>2. Q \subseteq d..(B + 1) /\ Q # {} /\ f \in [Q -> Nat]
  BY <1>1
<1>3. \E i \in Q : \A j \in Q : i <= j
  <2>1. \E i \in Q : \A j \in Q : f[i] <= f[j]
    <3> HIDE DEF Q, f
    <3> QED
      BY <1>2, LeastOne
  <2> QED
    BY <2>1
<1>4. r \in Q /\ \A j \in Q : r <= j
  BY <1>3 DEF ReachIn
<1>5. ASSUME NEW n \in d..(r - 1) PROVE WaitsIn(B, w, n)
  <2>1. n \in d..(B + 1) /\ ~ (r <= n)
    BY <1>2, <1>4, <1>5
  <2> QED
    BY <1>4, <2>1
<1> QED
  BY <1>2, <1>4, <1>5

\* print of n frames in a row: what waited in them is out, the others stay.
LEMMA PrintedFrames ==
  ASSUME NEW B \in Nat \ {0}, NEW w \in WriterSet(B), NEW n \in Nat, NEW v, v = PrintedIn(B, w, n)
  PROVE  /\ v \in WriterSet(B)
         /\ v.next_number = w.next_number /\ v.ind = w.ind /\ v.ok = w.ok
         /\ \A i \in 0..(B - 1) : v.buf[i] = IF \E k \in 1..n : PlaceIn(B, w, k) = i THEN NoText ELSE w.buf[i]
         /\ v.printed = w.printed \o TextsIn(B, w, n)
         /\ \A x : Has(w, x) => Has(v, x)
<1> DEFINE S == ReadyIn(B, w, n)
           N == Cardinality(S)
           p == TextsIn(B, w, n)
           u == [i \in 0..(B - 1) |-> IF \E k \in 1..n : PlaceIn(B, w, k) = i THEN NoText ELSE w.buf[i]]
<1>1. S \subseteq Nat /\ S \subseteq 1..n /\ IsFiniteSet(S)
  <2>1. S \subseteq Nat /\ S \subseteq 1..n
    BY DEF ReadyIn
  <2> QED
    BY <2>1, FS_Interval, FS_Subset
<1>2. /\ N \in Nat /\ \A i \in 1..N : NthOf(S, i) \in S
      /\ \A k \in S : \E i \in 1..N : NthOf(S, i) = k
  BY <1>1, NthOfSet
<1>3. w.ind \in 0..(B - 1) /\ w.buf \in [0..(B - 1) -> FrameSet] /\ w.printed \in Seq(Int)
  BY DEF WriterSet
<1>4. \A k \in S : FrameIn(B, w, k).ok /\ FrameIn(B, w, k).number \in Int
  <2>1. \A k \in S : PlaceIn(B, w, k) \in 0..(B - 1) /\ FrameIn(B, w, k).ok
    BY <1>1, <1>3, PlaceInRing DEF ReadyIn, WaitsIn
  <2>2. \A i \in 0..(B - 1) : w.buf[i].number \in Int
    BY <1>3 DEF FrameSet
  <2> QED
    BY <2>1, <2>2 DEF FrameIn
<1>5. p \in Seq(Int) /\ Len(p) = N /\ \A i \in 1..N : p[i] = FrameIn(B, w, NthOf(S, i)).number
  BY <1>2, <1>4 DEF TextsIn
<1>6. v = [w EXCEPT !.buf = u, !.printed = w.printed \o p]
  BY <1>3 DEF PrintedIn
<1>7. u \in [0..(B - 1) -> FrameSet]
  BY <1>3 DEF NoText, FrameSet
<1> HIDE DEF S, N, p, u
<1>8. w.printed \o p \in Seq(Int)
  BY <1>3, <1>5
<1>9. /\ v \in WriterSet(B) /\ v.buf = u /\ v.printed = w.printed \o p
      /\ v.next_number = w.next_number /\ v.ind = w.ind /\ v.ok = w.ok
  BY <1>6, <1>7, <1>8 DEF WriterSet
<1>10. ASSUME NEW x, OutOf(w, x) PROVE OutOf(v, x)
  <2>1. PICK i \in DOMAIN w.printed : w.printed[i] = x
    BY <1>10 DEF OutOf
  <2>2. i \in DOMAIN v.printed /\ v.printed[i] = w.printed[i]
    BY <1>3, <1>5, <1>9, <2>1
  <2> QED
    BY <2>1, <2>2 DEF OutOf
<1>11. ASSUME NEW k \in S PROVE OutOf(v, FrameIn(B, w, k).number)
  <2>1. PICK i \in 1..N : NthOf(S, i) = k
    BY <1>2
  <2>2. p[i] = FrameIn(B, w, k).number
    BY <1>5, <2>1
  <2>3. Len(w.printed) + i \in DOMAIN v.printed /\ v.printed[Len(w.printed) + i] = p[i]
    BY <1>2, <1>3, <1>5, <1>9, <2>1
  <2> QED
    BY <2>2, <2>3 DEF OutOf
<1>12. ASSUME NEW x, HeldIn(w, x) PROVE Has(v, x)
  <2>1. PICK i \in 0..(B - 1) : w.buf[i].ok /\ w.buf[i].number = x
    BY <1>3, <1>12 DEF HeldIn
  <2>2. CASE \E k \in 1..n : PlaceIn(B, w, k) = i
    <3>1. PICK k \in S : PlaceIn(B, w, k) = i
      <4>1. PICK k \in 1..B : PlaceIn(B, w, k) = i
        BY <1>3, PlaceInRing
      <4>2. CASE k <= n
        BY <2>1, <4>1, <4>2 DEF S, ReadyIn, WaitsIn, FrameIn
      <4>3. CASE k > n
        <5>1. PICK l \in 1..n : PlaceIn(B, w, l) = i
          BY <2>2
        <5>2. l \in 1..B
          BY <4>1, <4>3, <5>1
        <5> QED
          BY <2>1, <5>1, <5>2 DEF S, ReadyIn, WaitsIn, FrameIn
      <4> QED
        BY <4>1, <4>2, <4>3
    <3> QED
      BY <1>11, <2>1, <3>1 DEF FrameIn, Has
  <2>3. CASE ~ \E k \in 1..n : PlaceIn(B, w, k) = i
    <3>1. u[i] = w.buf[i] /\ i \in DOMAIN u
      BY <2>3 DEF u
    <3> QED
      BY <1>9, <2>1, <3>1 DEF HeldIn, Has
  <2> QED
    BY <2>2, <2>3
<1> QED
  BY <1>9, <1>10, <1>12 DEF u, p, N, S, Has

\* Step by step nothing is lost.
LEMMA KeepsOn ==
  ASSUME NEW B, NEW w, NEW u, NEW v, Keeps(B, w, u), Keeps(B, u, v)
  PROVE  Keeps(B, w, v)
BY DEF Keeps

\* Nor when the error is shown.
LEMMA FaultKeeps ==
  ASSUME NEW B, NEW w \in WriterSet(B), NEW v, v = FaultOf(w)
  PROVE  Keeps(B, w, v) /\ ~v.ok
<1>1. /\ v.next_number = w.next_number /\ v.ind = w.ind /\ v.buf = w.buf /\ v.printed = w.printed
      /\ v.ok = FALSE /\ v \in WriterSet(B)
  BY DEF FaultOf, WriterSet
<1> QED
  BY <1>1 DEF Keeps, Has, HeldIn, OutOf, MatchIn, WaitsIn, FrameIn, PlaceIn

\* Any number of frames are gone past, the ring turned and next_number moved on.
LEMMA SkipKeeps ==
  ASSUME NEW B \in Nat \ {0}, NEW w \in WriterSet(B), NEW d \in 1..(B + 1), NumMod \in Nat \ {0},
         NEW r, r = ReachIn(B, w, d), NEW v, v = SkipIn(B, w, d)
  PROVE  /\ Keeps(B, w, v)
         /\ r \in d..(B + 1) /\ ~WaitsIn(B, w, r) /\ \A n \in d..(r - 1) : WaitsIn(B, w, n)
         /\ v.ok = w.ok /\ v.next_number = (w.next_number + r) % NumMod
         /\ v.printed = PrintedIn(B, w, r).printed
<1> DEFINE u == PrintedIn(B, w, r)
<1>1. r \in d..(B + 1) /\ r \in 1..(B + 1) /\ ~WaitsIn(B, w, r) /\ \A n \in d..(r - 1) : WaitsIn(B, w, n)
  BY ReachStops
<1>2. /\ u \in WriterSet(B) /\ u.next_number = w.next_number /\ u.ind = w.ind /\ u.ok = w.ok
      /\ \A i \in 0..(B - 1) : u.buf[i] = IF \E k \in 1..r : PlaceIn(B, w, k) = i THEN NoText ELSE w.buf[i]
      /\ \A x : Has(w, x) => Has(u, x)
  BY <1>1, PrintedFrames
<1>3. v = [u EXCEPT !.next_number = (u.next_number + r) % NumMod, !.ind = (u.ind + r) % B]
  BY DEF SkipIn
<1> DEFINE nn == (w.next_number + r) % NumMod
           ii == (w.ind + r) % B
<1> HIDE DEF u
<1>4. w.next_number \in Int /\ w.ind \in 0..(B - 1) /\ w.buf \in [0..(B - 1) -> FrameSet]
  BY DEF WriterSet
<1>5. nn \in 0..(NumMod - 1) /\ ii \in 0..(B - 1)
  <2>1. w.next_number + r \in Int /\ w.ind + r \in Int
    BY <1>1, <1>4
  <2> QED
    BY <2>1, Division
<1>6. /\ v \in WriterSet(B) /\ v.ok = w.ok /\ v.buf = u.buf /\ v.printed = u.printed
      /\ v.next_number = (w.next_number + r) % NumMod /\ v.ind = (w.ind + r) % B
  <2>1. v = [u EXCEPT !.next_number = nn, !.ind = ii]
    BY <1>2, <1>3
  <2> HIDE DEF nn, ii
  <2>2. v \in WriterSet(B) /\ v.ok = u.ok /\ v.buf = u.buf /\ v.printed = u.printed /\ v.next_number = nn /\ v.ind = ii
    BY <1>2, <1>5, <2>1 DEF WriterSet
  <2> QED
    BY <1>2, <2>2 DEF nn, ii
<1> HIDE DEF nn, ii
<1>7. \A x : Has(w, x) => Has(v, x)
  BY <1>2, <1>6 DEF Has, HeldIn, OutOf
<1>8. ASSUME MatchIn(B, w), NEW n \in 1..B, WaitsIn(B, v, n)
      PROVE  FrameIn(B, v, n).number = (v.next_number + n) % NumMod
  <2> DEFINE i == PlaceIn(B, v, n)
  <2>1. i = PlaceIn(B, w, r + n)
    <3> DEFINE a == w.ind + r
               b == n - 1
               c == a % B
    <3>1. a \in Int /\ c \in Int /\ i = (c + n - 1) % B
      BY <1>1, <1>4, <1>5, <1>6 DEF PlaceIn, ii
    <3> HIDE DEF i, c
    <3>2. b \in Int /\ c + b = c + n - 1 /\ a + b = w.ind + (r + n) - 1
      BY <1>1, <1>4, <3>1
    <3> HIDE DEF a, b
    <3>3. (c + b) % B = (a + b) % B
      BY <3>1, <3>2, ModAdd DEF c
    <3> QED
      BY <3>1, <3>2, <3>3 DEF PlaceIn
  <2> HIDE DEF i
  <2>2. r + n \in Int /\ r + n >= 1 /\ i \in 0..(B - 1)
    <3>1. r + n \in Int /\ r + n >= 1
      BY <1>1
    <3> QED
      BY <1>4, <2>1, <3>1, PlaceInRing
  <2>3. v.buf[i].ok /\ v.buf[i] = u.buf[i]
    BY <1>6, <1>8 DEF WaitsIn, FrameIn, i
  <2>4. \A k \in 1..r : PlaceIn(B, w, k) # i
    BY <1>2, <2>2, <2>3 DEF NoText
  <2>5. r + n <= B
    <3> SUFFICES ASSUME r + n > B PROVE FALSE
      BY <1>1
    <3>1. CASE r <= B
      <4> DEFINE m == r + n - B
      <4>1. m \in 1..r /\ m \in Int /\ m + B = r + n
        BY <1>1, <3>1
      <4> HIDE DEF m
      <4>2. PlaceIn(B, w, m + B) = PlaceIn(B, w, m)
        <5>1. \A k \in Int : PlaceIn(B, w, k + B) = PlaceIn(B, w, k)
          BY <1>4, PlaceInRing
        <5> QED
          BY <4>1, <5>1, Zenon
      <4> QED
        BY <2>1, <2>4, <4>1, <4>2
    <3>2. CASE r = B + 1
      <4>1. \A j \in 0..(B - 1) : \E k \in 1..B : PlaceIn(B, w, k) = j
        BY <1>4, PlaceInRing
      <4>2. PICK k \in 1..B : PlaceIn(B, w, k) = i
        BY <2>2, <4>1
      <4> QED
        BY <2>4, <3>2, <4>2
    <3> QED
      BY <1>1, <3>1, <3>2
  <2>6. r + n \in 1..B /\ FrameIn(B, v, n) = FrameIn(B, w, r + n) /\ WaitsIn(B, w, r + n)
    BY <1>1, <1>2, <2>1, <2>2, <2>3, <2>4, <2>5 DEF FrameIn, WaitsIn, i
  <2>7. FrameIn(B, v, n).number = (w.next_number + (r + n)) % NumMod
    BY <1>8, <2>6 DEF MatchIn
  <2>8. (w.next_number + (r + n)) % NumMod = (v.next_number + n) % NumMod
    <3> DEFINE a == w.next_number + r
    <3>a. v.next_number = a % NumMod
      BY <1>6, Zenon
    <3>b. w.next_number \in Int /\ r \in Int /\ n \in Int
      BY <1>1, <1>4
    <3>0. w.next_number \in Int /\ r \in Int /\ n \in Int /\ v.next_number = a % NumMod
      BY <3>a, <3>b, Zenon
    <3>1. a \in Int /\ a + n = w.next_number + (r + n)
      BY <3>0
    <3> HIDE DEF a
    <3>2. ((a % NumMod) + n) % NumMod = (a + n) % NumMod
      BY <3>0, <3>1, ModAdd
    <3> QED
      BY <3>0, <3>1, <3>2
  <2> QED
    BY <2>7, <2>8
<1> QED
  BY <1>1, <1>6, <1>7, <1>8 DEF Keeps, MatchIn, u

\* set() puts the text into the frame of its number, or shows the error.
LEMMA SetKeeps ==
  ASSUME NEW B \in Nat \ {0}, NEW w \in WriterSet(B), NEW n \in 1..B, NEW number \in Int,
         number = (w.next_number + n) % NumMod, write_ticks \in Nat, NEW v, v = SetIn(B, w, n, number)
  PROVE  /\ Keeps(B, w, v)
         /\ v.ok => w.ok /\ Has(v, number)
         /\ v.printed = w.printed /\ v.next_number = w.next_number
<1> DEFINE i == PlaceIn(B, w, n)
<1>1. w.ind \in 0..(B - 1) /\ w.buf \in [0..(B - 1) -> FrameSet] /\ i \in 0..(B - 1)
  BY PlaceInRing DEF WriterSet
<1>2. CASE WaitsIn(B, w, n)
  <2>1. v = FaultOf(w)
    BY <1>2 DEF SetIn
  <2> QED
    BY <2>1, FaultKeeps DEF FaultOf, WriterSet
<1>3. CASE ~WaitsIn(B, w, n)
  <2>1. v = [w EXCEPT !.buf = [w.buf EXCEPT ![i] = TextOf(number)]]
    BY <1>3 DEF SetIn
  <2>2. [w.buf EXCEPT ![i] = TextOf(number)] \in [0..(B - 1) -> FrameSet]
    BY <1>1 DEF TextOf, FrameSet
  <2>3. ~w.buf[i].ok
    BY <1>3 DEF WaitsIn, FrameIn
  <2>4. /\ v \in WriterSet(B) /\ v.printed = w.printed /\ v.next_number = w.next_number /\ v.ok = w.ok
        /\ v.ind = w.ind /\ v.buf = [w.buf EXCEPT ![i] = TextOf(number)]
    BY <2>1, <2>2 DEF WriterSet
  <2>5. /\ v.buf \in [0..(B - 1) -> FrameSet] /\ v.buf[i] = TextOf(number)
        /\ \A k \in 0..(B - 1) : k # i => v.buf[k] = w.buf[k]
    BY <1>1, <2>2, <2>4
  <2> HIDE DEF i
  <2>6. Has(v, number)
    BY <1>1, <2>5 DEF Has, HeldIn, TextOf
  <2>7. ASSUME NEW x, Has(w, x) PROVE Has(v, x)
    BY <1>1, <2>3, <2>4, <2>5, <2>7 DEF Has, HeldIn, OutOf
  <2>8. ASSUME MatchIn(B, w), NEW m \in 1..B, WaitsIn(B, v, m)
        PROVE  FrameIn(B, v, m).number = (v.next_number + m) % NumMod
    <3>1. PlaceIn(B, v, m) = PlaceIn(B, w, m) /\ PlaceIn(B, w, m) \in 0..(B - 1)
      <4>1. PlaceIn(B, v, m) = PlaceIn(B, w, m)
        BY <2>4 DEF PlaceIn
      <4>2. m \in Int
        OBVIOUS
      <4> QED
        BY <1>1, <4>1, <4>2, PlaceInRing
    <3>2. CASE m = n
      BY <2>4, <2>5, <3>1, <3>2 DEF FrameIn, TextOf, i
    <3>3. CASE m # n
      <4>1. PlaceIn(B, w, m) # i
        BY <1>1, <3>3, PlaceInRing DEF i
      <4>2. FrameIn(B, v, m) = FrameIn(B, w, m) /\ WaitsIn(B, w, m)
        BY <2>5, <2>8, <3>1, <4>1 DEF FrameIn, WaitsIn
      <4> QED
        BY <2>4, <2>8, <4>2 DEF MatchIn
    <3> QED
      BY <3>2, <3>3
  <2> QED
    BY <2>4, <2>6, <2>7, <2>8 DEF Keeps, MatchIn
<1> QED
  BY <1>2, <1>3

\* A text is printed at once.
LEMMA AppendKeeps ==
  ASSUME NEW B, NEW w \in WriterSet(B), NEW number \in Int,
         NEW v, v = [w EXCEPT !.printed = Append(@, number)]
  PROVE  /\ Keeps(B, w, v) /\ Has(v, number)
         /\ v.ok = w.ok /\ v.next_number = w.next_number /\ v.printed = Append(w.printed, number)
         /\ \A n : WaitsIn(B, v, n) = WaitsIn(B, w, n) /\ FrameIn(B, v, n) = FrameIn(B, w, n)
<1> DEFINE p == Append(w.printed, number)
<1>1. w.printed \in Seq(Int)
  BY DEF WriterSet
<1>2. /\ p \in Seq(Int) /\ DOMAIN p = 1..(Len(w.printed) + 1) /\ p[Len(w.printed) + 1] = number
      /\ \A i \in 1..Len(w.printed) : p[i] = w.printed[i]
  BY <1>1
<1>3. v = [w EXCEPT !.printed = p]
  OBVIOUS
<1> HIDE DEF p
<1>4. /\ v \in WriterSet(B) /\ v.next_number = w.next_number /\ v.ind = w.ind /\ v.buf = w.buf
      /\ v.ok = w.ok /\ v.printed = p
  BY <1>2, <1>3 DEF WriterSet
<1>5. \A n : WaitsIn(B, v, n) = WaitsIn(B, w, n) /\ FrameIn(B, v, n) = FrameIn(B, w, n)
  BY <1>4, Zenon DEF WaitsIn, FrameIn, PlaceIn
<1>6. ASSUME NEW x, OutOf(w, x) PROVE OutOf(v, x)
  <2>1. PICK i \in DOMAIN w.printed : w.printed[i] = x
    BY <1>6 DEF OutOf
  <2>2. DOMAIN w.printed = 1..Len(w.printed) /\ Len(w.printed) \in Nat
    BY <1>1
  <2>3. i \in DOMAIN p /\ p[i] = x
    BY <1>2, <2>1, <2>2
  <2> QED
    BY <1>4, <2>3 DEF OutOf
<1>7. OutOf(v, number)
  BY <1>1, <1>2, <1>4 DEF OutOf
<1>8. \A x : HeldIn(w, x) => HeldIn(v, x)
  BY <1>4 DEF HeldIn
<1>9. MatchIn(B, w) => MatchIn(B, v)
  BY <1>4, <1>5 DEF MatchIn
<1> QED
  BY <1>4, <1>5, <1>6, <1>7, <1>8, <1>9 DEF Keeps, Has, p

\* write() puts the text into its frame, or prints it and what waits behind it.
LEMMA WriteKeeps ==
  ASSUME NEW B \in Nat \ {0}, NEW w \in WriterSet(B), NEW n \in 0..B, NumMod \in Nat \ {0}, NEW number \in Int,
         number = (w.next_number + n) % NumMod, write_ticks \in Nat, NEW v, v = WriteIn(B, w, n, number)
  PROVE  Keeps(B, w, v) /\ (v.ok => w.ok /\ Has(v, number))
<1>1. CASE n = 0
  <2> DEFINE u == [w EXCEPT !.printed = Append(@, number)]
  <2>1. Keeps(B, w, u) /\ Has(u, number) /\ u.ok = w.ok /\ u \in WriterSet(B)
    BY AppendKeeps DEF Keeps
  <2>2. v = SkipIn(B, u, 1)
    BY <1>1 DEF WriteIn
  <2> HIDE DEF u
  <2>3. Keeps(B, u, v) /\ v.ok = u.ok
    BY <2>1, <2>2, SkipKeeps
  <2> QED
    BY <2>1, <2>3, KeepsOn DEF Keeps
<1>2. CASE n # 0
  <2>1. n \in 1..B /\ v = SetIn(B, w, n, number)
    BY <1>2 DEF WriteIn
  <2> QED
    BY <2>1, SetKeeps
<1> QED
  BY <1>1, <1>2

\* How far a number is past next_number, and what it is.
LEMMA Distance ==
  ASSUME NumMod \in Nat \ {0}, NEW a \in Int, NEW number \in 0..(NumMod - 1),
         NEW n, n = (number - a) % NumMod
  PROVE  n \in 0..(NumMod - 1) /\ number = (a + n) % NumMod
<1> DEFINE b == number - a
<1>1. b \in Int /\ b + a = number
  OBVIOUS
<1> HIDE DEF b
<1>2. n \in 0..(NumMod - 1) /\ n = b % NumMod
  BY <1>1, Division DEF b
<1>3. (n + a) % NumMod = (b + a) % NumMod
  BY <1>1, <1>2, ModAdd
<1>4. number % NumMod = number
  BY ModOwn
<1>5. n + a = a + n
  BY <1>2
<1> QED
  BY <1>1, <1>2, <1>3, <1>4, <1>5

\* How far the number is past a.
Apart(number, a) == (number - a) % NumMod

LEMMA ApartIs ==
  ASSUME NumMod \in Nat \ {0}, NEW a \in Int, NEW number \in 0..(NumMod - 1)
  PROVE  Apart(number, a) \in 0..(NumMod - 1) /\ number = (a + Apart(number, a)) % NumMod
<1> DEFINE m == (number - a) % NumMod
<1>1. m \in 0..(NumMod - 1) /\ number = (a + m) % NumMod
  BY Distance
<1> QED
  BY <1>1 DEF Apart

\* When r of the n numbers before it are skipped, the number is n - r on.
LEMMA PassDistance ==
  ASSUME NEW B \in Nat \ {0}, 4 * B <= NumMod, NumMod \in Nat \ {0}, NEW a \in Int, NEW number \in Int,
         NEW n, n = Apart(number, a), n \in (B + 1)..(2 * B - 1), NEW r \in (n - B)..(B + 1),
         NEW c, c = (a + r) % NumMod
  PROVE  Apart(number, c) = n - r /\ n - r \in 0..B
<1> DEFINE b == a + r
           e == number - a
           o == 0 - r
           m == Apart(number, c)
<1>1. /\ b \in Int /\ e \in Int /\ o \in Int /\ number - b = e + o /\ n + o = n - r
      /\ n - r \in 0..B /\ n - r \in 0..(NumMod - 1)
  OBVIOUS
<1>2. n = e % NumMod /\ m = (number - (b % NumMod)) % NumMod
  BY DEF Apart
<1> HIDE DEF b, e, o, m
<1>3. (number - (b % NumMod)) % NumMod = (number - b) % NumMod
  BY <1>1, ModAdd
<1>4. ((e % NumMod) + o) % NumMod = (e + o) % NumMod
  BY <1>1, ModAdd
<1>5. (n - r) % NumMod = n - r
  BY <1>1, ModOwn
<1>6. m = (e + o) % NumMod /\ (e % NumMod) + o = n + o
  BY <1>1, <1>2, <1>3
<1>7. (e + o) % NumMod = (n + o) % NumMod
  BY <1>4, <1>6
<1>8. m = n - r
  BY <1>1, <1>5, <1>6, <1>7
<1> QED
  BY <1>1, <1>8 DEF m

\* Once around the ring all is printed.
LEMMA AllPrinted ==
  ASSUME NEW B \in Nat \ {0}, NEW w \in WriterSet(B), NEW v, v = PrintedIn(B, w, B)
  PROVE  /\ v \in WriterSet(B) /\ NoneWait(v) /\ v.ok = w.ok
         /\ \A x : Has(w, x) => Has(v, x) /\ OutOf(v, x)
<1>1. PICK n \in Nat : n = B
  OBVIOUS
<1>2. v = PrintedIn(B, w, n)
  BY <1>1
<1>3. /\ v \in WriterSet(B) /\ v.ok = w.ok
      /\ \A i \in 0..(B - 1) : v.buf[i] = IF \E k \in 1..n : PlaceIn(B, w, k) = i THEN NoText ELSE w.buf[i]
      /\ \A x : Has(w, x) => Has(v, x)
  BY <1>2, PrintedFrames
<1>4. w.ind \in 0..(B - 1) /\ v.buf \in [0..(B - 1) -> FrameSet]
  BY <1>3 DEF WriterSet
<1>5. \A i \in 0..(B - 1) : \E k \in 1..B : PlaceIn(B, w, k) = i
  BY <1>4, PlaceInRing
<1>6. \A i \in 0..(B - 1) : ~v.buf[i].ok
  BY <1>1, <1>3, <1>5 DEF NoText
<1>7. NoneWait(v)
  BY <1>4, <1>6 DEF NoneWait
<1>8. \A x : Has(v, x) => OutOf(v, x)
  BY <1>7 DEF Has, HeldIn, NoneWait
<1> QED
  BY <1>3, <1>7, <1>8

\* When no frame waits, none has the wrong number.
LEMMA NoneMatch ==
  ASSUME NEW B \in Nat \ {0}, NEW w \in WriterSet(B), NoneWait(w)
  PROVE  MatchIn(B, w)
<1>1. w.ind \in 0..(B - 1) /\ w.buf \in [0..(B - 1) -> FrameSet]
  BY DEF WriterSet
<1>2. \A n \in Int : PlaceIn(B, w, n) \in 0..(B - 1)
  BY <1>1, PlaceInRing
<1>3. \A n \in 1..B : ~FrameIn(B, w, n).ok
  BY <1>1, <1>2 DEF NoneWait, FrameIn
<1> QED
  BY <1>3 DEF MatchIn, WaitsIn

\* A number that is 2 * B or more ahead: all frames are printed.
LEMMA FarKeeps ==
  ASSUME NEW B \in Nat \ {0}, NEW w \in WriterSet(B), NumMod \in Nat \ {0}, NEW number \in 0..(NumMod - 1),
         write_ticks \in Nat, NEW v, v = FarIn(B, w, number)
  PROVE  Keeps(B, w, v) /\ ~v.ok
<1> DEFINE u == PrintedIn(B, w, B)
           nn == (number - B) % NumMod
           s == [u EXCEPT !.next_number = nn, !.ind = 0]
           t == SetIn(B, s, B, number)
<1>1. u \in WriterSet(B) /\ \A x : Has(w, x) => Has(u, x)
  BY AllPrinted
<1>2. NoneWait(u)
  BY AllPrinted
<1>3. nn \in 0..(NumMod - 1)
  <2>1. number - B \in Int
    OBVIOUS
  <2> QED
    BY <2>1, Division
<1>4. v = FaultOf(t)
  BY DEF FarIn
<1>5. number = (nn + B) % NumMod
  <2> DEFINE b == number - B
  <2>1. b \in Int /\ B \in Int /\ b + B = number
    OBVIOUS
  <2> HIDE DEF b
  <2>2. ((b % NumMod) + B) % NumMod = (b + B) % NumMod
    BY <2>1, ModAdd
  <2>3. number % NumMod = number
    BY ModOwn
  <2> QED
    BY <2>1, <2>2, <2>3 DEF b
<1> HIDE DEF u, nn, t
<1>6. /\ s \in WriterSet(B) /\ s.buf = u.buf /\ s.printed = u.printed /\ s.next_number = nn
  <2>1. u \in WriterSet(B) /\ 0 \in 0..(B - 1)
    BY <1>1
  <2> QED
    BY <1>3, <2>1 DEF WriterSet
<1> HIDE DEF s
<1>7. (\A x : Has(u, x) => Has(s, x)) /\ NoneWait(s)
  BY <1>2, <1>6 DEF Has, HeldIn, OutOf, NoneWait
<1>8. MatchIn(B, s)
  BY <1>6, <1>7, NoneMatch
<1>9. Keeps(B, w, s)
  BY <1>1, <1>6, <1>7, <1>8 DEF Keeps
<1>10. Keeps(B, s, t) /\ t \in WriterSet(B)
  <2>1. t = SetIn(B, s, B, number) /\ number = (s.next_number + B) % NumMod /\ B \in 1..B /\ number \in Int
    BY <1>5, <1>6 DEF t
  <2> QED
    BY <1>6, <2>1, SetKeeps DEF Keeps
<1> QED
  BY <1>4, <1>9, <1>10, FaultKeeps, KeepsOn

\* A number that is more than B but less than 2 * B ahead: with the frames that
\* are skipped for it, it is at most B ahead, and not past.
LEMMA PassKeeps ==
  ASSUME NEW B \in Nat \ {0}, 4 * B <= NumMod, NumMod \in Nat \ {0}, write_ticks \in Nat,
         NEW w \in WriterSet(B), NEW number \in 0..(NumMod - 1),
         NEW n, n = (number - w.next_number) % NumMod, n \in (B + 1)..(2 * B - 1),
         NEW v, v = PassIn(B, w, n, number)
  PROVE  Keeps(B, w, v) /\ ~v.ok
<1> DEFINE s == SkipIn(B, w, n - B)
           r == ReachIn(B, w, n - B)
           m == (number - s.next_number) % NumMod
           t == WriteIn(B, s, m, number)
           d == n - B
<1>0. w.next_number \in Int /\ d \in 1..(B + 1) /\ d >= 1 /\ d = n - B /\ s = SkipIn(B, w, d) /\ r = ReachIn(B, w, d)
  BY DEF WriterSet
<1> HIDE DEF s, r, t, d
<1>1. Keeps(B, w, s) /\ s \in WriterSet(B) /\ r \in d..(B + 1) /\ s.next_number = (w.next_number + r) % NumMod
  <2>1. Keeps(B, w, s) /\ r \in d..(B + 1) /\ s.next_number = (w.next_number + r) % NumMod
    BY <1>0, SkipKeeps
  <2> QED
    BY <2>1 DEF Keeps
<1>2. m = n - r /\ m \in 0..B
  <2> DEFINE a == w.next_number
  <2>1. /\ a \in Int /\ r \in (n - B)..(B + 1) /\ number \in Int
        /\ n = Apart(number, a) /\ s.next_number = (a + r) % NumMod
    BY <1>0, <1>1 DEF Apart
  <2>2. m = Apart(number, s.next_number)
    BY DEF Apart
  <2> HIDE DEF a, m
  <2>3. Apart(number, s.next_number) = n - r /\ n - r \in 0..B
    BY <2>1, PassDistance
  <2> QED
    BY <2>2, <2>3
<1>3. number = (s.next_number + m) % NumMod
  <2>1. s.next_number \in Int
    BY <1>1 DEF WriterSet
  <2> QED
    BY <2>1, Distance
<1>4. Keeps(B, s, t) /\ t \in WriterSet(B)
  <2>1. t = WriteIn(B, s, m, number) /\ number \in Int
    BY DEF t
  <2> HIDE DEF m
  <2> QED
    BY <1>1, <1>2, <1>3, <2>1, WriteKeeps DEF Keeps
<1>5. v = FaultOf(t)
  BY DEF PassIn, t, s
<1> QED
  BY <1>1, <1>4, <1>5, FaultKeeps, KeepsOn

\* The number is at most B past next_number.
WritesNear(B, w, number, v) ==
  \E n \in 0..B : number = (w.next_number + n) % NumMod /\ v = WriteIn(B, w, n, number)

\* operator(), whatever the number: nothing is lost, and while all is well the text
\* is printed or waits.
LEMMA WrittenKeeps ==
  ASSUME NEW B \in Nat \ {0}, 4 * B <= NumMod, NumMod \in Nat \ {0}, write_ticks \in Nat,
         NEW w \in WriterSet(B), NEW number \in 0..(NumMod - 1), NEW v, Writes(B, w, number, v)
  PROVE  Keeps(B, w, v) /\ (v.ok => w.ok /\ Has(v, number) /\ WritesNear(B, w, number, v))
<1> DEFINE n == (number - w.next_number) % NumMod
<1>1. w.next_number \in Int /\ number \in Int
  BY DEF WriterSet
<1>2. number = (w.next_number + n) % NumMod
  BY <1>1, Distance
<1>3. \/ v = FaultOf(w) \/ v = FarIn(B, w, number)
      \/ n \in (B + 1)..(2 * B - 1) /\ v = PassIn(B, w, n, number)
      \/ n \in 0..B /\ v = WriteIn(B, w, n, number)
  BY DEF Writes
<1>4. n = (number - w.next_number) % NumMod
  OBVIOUS
<1> HIDE DEF n
<1>5. CASE v = FaultOf(w)
  BY <1>5, FaultKeeps
<1>6. CASE v = FarIn(B, w, number)
  BY <1>6, FarKeeps
<1>7. CASE n \in (B + 1)..(2 * B - 1) /\ v = PassIn(B, w, n, number)
  BY <1>4, <1>7, PassKeeps
<1>8. CASE n \in 0..B /\ v = WriteIn(B, w, n, number)
  <2>1. Keeps(B, w, v) /\ (v.ok => w.ok /\ Has(v, number))
    BY <1>1, <1>2, <1>8, WriteKeeps
  <2>2. WritesNear(B, w, number, v)
    BY <1>2, <1>8 DEF WritesNear
  <2> QED
    BY <2>1, <2>2
<1> QED
  BY <1>3, <1>5, <1>6, <1>7, <1>8

\* The first frame that is empty ends what is skipped: all before it are printed.
LEMMA SkipInOrder ==
  ASSUME NEW B \in Nat \ {0}, NumMod \in Nat \ {0}, NEW u \in WriterSet(B), MatchIn(B, u),
         NEW v, v = SkipIn(B, u, 1)
  PROVE  \E r \in 1..(B + 1) : Runs(u.next_number, v, r, u.printed)
<1> DEFINE r == ReachIn(B, u, 1)
           S == ReadyIn(B, u, r)
           q == TextsIn(B, u, r)
           y == PrintedIn(B, u, r)
<1>1. r = ReachIn(B, u, 1) /\ 1 \in 1..(B + 1)
  OBVIOUS
<1> HIDE DEF r
<1>2. /\ r \in 1..(B + 1) /\ ~WaitsIn(B, u, r) /\ \A k \in 1..(r - 1) : WaitsIn(B, u, k)
      /\ v.next_number = (u.next_number + r) % NumMod /\ v.printed = y.printed
  BY <1>1, SkipKeeps
<1>3. r \in Nat /\ y = PrintedIn(B, u, r)
  BY <1>2
<1> HIDE DEF y
<1>4. y.printed = u.printed \o q
  BY <1>3, PrintedFrames
<1>5. S = 1..(r - 1)
  BY <1>2 DEF ReadyIn
<1>6. Cardinality(S) = r - 1 /\ \A i \in 1..(r - 1) : NthOf(S, i) = i
  BY <1>2, <1>5, NthOfInterval
<1>7. \A i \in 1..(r - 1) : FrameIn(B, u, i).number = (u.next_number + i) % NumMod
  BY <1>2 DEF MatchIn
<1>8. q = RunOf(u.next_number, r - 1)
  BY <1>6, <1>7 DEF TextsIn, RunOf
<1> QED
  BY <1>2, <1>4, <1>8 DEF Runs

\* What is printed when the number comes that is next: it and what waits behind,
\* one after the other up to the new next_number.
LEMMA NextInOrder ==
  ASSUME NEW B \in Nat \ {0}, NumMod \in Nat \ {0}, NEW w \in WriterSet(B), MatchIn(B, w),
         NEW number \in Int, number = w.next_number, NEW v, v = WriteIn(B, w, 0, number)
  PROVE  \E r \in 1..(B + 1) : Runs(w.next_number, v, r, Append(w.printed, number))
<1> DEFINE u == [w EXCEPT !.printed = Append(@, number)]
<1>1. Keeps(B, w, u) /\ u.next_number = w.next_number /\ u.printed = Append(w.printed, number)
  BY AppendKeeps
<1>2. v = SkipIn(B, u, 1)
  BY DEF WriteIn
<1> HIDE DEF u
<1>3. u \in WriterSet(B) /\ MatchIn(B, u)
  BY <1>1 DEF Keeps
<1>4. \E r \in 1..(B + 1) : Runs(u.next_number, v, r, u.printed)
  BY <1>2, <1>3, SkipInOrder
<1> QED
  BY <1>1, <1>4

\* p is the r numbers from a on; and v goes on after them.
RowFrom(a, p, r) == p \in Seq(Int) /\ Len(p) = r /\ \A i \in 1..r : p[i] = (a + i - 1) % NumMod
Follows(a, v, r) == v.next_number = (a + r) % NumMod /\ RowFrom(a, v.printed, r)

\* The number before a.
Before(a) == (a - 1) % NumMod

\* What is printed, after what was printed last.
After(l, p) == <<l>> \o p

\* Each of t is the next one after the one before.
InOrder(t) == \A i \in 2..Len(t) : t[i] = (t[i - 1] + 1) % NumMod

\* What write() prints is in order from next_number on.
LEMMA WrittenInOrder ==
  ASSUME NEW B \in Nat \ {0}, NumMod \in Nat \ {0}, write_ticks \in Nat,
         NEW w \in WriterSet(B), MatchIn(B, w), w.printed = << >>, NEW n \in 0..B,
         NEW number \in Int, number = (w.next_number + n) % NumMod, NEW v, v = WriteIn(B, w, n, number)
  PROVE  \E r \in 0..(B + 1) : Follows(w.next_number, v, r)
<1>0. w.next_number \in 0..(NumMod - 1) /\ w.next_number \in Int /\ w.next_number % NumMod = w.next_number
  BY ModOwn DEF WriterSet
<1>1. CASE n # 0
  <2>1. n \in 1..B /\ v = SetIn(B, w, n, number)
    BY <1>1 DEF WriteIn
  <2>2. v.printed = << >> /\ v.next_number = w.next_number
    BY <2>1, SetKeeps
  <2>3. w.next_number + 0 = w.next_number /\ 0 \in 0..(B + 1)
    BY <1>0
  <2>4. << >> \in Seq(Int) /\ Len(<< >>) = 0 /\ \A i \in 1..0 : FALSE
    OBVIOUS
  <2>5. Follows(w.next_number, v, 0)
    BY <1>0, <2>2, <2>3, <2>4 DEF Follows, RowFrom
  <2> QED
    BY <2>3, <2>5
<1>2. CASE n = 0
  <2>1. number = w.next_number /\ v = WriteIn(B, w, 0, number)
    BY <1>0, <1>2
  <2> DEFINE x == [i \in Int |-> (w.next_number + i) % NumMod]
  <2>2. PICK r \in 1..(B + 1) : Runs(w.next_number, v, r, Append(w.printed, number))
    BY <2>1, NextInOrder
  <2>3. /\ v.next_number = (w.next_number + r) % NumMod
        /\ v.printed = Append(w.printed, number) \o RunOf(w.next_number, r - 1)
    BY <2>2 DEF Runs
  <2> DEFINE q == [i \in 1..(r - 1) |-> x[i]]
             p == <<number>> \o q
  <2>4. q = RunOf(w.next_number, r - 1)
    BY DEF RunOf
  <2>5. Append(w.printed, number) = <<number>>
    OBVIOUS
  <2>6. v.printed = p
    BY <2>3, <2>4, <2>5
  <2>7. x \in [Int -> Int]
    <3>1. ASSUME NEW i \in Int PROVE (w.next_number + i) % NumMod \in Int
      <4> DEFINE e == w.next_number + i
      <4>1. e \in Int
        BY <1>0
      <4> HIDE DEF e
      <4>2. e % NumMod \in 0..(NumMod - 1)
        BY <4>1, Division
      <4> QED
        BY <4>2 DEF e
    <3> QED
      BY <3>1
  <2>8. x[0] = number /\ \A i \in Int : x[i] = (w.next_number + i) % NumMod
    BY <1>0, <2>1
  <2> HIDE DEF x
  <2>9. q \in Seq(Int) /\ Len(q) = r - 1 /\ \A i \in 1..(r - 1) : q[i] = x[i]
    <3>1. r - 1 \in Nat /\ \A i \in 1..(r - 1) : x[i] \in Int
      BY <2>7
    <3> QED
      BY <3>1
  <2> HIDE DEF q
  <2>10. /\ p \in Seq(Int) /\ Len(p) = r /\ p[1] = number
         /\ \A i \in 1..(r - 1) : p[i + 1] = q[i]
    BY <2>9
  <2> HIDE DEF p
  <2>11. ASSUME NEW i \in 1..r PROVE p[i] = (w.next_number + i - 1) % NumMod
    <3>1. p[i] = x[i - 1]
      <4>1. CASE i = 1
        BY <2>8, <2>10, <4>1
      <4>2. CASE i # 1
        <5>1. i - 1 \in 1..(r - 1) /\ (i - 1) + 1 = i
          BY <4>2
        <5>2. p[(i - 1) + 1] = q[i - 1]
          BY <2>10, <5>1
        <5> QED
          BY <2>9, <5>1, <5>2
      <4> QED
        BY <4>1, <4>2
    <3>2. w.next_number + (i - 1) = w.next_number + i - 1 /\ i - 1 \in Int
      BY <1>0
    <3> QED
      BY <2>8, <3>1, <3>2
  <2>12. /\ r \in 0..(B + 1) /\ v.next_number = (w.next_number + r) % NumMod
         /\ v.printed \in Seq(Int) /\ Len(v.printed) = r
         /\ \A i \in 1..r : v.printed[i] = (w.next_number + i - 1) % NumMod
    BY <2>3, <2>6, <2>10, <2>11
  <2> QED
    BY <2>12 DEF Follows, RowFrom
<1> QED
  BY <1>1, <1>2

\* tick(): the frames that wait on wait one tick less.
LEMMA AgesKeeps ==
  ASSUME NEW B \in Nat \ {0}, NEW w \in WriterSet(B), NEW v, v = Ages(w)
  PROVE  Keeps(B, w, v) /\ v.ok = w.ok /\ v.printed = w.printed /\ v.next_number = w.next_number
<1> DEFINE u == AgedAll(w.buf)
<1>1. w.buf \in [0..(B - 1) -> FrameSet] /\ w.ind \in 0..(B - 1)
  BY DEF WriterSet
<1>2. v = [w EXCEPT !.buf = u]
  BY DEF Ages
<1>3. ASSUME NEW i \in 0..(B - 1)
      PROVE  u[i] \in FrameSet /\ u[i].ok = w.buf[i].ok /\ u[i].number = w.buf[i].number
  <2>1. u[i] = Aged(w.buf[i])
    BY <1>1 DEF AgedAll
  <2>2. \A f \in FrameSet : Aged(f) \in FrameSet /\ Aged(f).ok = f.ok /\ Aged(f).number = f.number
    BY DEF FrameSet, Aged
  <2>3. w.buf[i] \in FrameSet
    BY <1>1
  <2> HIDE DEF u
  <2> QED
    BY <2>1, <2>2, <2>3
<1>4. u \in [0..(B - 1) -> FrameSet]
  BY <1>1, <1>3 DEF AgedAll
<1> HIDE DEF u
<1>5. /\ v \in WriterSet(B) /\ v.next_number = w.next_number /\ v.ind = w.ind /\ v.buf = u
      /\ v.ok = w.ok /\ v.printed = w.printed
  BY <1>2, <1>4 DEF WriterSet
<1>6. \A n \in Int : PlaceIn(B, w, n) \in 0..(B - 1) /\ PlaceIn(B, v, n) = PlaceIn(B, w, n)
  BY <1>1, <1>5, PlaceInRing DEF PlaceIn
<1>7. \A n \in 1..B : /\ WaitsIn(B, v, n) <=> WaitsIn(B, w, n)
                      /\ FrameIn(B, v, n).number = FrameIn(B, w, n).number
  BY <1>3, <1>5, <1>6 DEF WaitsIn, FrameIn
<1>8. MatchIn(B, w) => MatchIn(B, v)
  BY <1>5, <1>7 DEF MatchIn
<1>9. ASSUME NEW x, HeldIn(w, x) PROVE HeldIn(v, x)
  BY <1>1, <1>3, <1>4, <1>5, <1>9 DEF HeldIn
<1>10. \A x : OutOf(w, x) => OutOf(v, x)
  BY <1>5 DEF OutOf
<1> QED
  BY <1>5, <1>8, <1>9, <1>10 DEF Keeps, Has

\* A set of frames that is not empty has a last one.
LEMMA GreatestOne ==
  ASSUME NEW B \in Nat, NEW S, S \subseteq 1..B, S # {}
  PROVE  GreatestOf(S) \in S
<1> DEFINE f == [n \in S |-> B - n]
<1>1. f \in [S -> Nat]
  OBVIOUS
<1>2. \E i \in S : \A j \in S : f[i] <= f[j]
  <2> HIDE DEF f
  <2> QED
    BY <1>1, LeastOne
<1>3. \E i \in S : \A j \in S : i >= j
  BY <1>2
<1> QED
  BY <1>3 DEF GreatestOf

\* tick(): nothing is lost, and while all is well nothing is printed.
LEMMA TickedKeeps ==
  ASSUME NEW B \in Nat \ {0}, NumMod \in Nat \ {0}, NEW w \in WriterSet(B), NEW v, Ticks(B, w, v)
  PROVE  Keeps(B, w, v) /\ (v.ok => w.ok /\ v.printed = w.printed /\ v.next_number = w.next_number)
<1>1. CASE LateIn(B, w) = {}
  BY <1>1, AgesKeeps DEF Ticks
<1>2. CASE LateIn(B, w) # {}
  <2> DEFINE d == GreatestOf(LateIn(B, w))
             s == SkipIn(B, w, d)
             t == FaultOf(s)
  <2>1. v = Ages(t)
    BY <1>2 DEF Ticks
  <2>2. d \in 1..(B + 1)
    <3>1. LateIn(B, w) \subseteq 1..B
      BY DEF LateIn
    <3>2. d \in LateIn(B, w)
      BY <1>2, <3>1, GreatestOne
    <3> QED
      BY <3>1, <3>2
  <2> HIDE DEF d, s, t
  <2>3. s = SkipIn(B, w, d) /\ t = FaultOf(s)
    BY DEF s, t
  <2>4. Keeps(B, w, s)
    BY <2>2, <2>3, SkipKeeps
  <2>5. s \in WriterSet(B)
    BY <2>4 DEF Keeps
  <2>6. Keeps(B, s, t) /\ ~t.ok
    BY <2>3, <2>5, FaultKeeps
  <2>7. t \in WriterSet(B)
    BY <2>6 DEF Keeps
  <2>8. Keeps(B, t, v) /\ v.ok = t.ok
    BY <2>1, <2>7, AgesKeeps
  <2> QED
    BY <2>4, <2>6, <2>8, KeepsOn
<1> QED
  BY <1>1, <1>2

-----------------------------------------------------------------------------
\* The texts of one step follow the one printed last, and each other.
LEMMA TextsFollow ==
  ASSUME NumMod \in Nat \ {0}, NEW a \in Int, NEW p, NEW r \in Nat, RowFrom(a, p, r),
         NEW l, l = Before(a), NEW t, t = After(l, p), NEW e, e = a + r
  PROVE  InOrder(t) /\ t[Len(t)] = Before(e)
<1>0. p \in Seq(Int) /\ Len(p) = r /\ \A i \in 1..r : p[i] = (a + i - 1) % NumMod
  BY DEF RowFrom
<1>a. t = <<l>> \o p /\ l = (a - 1) % NumMod
  BY DEF After, Before
<1> DEFINE x == [i \in Int |-> (a + i - 1) % NumMod]
<1>1. \A i \in Int : x[i] = (a + i - 1) % NumMod
  OBVIOUS
<1> HIDE DEF x
<1>2. ASSUME NEW i \in Int PROVE x[i] \in Int /\ x[i] = (x[i - 1] + 1) % NumMod
  <2> DEFINE f == a + (i - 1) - 1
             o == 1
  <2>1. f \in Int /\ o \in Int /\ f + o = a + i - 1 /\ i - 1 \in Int
    OBVIOUS
  <2>2. x[i - 1] = f % NumMod /\ x[i] = (f + o) % NumMod
    BY <1>1, <2>1
  <2> HIDE DEF f, o
  <2>3. ((f % NumMod) + o) % NumMod = (f + o) % NumMod
    BY <2>1, ModAdd
  <2>4. (f + o) % NumMod \in 0..(NumMod - 1)
    <3>1. f + o \in Int
      BY <2>1
    <3> QED
      BY <3>1, Division
  <2> QED
    BY <2>2, <2>3, <2>4 DEF o
<1>3. l = x[0] /\ l \in Int
  <2>1. a + 0 - 1 = a - 1 /\ 0 \in Int
    OBVIOUS
  <2> QED
    BY <1>1, <1>2, <1>a, <2>1
<1>4. Len(t) = r + 1 /\ t[1] = l /\ \A i \in 1..r : t[i + 1] = p[i]
  <2>1. p \in Seq(Int) /\ Len(p) = r /\ t = <<l>> \o p /\ l \in Int
    BY <1>0, <1>3, <1>a
  <2>2. \A s \in Seq(Int) : /\ Len(<<l>> \o s) = Len(s) + 1 /\ (<<l>> \o s)[1] = l
                            /\ \A i \in 1..Len(s) : (<<l>> \o s)[i + 1] = s[i]
    BY <1>3
  <2> QED
    BY <2>1, <2>2, Zenon
<1>5. ASSUME NEW i \in 1..r PROVE p[i] = x[i]
  <2>1. i \in Int /\ p[i] = (a + i - 1) % NumMod
    BY <1>0
  <2> QED
    BY <1>1, <2>1, Zenon
<1>6. ASSUME NEW i \in 1..Len(t) PROVE t[i] = x[i - 1]
  <2>1. CASE i = 1
    <3>1. i - 1 = 0 /\ t[i] = t[1]
      BY <2>1
    <3> QED
      BY <1>3, <1>4, <3>1
  <2>2. CASE i # 1
    <3>1. i - 1 \in 1..r /\ (i - 1) + 1 = i
      BY <1>4, <2>2
    <3>2. t[(i - 1) + 1] = p[i - 1] /\ p[i - 1] = x[i - 1]
      BY <1>4, <1>5, <3>1
    <3> QED
      BY <3>1, <3>2
  <2> QED
    BY <2>1, <2>2
<1>7. t[Len(t)] = x[r]
  BY <1>4, <1>6
<1>8. ASSUME NEW i \in 2..Len(t) PROVE t[i] = (t[i - 1] + 1) % NumMod
  <2>1. i \in 1..Len(t) /\ i - 1 \in 1..Len(t) /\ i - 1 \in Int /\ Len(t) \in Nat
    BY <1>4
  <2>2. t[i] = x[i - 1] /\ t[i - 1] = x[(i - 1) - 1]
    BY <1>6, <2>1
  <2>3. x[i - 1] = (x[(i - 1) - 1] + 1) % NumMod
    BY <1>2, <2>1
  <2> QED
    BY <2>2, <2>3
<1>9. x[r] = Before(e)
  <2>1. r \in Int /\ e - 1 = a + r - 1
    OBVIOUS
  <2> QED
    BY <1>1, <2>1, Zenon DEF Before
<1> QED
  BY <1>4, <1>7, <1>8, <1>9 DEF InOrder

\* A step begins with nothing printed.
Silent(w) == [w EXCEPT !.printed = << >>]

LEMMA SilentKeeps ==
  ASSUME NEW B \in Nat \ {0}, NEW w \in WriterSet(B), NEW v, v = Silent(w)
  PROVE  /\ v \in WriterSet(B) /\ v.next_number = w.next_number /\ v.ok = w.ok /\ v.printed = << >>
         /\ \A x : HeldIn(w, x) <=> HeldIn(v, x)
         /\ MatchIn(B, w) => MatchIn(B, v)
<1>1. << >> \in Seq(Int)
  OBVIOUS
<1>2. /\ v \in WriterSet(B) /\ v.next_number = w.next_number /\ v.ok = w.ok /\ v.printed = << >>
      /\ v.buf = w.buf /\ v.ind = w.ind
  BY <1>1 DEF Silent, WriterSet
<1>3. \A n : WaitsIn(B, v, n) = WaitsIn(B, w, n) /\ FrameIn(B, v, n) = FrameIn(B, w, n)
  BY <1>2, Zenon DEF WaitsIn, FrameIn, PlaceIn
<1> QED
  BY <1>2, <1>3 DEF HeldIn, MatchIn

\* open() of the console: the frames stay as close() has left them, empty.
OpenedIn(w) == [next_number |-> 0, ind |-> 0, buf |-> w.buf, ok |-> TRUE, printed |-> << >>]

LEMMA OpenedKeeps ==
  ASSUME NEW B \in Nat \ {0}, NumMod \in Nat \ {0}, NEW w \in WriterSet(B), NEW v, v = OpenedIn(w)
  PROVE  v \in WriterSet(B) /\ v.next_number = 0 /\ (NoneWait(w) => NoneWait(v))
<1>1. << >> \in Seq(Int) /\ 0 \in 0..(NumMod - 1) /\ 0 \in 0..(B - 1)
  OBVIOUS
<1> QED
  BY <1>1 DEF OpenedIn, WriterSet, NoneWait

\* Before the first: no frame waits.
FirstIn(B) == [next_number |-> 0, ind |-> 0, buf |-> [i \in 0..(B - 1) |-> NoText], ok |-> FALSE, printed |-> << >>]

LEMMA FirstWriter ==
  ASSUME NEW B \in Nat \ {0}, NumMod \in Nat \ {0}
  PROVE  FirstIn(B) \in WriterSet(B) /\ NoneWait(FirstIn(B))
<1>1. << >> \in Seq(Int) /\ 0 \in 0..(NumMod - 1) /\ 0 \in 0..(B - 1)
  OBVIOUS
<1>2. [i \in 0..(B - 1) |-> NoText] \in [0..(B - 1) -> FrameSet]
  BY DEF NoText, FrameSet
<1> QED
  BY <1>1, <1>2 DEF FirstIn, WriterSet, NoneWait, NoText

\* The last one before 0.
LEMMA LastNumber ==
  ASSUME NumMod \in Nat \ {0}
  PROVE  NumMod - 1 = (0 - 1) % NumMod
<1>1. 0 - 1 = NumMod * (0 - 1) + (NumMod - 1) /\ 0 - 1 \in Int /\ NumMod - 1 \in 0..(NumMod - 1)
  OBVIOUS
<1> QED
  BY <1>1, DivisionUnique

\* What a call prints that leaves all well follows on, up to next_number.
LEMMA ShownInOrder ==
  ASSUME NEW B \in Nat \ {0}, 4 * B <= NumMod, NumMod \in Nat \ {0}, write_ticks \in Nat,
         NEW w \in WriterSet(B), MatchIn(B, w), w.printed = << >>,
         NEW number \in 0..(NumMod - 1), NEW v, Writes(B, w, number, v), v.ok,
         NEW l, l = Before(w.next_number), NEW t, t = After(l, v.printed)
  PROVE  InOrder(t) /\ t[Len(t)] = Before(v.next_number)
<1>1. PICK n \in 0..B : number = (w.next_number + n) % NumMod /\ v = WriteIn(B, w, n, number)
  BY WrittenKeeps DEF WritesNear
<1>2. number \in Int
  OBVIOUS
<1>3. PICK r \in 0..(B + 1) : Follows(w.next_number, v, r)
  BY <1>1, <1>2, WrittenInOrder
<1> DEFINE a == w.next_number
           p == v.printed
           e == a + r
           o == -1
<1>4. a \in Int /\ r \in Nat /\ e = a + r
  BY DEF WriterSet
<1>5. RowFrom(a, p, r) /\ l = Before(a) /\ t = After(l, p) /\ v.next_number = e % NumMod
  BY <1>3 DEF Follows
<1>6. e \in Int /\ o \in Int /\ e + o = e - 1
  BY <1>4
<1> HIDE DEF a, p, e
<1>7. InOrder(t) /\ t[Len(t)] = Before(e)
  BY <1>4, <1>5, TextsFollow
<1>8. e % NumMod \in 0..(NumMod - 1)
  BY <1>6, Division
<1>9. (e % NumMod) + o = v.next_number - 1
  BY <1>5, <1>8
<1> HIDE DEF o
<1>10. ((e % NumMod) + o) % NumMod = (e + o) % NumMod
  BY <1>6, ModAdd
<1>11. Before(v.next_number) = Before(e)
  BY <1>6, <1>9, <1>10, Zenon DEF Before
<1> QED
  BY <1>7, <1>11

-----------------------------------------------------------------------------
\* The invariant of the writer.
WriterOK == /\ w_opened \in BOOLEAN
            /\ w_writer \in WriterSet(WriterFrames) /\ MatchIn(WriterFrames, w_writer)
            /\ ~w_opened => NoneWait(w_writer)
            /\ w_opened /\ w_writer.ok => ~w_skipped /\ w_last = Before(w_writer.next_number)

\* The writer of its own part: it begins so, and each step keeps it.
LEMMA WriterFirst == W!Init => WriterOK
<1> SUFFICES ASSUME W!Init PROVE WriterOK
  OBVIOUS
<1>1. w_opened = FALSE /\ w_writer = FirstIn(WriterFrames)
  BY DEF W!Init, W!Opened, W!Empty, FirstIn, NoText
<1>2. FirstIn(WriterFrames) \in WriterSet(WriterFrames) /\ NoneWait(FirstIn(WriterFrames))
  BY SizesOfConsole, FirstWriter
<1>3. MatchIn(WriterFrames, FirstIn(WriterFrames))
  BY <1>2, SizesOfConsole, NoneMatch
<1> QED
  BY <1>1, <1>2, <1>3 DEF WriterOK

LEMMA WriterStays == WriterOK /\ W!Next => WriterOK'
<1> SUFFICES ASSUME WriterOK, W!Next PROVE WriterOK'
  OBVIOUS
<1> DEFINE B == WriterFrames
           w == Silent(w_writer)
           v == w_writer'
<1> HIDE DEF B
<1>1. B \in Nat \ {0} /\ 4 * B <= NumMod /\ NumMod \in Nat \ {0} /\ write_ticks \in Nat
  BY SizesOfConsole DEF B
<1>2. /\ w_writer \in WriterSet(B) /\ MatchIn(B, w_writer) /\ (~w_opened => NoneWait(w_writer))
      /\ w_opened \in BOOLEAN
  BY DEF WriterOK, B
<1>3. w = Silent(w_writer) /\ W!Quiet = w
  BY DEF W!Quiet, Silent
<1> HIDE DEF w
<1>4. /\ w \in WriterSet(B) /\ MatchIn(B, w) /\ w.printed = << >> /\ w.ok = w_writer.ok
      /\ w.next_number = w_writer.next_number
  BY <1>1, <1>2, <1>3, SilentKeeps
<1>5. CASE W!Open
  <2>1. /\ v = OpenedIn(w_writer) /\ w_opened' = TRUE /\ ~w_opened
        /\ w_last' = NumMod - 1 /\ w_skipped' = FALSE
    BY <1>5 DEF W!Open, W!Opened, OpenedIn
  <2>2. v \in WriterSet(B) /\ v.next_number = 0 /\ NoneWait(v)
    BY <1>1, <1>2, <2>1, OpenedKeeps
  <2>3. MatchIn(B, v)
    BY <1>1, <2>2, NoneMatch
  <2>4. w_last' = Before(v.next_number)
    BY <1>1, <2>1, <2>2, LastNumber DEF Before
  <2> QED
    BY <2>1, <2>2, <2>3, <2>4 DEF WriterOK, B
<1>6. CASE W!Close
  <2>1. v = PrintedIn(B, w, B) /\ w_opened' = FALSE
    BY <1>3, <1>6, SamePrinted DEF W!Close, W!Becomes, B
  <2>2. v \in WriterSet(B) /\ NoneWait(v)
    BY <1>1, <1>4, <2>1, AllPrinted
  <2>3. MatchIn(B, v)
    BY <1>1, <2>2, NoneMatch
  <2> QED
    BY <2>1, <2>2, <2>3 DEF WriterOK, B
<1>7. CASE W!Tick
  <2> DEFINE t == After(w_last, v.printed)
  <2>1. /\ w_opened /\ w_opened' = w_opened /\ v = W!Ticked(w)
        /\ w_last' = t[Len(t)] /\ w_skipped' = (w_skipped \/ ~InOrder(t))
    BY <1>3, <1>7 DEF W!Tick, W!Becomes, InOrder, After
  <2>2. Ticks(B, w, v)
    BY <2>1, SameTicked DEF B
  <2>3. Keeps(B, w, v) /\ (v.ok => w.ok /\ v.printed = w.printed /\ v.next_number = w.next_number)
    BY <1>1, <1>4, <2>2, TickedKeeps
  <2>4. v \in WriterSet(B) /\ MatchIn(B, v)
    BY <1>4, <2>3 DEF Keeps
  <2>5. ASSUME v.ok PROVE ~w_skipped' /\ w_last' = Before(v.next_number)
    <3>1. ~w_skipped /\ w_last = Before(w_writer.next_number)
      BY <1>4, <2>1, <2>3, <2>5 DEF WriterOK
    <3>2. v.printed = << >> /\ v.next_number = w_writer.next_number
      BY <1>4, <2>3, <2>5
    <3>3. t = <<w_last>>
      BY <3>2 DEF After
    <3>4. t[Len(t)] = w_last /\ InOrder(t)
      BY <3>3 DEF InOrder
    <3> QED
      BY <2>1, <3>1, <3>2, <3>4
  <2> QED
    BY <2>1, <2>4, <2>5 DEF WriterOK, B
<1>8. ASSUME NEW number \in W!Numbers, W!PutText(number)
      PROVE  WriterOK'
  <2> DEFINE t == After(w_last, v.printed)
  <2>1. /\ w_opened /\ w_opened' = w_opened /\ v = W!Written(w, number)
        /\ w_last' = t[Len(t)]
        /\ w_skipped' = (w_skipped \/ ~InOrder(t))
    BY <1>3, <1>8 DEF W!PutText, W!Becomes, InOrder, After
  <2>2. number \in 0..(NumMod - 1)
    <3>1. PICK n \in Int : number = (w_writer.next_number + n) % NumMod
      BY ConsoleAssumption DEF W!Numbers
    <3>2. w_writer.next_number + n \in Int
      BY <1>2 DEF WriterSet
    <3> QED
      BY <1>1, <3>1, <3>2, Division
  <2>3. Writes(B, w, number, v)
    <3>1. number - w.next_number \in Int
      BY <1>4, <2>2 DEF WriterSet
    <3>2. (number - w.next_number) % NumMod \in Nat
      BY <1>1, <3>1, Division
    <3> QED
      BY <2>1, <3>2, SameWritten DEF B
  <2>4. Keeps(B, w, v) /\ (v.ok => w.ok)
    BY <1>1, <1>4, <2>2, <2>3, WrittenKeeps
  <2>5. v \in WriterSet(B) /\ MatchIn(B, v)
    BY <1>4, <2>4 DEF Keeps
  <2>6. ASSUME v.ok PROVE ~w_skipped' /\ w_last' = Before(v.next_number)
    <3>1. ~w_skipped /\ w_last = Before(w.next_number)
      BY <1>4, <2>1, <2>4, <2>6 DEF WriterOK
    <3>2. t = After(w_last, v.printed)
      OBVIOUS
    <3> HIDE DEF t
    <3>3. InOrder(t) /\ t[Len(t)] = Before(v.next_number)
      BY <1>1, <1>4, <2>2, <2>3, <2>6, <3>1, <3>2, ShownInOrder
    <3> QED
      BY <2>1, <3>1, <3>3
  <2> QED
    BY <2>1, <2>5, <2>6 DEF WriterOK, B
<1> QED
  BY <1>5, <1>6, <1>7, <1>8 DEF W!Next

\* FramesMatch and OkMeansAll are parts of it.
LEMMA WriterMatches == WriterOK => W!OkMeansAll /\ W!FramesMatch
BY SamePlace DEF WriterOK, Before, MatchIn, W!OkMeansAll, W!FramesMatch

-----------------------------------------------------------------------------
\* The order of the texts.  A number that is less than half of all numbers past
\* another one comes after it.
Half == NumMod \div 2

\* The texts p go on after l, each less than half the numbers.
Rises(l, p) == \A i \in DOMAIN p : (p[i] - (IF i = 1 THEN l ELSE p[i - 1])) % NumMod < Half

\* The last one of l and then p.
LastOf(l, p) == IF p = << >> THEN l ELSE p[Len(p)]

\* A number that is less than half past another one is seen to be.
LEMMA Ahead ==
  ASSUME NumMod \in Nat \ {0}, NEW a \in Int, NEW n \in Nat, n < Half
  PROVE  /\ (((a + n) % NumMod) - (a % NumMod)) % NumMod = n
         /\ a \in 0..(NumMod - 1) => (((a + n) % NumMod) - a) % NumMod = n
<1> DEFINE b == a + n
           q == a % NumMod
           c == 0 - q
<1>1. b \in Int /\ b - a = n /\ n \in 0..(NumMod - 1)
  BY DEF Half
<1>2. q \in 0..(NumMod - 1)
  BY Division
<1>3. c \in Int /\ b + c = b - q
  BY <1>1, <1>2
<1>4. q = a % NumMod
  OBVIOUS
<1> HIDE DEF b, q, c
<1>5. ((b % NumMod) + c) % NumMod = (b + c) % NumMod /\ (b % NumMod) \in 0..(NumMod - 1)
  BY <1>1, <1>3, ModAdd
<1>6. (b - q) % NumMod = (b - a) % NumMod
  BY <1>1, <1>4, ModAdd
<1>7. n % NumMod = n
  BY <1>1, ModOwn
<1>8. (b % NumMod) + c = (b % NumMod) - q
  BY <1>2, <1>3, <1>5 DEF c
<1>9. ((b % NumMod) - q) % NumMod = n
  BY <1>1, <1>3, <1>5, <1>6, <1>7, <1>8
<1>10. a \in 0..(NumMod - 1) => q = a
  BY <1>4, ModOwn
<1> QED
  BY <1>9, <1>10 DEF b, q

\* Two runs one after the other.
LEMMA RisesOn ==
  ASSUME NEW p \in Seq(Int), NEW q \in Seq(Int), NEW l, Rises(l, p), Rises(LastOf(l, p), q)
  PROVE  Rises(l, p \o q) /\ LastOf(l, p \o q) = LastOf(LastOf(l, p), q)
<1> DEFINE s == p \o q
           m == LastOf(l, p)
<1>1. /\ s \in Seq(Int) /\ Len(s) = Len(p) + Len(q) /\ Len(p) \in Nat /\ Len(q) \in Nat
      /\ \A i \in 1..Len(p) : s[i] = p[i]
      /\ \A i \in 1..Len(q) : s[Len(p) + i] = q[i]
      /\ DOMAIN s = 1..Len(s) /\ DOMAIN p = 1..Len(p) /\ DOMAIN q = 1..Len(q)
  OBVIOUS
<1>2. (p = << >> <=> Len(p) = 0) /\ (q = << >> <=> Len(q) = 0) /\ (s = << >> <=> Len(s) = 0)
  BY <1>1
<1> HIDE DEF s
<1>3. ASSUME NEW i \in DOMAIN s PROVE (s[i] - (IF i = 1 THEN l ELSE s[i - 1])) % NumMod < Half
  <2>1. CASE i \in 1..Len(p)
    <3>1. s[i] = p[i] /\ (i # 1 => s[i - 1] = p[i - 1])
      BY <1>1, <2>1
    <3> QED
      BY <1>1, <2>1, <3>1 DEF Rises
  <2>2. CASE i \notin 1..Len(p)
    <3>1. PICK j \in 1..Len(q) : i = Len(p) + j
      <4>1. i - Len(p) \in 1..Len(q) /\ i = Len(p) + (i - Len(p))
        BY <1>1, <2>2
      <4> QED
        BY <4>1
    <3>2. s[i] = q[j] /\ (q[j] - (IF j = 1 THEN m ELSE q[j - 1])) % NumMod < Half
      BY <1>1, <3>1 DEF Rises
    <3>3. CASE j # 1
      <4>1. i # 1 /\ j - 1 \in 1..Len(q) /\ i - 1 = Len(p) + (j - 1)
        BY <1>1, <3>1, <3>3
      <4>2. s[i - 1] = q[j - 1]
        BY <1>1, <4>1
      <4> QED
        BY <3>2, <3>3, <4>1, <4>2
    <3>4. CASE j = 1 /\ Len(p) = 0
      <4>1. i = 1 /\ m = l
        BY <1>2, <3>1, <3>4 DEF LastOf
      <4> QED
        BY <3>2, <3>4, <4>1
    <3>5. CASE j = 1 /\ Len(p) # 0
      <4>1. i # 1 /\ i - 1 = Len(p) /\ Len(p) \in 1..Len(p) /\ m = p[Len(p)]
        BY <1>1, <1>2, <3>1, <3>5 DEF LastOf
      <4>2. s[i - 1] = m
        BY <1>1, <4>1
      <4> QED
        BY <3>2, <3>5, <4>1, <4>2
    <3> QED
      BY <3>3, <3>4, <3>5
  <2> QED
    BY <2>1, <2>2
<1>4. LastOf(l, s) = LastOf(m, q)
  <2>1. CASE Len(q) = 0
    <3>1. s = p
      BY <1>2, <2>1 DEF s
    <3> QED
      BY <1>2, <2>1, <3>1 DEF LastOf
  <2>2. CASE Len(q) # 0
    <3>1. Len(q) \in 1..Len(q) /\ s # << >> /\ q # << >>
      BY <1>1, <1>2, <2>2
    <3>2. s[Len(s)] = q[Len(q)]
      BY <1>1, <3>1
    <3> QED
      BY <3>1, <3>2 DEF LastOf
  <2> QED
    BY <2>1, <2>2
<1> QED
  BY <1>3, <1>4 DEF Rises, s

\* The numbers of a finite set in their order: each is more than the one before.
LEMMA NthInOrder ==
  ASSUME NEW S, IsFiniteSet(S), S \subseteq Nat
  PROVE  /\ \A i, j \in 1..Cardinality(S) : i < j => NthOf(S, i) < NthOf(S, j)
         /\ \A k \in S : NthOf(S, 1) <= k /\ k <= NthOf(S, Cardinality(S))
<1> DEFINE N == Cardinality(S)
           Upto(k) == {j \in S : j <= k}
<1>1. /\ N \in Nat /\ \A i \in 1..N : NthOf(S, i) \in S
      /\ \A k \in S : \E i \in 1..N : NthOf(S, i) = k
  BY NthOfSet
<1>2. \A i \in 1..N : Cardinality(Upto(NthOf(S, i))) = i
  BY NthOfSet
<1>3. \A k \in S : IsFiniteSet(Upto(k))
  <2>1. \A k \in S : Upto(k) \subseteq S
    OBVIOUS
  <2> QED
    BY <2>1, FS_Subset
<1>4. ASSUME NEW i \in 1..N, NEW j \in 1..N, i < j PROVE NthOf(S, i) < NthOf(S, j)
  <2> DEFINE a == NthOf(S, i)
             b == NthOf(S, j)
  <2>1. a \in S /\ b \in S /\ a \in Nat /\ b \in Nat
    BY <1>1
  <2> DEFINE u == Upto(a)
             v == Upto(b)
  <2>2. Cardinality(u) = i /\ Cardinality(v) = j /\ IsFiniteSet(u)
    BY <1>2, <1>3, <2>1
  <2> HIDE DEF a, b
  <2>3. ASSUME b <= a PROVE FALSE
    <3>1. \A x \in S : x \in Nat
      OBVIOUS
    <3>2. \A x \in S : x <= b => x <= a
      BY <2>1, <2>3, <3>1
    <3>3. v \in SUBSET u
      BY <3>2
    <3> HIDE DEF u, v
    <3>4. Cardinality(v) <= Cardinality(u)
      BY <2>2, <3>3, FS_Subset
    <3> QED
      BY <1>4, <2>2, <3>4
  <2> QED
    BY <2>1, <2>3 DEF a, b
<1> HIDE DEF Upto, N
<1>5. ASSUME NEW k \in S PROVE NthOf(S, 1) <= k /\ k <= NthOf(S, N)
  <2>1. PICK i \in 1..N : NthOf(S, i) = k
    BY <1>1
  <2>2. 1 \in 1..N /\ N \in 1..N /\ (i = 1 \/ 1 < i) /\ (i = N \/ i < N)
    BY <1>1, <2>1
  <2>3. NthOf(S, 1) \in Nat /\ NthOf(S, N) \in Nat /\ k \in Nat
    BY <1>1, <2>2
  <2> QED
    BY <1>4, <2>1, <2>2, <2>3
<1> QED
  BY <1>4, <1>5 DEF N

\* No frame of w waits.
Idle(B, w) == \A k \in 1..B : ~WaitsIn(B, w, k)

\* next_number of w is g past the one after x, and the first frame that waits is
\* less than half the numbers past x.
Stands(B, x, w, g) ==
  /\ x \in 0..(NumMod - 1) /\ g >= -1 /\ w.next_number = (x + 1 + g) % NumMod
  /\ \A k \in 1..B : WaitsIn(B, w, k) => \E j \in 1..k : WaitsIn(B, w, j) /\ 1 + g + j < Half

\* The text x was printed last; when no frame waits, next_number is e past it at most.
Fits(B, x, w, e) == \E g \in Int : Stands(B, x, w, g) /\ (Idle(B, w) => g <= e)

\* What is printed goes on after l, and so will what waits.
Sound(B, l, w, e) == Rises(l, w.printed) /\ Fits(B, LastOf(l, w.printed), w, e)

\* What print prints.
LEMMA PrintedTexts ==
  ASSUME NEW B \in Nat \ {0}, NEW w \in WriterSet(B), NEW n \in Nat
  PROVE  PrintedIn(B, w, n).printed = w.printed \o TextsIn(B, w, n)
BY Zenon DEF PrintedIn, WriterSet

LEMMA HalfSize ==
  ASSUME NEW B \in Nat \ {0}, NumMod \in Nat \ {0}, 4 * B <= NumMod
  PROVE  Half \in Nat /\ 2 * B <= Half /\ Half <= NumMod /\ Half < NumMod
BY DEF Half

\* p are the texts of the frames S: its last one is that of the greatest of S.
PrintsTo(S, p, x, g) ==
  /\ S = {} => p = << >>
  /\ S # {} => \E m \in S : (\A k \in S : k <= m) /\ LastOf(x, p) = (x + 1 + g + m) % NumMod

\* print of n frames.
LEMMA PrintRises ==
  ASSUME NEW B \in Nat \ {0}, NumMod \in Nat \ {0}, 4 * B <= NumMod, NEW w \in WriterSet(B), MatchIn(B, w),
         NEW n \in Nat, NEW x, NEW g \in Int, Stands(B, x, w, g), NEW p, p = TextsIn(B, w, n)
  PROVE  p \in Seq(Int) /\ Rises(x, p) /\ PrintsTo(ReadyIn(B, w, n), p, x, g)
<1> DEFINE S == ReadyIn(B, w, n)
           N == Cardinality(S)
           a == x + 1 + g
<1>0. /\ x \in 0..(NumMod - 1) /\ g >= -1 /\ w.next_number = a % NumMod
      /\ \A k \in 1..B : WaitsIn(B, w, k) => \E j \in 1..k : WaitsIn(B, w, j) /\ 1 + g + j < Half
      /\ Half \in Nat /\ 2 * B <= Half
  BY HalfSize DEF Stands
<1>1. S \subseteq Nat /\ S \subseteq 1..n /\ S \subseteq 1..B /\ IsFiniteSet(S) /\ \A k \in 1..n : k \in S <=> WaitsIn(B, w, k)
  <2>1. S \subseteq Nat /\ S \subseteq 1..n /\ S \subseteq 1..B /\ \A k \in 1..n : k \in S <=> WaitsIn(B, w, k)
    BY DEF ReadyIn, WaitsIn
  <2>2. S \in SUBSET (1..n)
    BY <2>1
  <2>3. IsFiniteSet(1..n)
    BY FS_Interval
  <2> HIDE DEF S
  <2>4. IsFiniteSet(S)
    BY <2>2, <2>3, FS_Subset
  <2> QED
    BY <2>1, <2>4
<1> HIDE DEF S
<1>2. /\ N \in Nat /\ \A i \in 1..N : NthOf(S, i) \in S
      /\ \A i, j \in 1..N : i < j => NthOf(S, i) < NthOf(S, j)
      /\ \A k \in S : NthOf(S, 1) <= k /\ k <= NthOf(S, N)
  BY <1>1, NthOfSet, NthInOrder
<1>3. a \in Int
  BY <1>0
<1>4. ASSUME NEW k \in S PROVE FrameIn(B, w, k).number = (a + k) % NumMod /\ (a + k) % NumMod \in Int
  <2>1. k \in Int /\ FrameIn(B, w, k).number = (w.next_number + k) % NumMod
    BY <1>1 DEF MatchIn
  <2>2. ((a % NumMod) + k) % NumMod = (a + k) % NumMod /\ a + k \in Int
    BY <1>3, <2>1, ModAdd
  <2>3. (a + k) % NumMod \in 0..(NumMod - 1)
    BY <2>2, Division
  <2> QED
    BY <1>0, <2>1, <2>2, <2>3
<1> HIDE DEF a
<1> DEFINE e == [i \in 1..N |-> NthOf(S, i)]
<1>5. p \in Seq(Int) /\ Len(p) = N /\ \A i \in 1..N : e[i] \in S /\ p[i] = (a + e[i]) % NumMod
  <2>1. p = [i \in 1..N |-> FrameIn(B, w, NthOf(S, i)).number]
    BY DEF TextsIn, S, N
  <2>2. \A i \in 1..N : /\ FrameIn(B, w, NthOf(S, i)).number = (a + NthOf(S, i)) % NumMod
                        /\ (a + NthOf(S, i)) % NumMod \in Int
    BY <1>2, <1>4
  <2> HIDE DEF N
  <2> QED
    BY <1>2, <2>1, <2>2
<1>6. /\ \A i, j \in 1..N : i < j => e[i] < e[j]
      /\ \A k \in S : N \in Nat \ {0} /\ e[1] <= k /\ k <= e[N]
  <2>1. S = {} <=> N = 0
    BY <1>1, FS_EmptySet
  <2> HIDE DEF N
  <2>2. \A i \in 1..N : e[i] = NthOf(S, i)
    OBVIOUS
  <2> HIDE DEF e
  <2>3. ASSUME NEW i \in 1..N, NEW j \in 1..N, i < j PROVE e[i] < e[j]
    BY <1>2, <2>2, <2>3
  <2>4. ASSUME NEW k \in S PROVE N \in Nat \ {0} /\ e[1] <= k /\ k <= e[N]
    <3>1. N \in Nat \ {0} /\ N \in 1..N /\ 1 \in 1..N
      BY <1>2, <2>1
    <3> QED
      BY <1>2, <2>2, <3>1
  <2> QED
    BY <2>3, <2>4
<1>7. (S = {} => p = << >>) /\ (S # {} => N \in Nat \ {0})
  <2>1. S = {} <=> N = 0
    BY <1>1, FS_EmptySet
  <2> HIDE DEF N, e
  <2> QED
    BY <1>2, <1>5, <2>1
<1> HIDE DEF e, N
<1>8. ASSUME NEW i \in 1..N PROVE (p[i] - (IF i = 1 THEN x ELSE p[i - 1])) % NumMod < Half
  <2>0. i \in Int /\ e[i] \in S /\ e[i] \in 1..B /\ WaitsIn(B, w, e[i]) /\ p[i] = (a + e[i]) % NumMod
    <3>1. e[i] \in S /\ p[i] = (a + e[i]) % NumMod
      BY <1>5
    <3>2. \A k \in S : k \in 1..B /\ WaitsIn(B, w, k)
      BY <1>1
    <3> QED
      BY <3>1, <3>2
  <2>1. CASE i = 1
    <3>1. PICK j \in 1..e[i] : WaitsIn(B, w, j) /\ 1 + g + j < Half
      BY <1>0, <2>0
    <3>2. j \in S /\ j = e[i]
      BY <1>1, <1>6, <2>0, <2>1, <3>1
    <3> DEFINE z == 1 + g + e[i]
    <3>3. z \in Nat /\ z < Half /\ x + z = a + e[i] /\ x \in Int
      BY <1>0, <2>0, <3>1, <3>2 DEF a
    <3> HIDE DEF z
    <3>4. (((x + z) % NumMod) - x) % NumMod = z
      BY <1>0, <3>3, Ahead
    <3> QED
      BY <2>0, <2>1, <3>3, <3>4
  <2>2. CASE i # 1
    <3>1. i - 1 \in 1..N /\ i - 1 < i
      BY <1>2, <2>2
    <3>2. e[i - 1] \in 1..B /\ e[i - 1] < e[i] /\ p[i - 1] = (a + e[i - 1]) % NumMod
      BY <1>1, <1>5, <1>6, <3>1
    <3> DEFINE y == a + e[i - 1]
               z == e[i] - e[i - 1]
    <3>3. y \in Int /\ z \in Nat /\ z < Half /\ y + z = a + e[i]
      BY <1>0, <1>3, <2>0, <3>2
    <3>4. p[i - 1] = y % NumMod
      BY <3>2
    <3> HIDE DEF y, z
    <3>5. (((y + z) % NumMod) - (y % NumMod)) % NumMod = z
      BY <3>3, Ahead
    <3> QED
      BY <2>0, <2>2, <3>3, <3>4, <3>5
  <2> QED
    BY <2>1, <2>2
<1>9. Rises(x, p)
  BY <1>5, <1>8 DEF Rises
<1>10. ASSUME S # {}
       PROVE  \E m \in S : (\A k \in S : k <= m) /\ LastOf(x, p) = (a + m) % NumMod
  <2>1. N \in 1..N /\ p # << >>
    BY <1>5, <1>7, <1>10
  <2>2. e[N] \in S /\ LastOf(x, p) = (a + e[N]) % NumMod
    BY <1>5, <2>1 DEF LastOf
  <2> QED
    BY <1>6, <2>2
<1> QED
  BY <1>5, <1>7, <1>9, <1>10 DEF PrintsTo, S, a

\* Of the frames that are gone past none waits; the others wait on.
LEMMA SkippedWaits ==
  ASSUME NEW B \in Nat \ {0}, NEW w \in WriterSet(B), NEW d \in 1..(B + 1), NumMod \in Nat \ {0},
         NEW r, r = ReachIn(B, w, d), NEW v, v = SkipIn(B, w, d)
  PROVE  \A n \in 1..B : WaitsIn(B, v, n) <=> r + n <= B /\ WaitsIn(B, w, r + n)
<1> DEFINE u == PrintedIn(B, w, r)
<1>1. r \in d..(B + 1) /\ r \in 1..(B + 1)
  BY ReachStops
<1>2. /\ u \in WriterSet(B) /\ u.ind = w.ind
      /\ \A i \in 0..(B - 1) : u.buf[i] = IF \E k \in 1..r : PlaceIn(B, w, k) = i THEN NoText ELSE w.buf[i]
  BY <1>1, PrintedFrames
<1>3. v = [u EXCEPT !.next_number = (u.next_number + r) % NumMod, !.ind = (u.ind + r) % B]
  BY DEF SkipIn
<1> HIDE DEF u
<1>4. w.ind \in 0..(B - 1) /\ w.ind \in Int /\ w.buf \in [0..(B - 1) -> FrameSet]
  BY DEF WriterSet
<1>5. v.buf = u.buf /\ v.ind = (w.ind + r) % B
  BY <1>2, <1>3 DEF WriterSet
<1> SUFFICES ASSUME NEW n \in 1..B PROVE WaitsIn(B, v, n) <=> r + n <= B /\ WaitsIn(B, w, r + n)
  OBVIOUS
<1> DEFINE i == PlaceIn(B, v, n)
<1>6. i = PlaceIn(B, w, r + n)
  <2> DEFINE a == w.ind + r
             b == n - 1
             c == a % B
  <2>1. a \in Int
    BY <1>1, <1>4
  <2>2. c \in 0..(B - 1)
    BY <2>1, Division
  <2>3. i = (c + n - 1) % B
    BY <1>5 DEF PlaceIn
  <2>4. b \in Int /\ c + b = c + n - 1 /\ a + b = w.ind + (r + n) - 1
    BY <1>1, <1>4, <2>2
  <2> HIDE DEF i, a, b
  <2>5. (c + b) % B = (a + b) % B
    BY <2>1, <2>4, ModAdd DEF c
  <2> QED
    BY <2>3, <2>4, <2>5 DEF PlaceIn
<1> HIDE DEF i
<1>7. r + n \in Int /\ r + n >= 1 /\ i \in 0..(B - 1)
  <2>1. r + n \in Int /\ r + n >= 1
    BY <1>1
  <2> QED
    BY <1>4, <1>6, <2>1, PlaceInRing
<1>8. WaitsIn(B, v, n) <=> u.buf[i].ok
  BY <1>5 DEF WaitsIn, FrameIn, i
<1>9. CASE r + n <= B
  <2>1. r + n \in 1..B /\ \A k \in 1..r : k \in 1..B /\ k # r + n
    BY <1>1, <1>9
  <2>2. \A k \in 1..r : PlaceIn(B, w, k) # i
    <3>1. \A k, m \in 1..B : PlaceIn(B, w, k) = PlaceIn(B, w, m) => k = m
      BY <1>4, PlaceInRing
    <3> QED
      BY <1>6, <2>1, <3>1
  <2>3. u.buf[i] = w.buf[i]
    BY <1>2, <1>7, <2>2
  <2> QED
    BY <1>6, <1>8, <1>9, <2>1, <2>3 DEF WaitsIn, FrameIn
<1>10. CASE r + n > B
  <2>1. \E k \in 1..r : PlaceIn(B, w, k) = i
    <3>1. CASE r <= B
      <4> DEFINE m == r + n - B
      <4>1. m \in 1..r /\ m \in Int /\ m + B = r + n
        BY <1>1, <1>10, <3>1
      <4> HIDE DEF m
      <4>2. PlaceIn(B, w, m + B) = PlaceIn(B, w, m)
        <5>1. \A k \in Int : PlaceIn(B, w, k + B) = PlaceIn(B, w, k)
          BY <1>4, PlaceInRing
        <5> QED
          BY <4>1, <5>1, Zenon
      <4> QED
        BY <1>6, <4>1, <4>2
    <3>2. CASE r = B + 1
      <4>1. \A j \in 0..(B - 1) : \E k \in 1..B : PlaceIn(B, w, k) = j
        BY <1>4, PlaceInRing
      <4>2. PICK k \in 1..B : PlaceIn(B, w, k) = i
        BY <1>7, <4>1
      <4> QED
        BY <3>2, <4>2
    <3> QED
      BY <1>1, <3>1, <3>2
  <2>2. ~u.buf[i].ok
    BY <1>2, <1>7, <2>1 DEF NoText
  <2>3. ~ (r + n <= B)
    BY <1>1, <1>10
  <2> QED
    BY <1>8, <2>2, <2>3
<1> QED
  BY <1>1, <1>9, <1>10

\* d frames and those that wait behind them are gone past: what is printed goes on.
LEMMA SkipSounds ==
  ASSUME NEW B \in Nat \ {0}, NumMod \in Nat \ {0}, 4 * B <= NumMod, NEW w \in WriterSet(B), MatchIn(B, w),
         NEW l, NEW e \in Int, e >= -1, Sound(B, l, w, e), NEW d \in 1..(B + 1),
         NEW r, r = ReachIn(B, w, d), NEW v, v = SkipIn(B, w, d),
         NEW f \in Int, (r = d => f >= e + r), f >= 0
  PROVE  Sound(B, l, v, f)
<1> DEFINE x == LastOf(l, w.printed)
           S == ReadyIn(B, w, r)
           q == TextsIn(B, w, r)
           y == PrintedIn(B, w, r)
<1>0. Half \in Nat /\ 2 * B <= Half
  BY HalfSize
<1>1. /\ r \in d..(B + 1) /\ r \in Nat /\ r >= 1 /\ ~WaitsIn(B, w, r) /\ \A k \in d..(r - 1) : WaitsIn(B, w, k)
      /\ v.next_number = (w.next_number + r) % NumMod /\ v.printed = y.printed
  BY SkipKeeps
<1>2. \A n \in 1..B : WaitsIn(B, v, n) <=> r + n <= B /\ WaitsIn(B, w, r + n)
  BY SkippedWaits
<1>3. PICK g \in Int : Stands(B, x, w, g) /\ (Idle(B, w) => g <= e)
  BY DEF Sound, Fits
<1>4. Rises(l, w.printed) /\ w.printed \in Seq(Int)
  BY DEF Sound, WriterSet
<1> HIDE DEF y
<1>5. v.printed = w.printed \o q
  <2>1. y = PrintedIn(B, w, r) /\ r \in Nat
    BY <1>1 DEF y
  <2>2. y.printed = w.printed \o TextsIn(B, w, r)
    BY <2>1, PrintedTexts
  <2> QED
    BY <1>1, <2>2
<1> HIDE DEF x
<1>6. /\ q \in Seq(Int) /\ Rises(x, q) /\ (S = {} => q = << >>)
      /\ S # {} => \E m \in S : (\A k \in S : k <= m) /\ LastOf(x, q) = (x + 1 + g + m) % NumMod
  <2>1. r \in Nat /\ Stands(B, x, w, g) /\ q = TextsIn(B, w, r)
    BY <1>1, <1>3
  <2> HIDE DEF q
  <2>2. q \in Seq(Int) /\ Rises(x, q) /\ PrintsTo(ReadyIn(B, w, r), q, x, g)
    BY <2>1, PrintRises
  <2> QED
    BY <2>2 DEF PrintsTo
<1> HIDE DEF q
<1>7. Rises(l, v.printed) /\ LastOf(l, v.printed) = LastOf(x, q)
  BY <1>4, <1>5, <1>6, RisesOn DEF x
<1>8. /\ x \in 0..(NumMod - 1) /\ x \in Int /\ g >= -1 /\ w.next_number = (x + 1 + g) % NumMod
      /\ \A k \in 1..B : WaitsIn(B, w, k) => \E j \in 1..k : WaitsIn(B, w, j) /\ 1 + g + j < Half
  BY <1>3 DEF Stands
<1>9. v.next_number = (x + 1 + g + r) % NumMod
  <2> DEFINE c == x + 1 + g
  <2>1. c \in Int /\ r \in Int
    BY <1>1, <1>8
  <2> HIDE DEF c
  <2>2. ((c % NumMod) + r) % NumMod = (c + r) % NumMod
    BY <2>1, ModAdd
  <2> QED
    BY <1>1, <1>8, <2>2 DEF c
<1>10. \A k \in 1..r : k \in S <=> WaitsIn(B, w, k)
  BY DEF ReadyIn
<1> HIDE DEF S
<1>11. CASE S = {}
  <2> DEFINE h == g + r
  <2>0. LastOf(x, q) = x
    BY <1>6, <1>11 DEF LastOf
  <2>1. h \in Int /\ h >= -1 /\ x + 1 + h = x + 1 + g + r
    BY <1>1, <1>8
  <2>2. r = d
    BY <1>1, <1>10, <1>11
  <2>3. ASSUME NEW k \in 1..B, WaitsIn(B, v, k) PROVE \E j \in 1..k : WaitsIn(B, v, j) /\ 1 + h + j < Half
    <3>1. r + k \in 1..B /\ WaitsIn(B, w, r + k)
      BY <1>1, <1>2, <2>3
    <3>2. PICK j \in 1..(r + k) : WaitsIn(B, w, j) /\ 1 + g + j < Half
      BY <1>8, <3>1
    <3>3. j \notin 1..r
      BY <1>10, <1>11, <3>2
    <3>4. j - r \in 1..k /\ j - r \in 1..B /\ r + (j - r) = j /\ j <= B
      BY <1>1, <3>1, <3>2, <3>3
    <3>5. WaitsIn(B, v, j - r) /\ 1 + h + (j - r) < Half
      BY <1>1, <1>2, <1>8, <3>2, <3>4
    <3> QED
      BY <3>4, <3>5
  <2>4. Idle(B, v) => h <= f
    <3>1. ASSUME Idle(B, v) PROVE Idle(B, w)
      <4> SUFFICES ASSUME NEW k \in 1..B, WaitsIn(B, w, k) PROVE FALSE
        BY DEF Idle
      <4>1. k \notin 1..r
        BY <1>10, <1>11
      <4>2. k - r \in 1..B /\ r + (k - r) = k
        BY <1>1, <4>1
      <4> QED
        BY <1>2, <3>1, <4>2 DEF Idle
    <3> QED
      BY <1>1, <1>3, <2>2, <3>1
  <2>5. Stands(B, x, v, h)
    BY <1>8, <1>9, <2>1, <2>3 DEF Stands
  <2> QED
    BY <1>7, <2>0, <2>1, <2>4, <2>5 DEF Sound, Fits
<1>12. CASE S # {}
  <2>1. PICK m \in S : (\A k \in S : k <= m) /\ LastOf(x, q) = (x + 1 + g + m) % NumMod
    BY <1>6, <1>12
  <2>2. m \in 1..(r - 1) /\ m \in Int
    <3>1. m \in 1..r
      BY <2>1 DEF S, ReadyIn
    <3>2. m # r
      BY <1>1, <1>10, <3>1
    <3> QED
      BY <1>1, <3>1, <3>2
  <2> DEFINE h == r - m - 1
             c == x + 1 + g + m
             z == c % NumMod
  <2>3. h \in Int /\ h >= -1 /\ c \in Int /\ c + (1 + h) = x + 1 + g + r
    <3>1. x \in Int /\ g \in Int /\ r \in Int
      BY <1>1, <1>8
    <3>2. m \in Int /\ m <= r - 1
      BY <2>2, <3>1
    <3> QED
      BY <3>1, <3>2
  <2>4. z \in 0..(NumMod - 1)
    <3> HIDE DEF c
    <3> QED
      BY <2>3, Division
  <2>5. v.next_number = (z + 1 + h) % NumMod
    <3> DEFINE o == 1 + h
    <3>1. o \in Int /\ c + o = x + 1 + g + r /\ z + o = z + 1 + h
      BY <2>3, <2>4
    <3> HIDE DEF c, o
    <3>2. ((c % NumMod) + o) % NumMod = (c + o) % NumMod
      BY <2>3, <3>1, ModAdd
    <3> QED
      BY <1>9, <3>1, <3>2
  <2>6. ASSUME NEW k \in 1..B, WaitsIn(B, v, k) PROVE \E j \in 1..k : WaitsIn(B, v, j) /\ 1 + h + j < Half
    <3>1. r + k <= B
      BY <1>2, <2>6
    <3>2. 1 + h + k < Half
      BY <1>0, <1>1, <2>2, <3>1
    <3> QED
      BY <2>6, <3>2
  <2>7. h <= f
    <3>1. CASE r = d
      BY <1>1, <2>2, <3>1
    <3>2. CASE r # d
      <4>1. r - 1 \in 1..r /\ r - 1 \in d..(r - 1)
        BY <1>1, <3>2
      <4>2. r - 1 \in S
        BY <1>1, <1>10, <4>1
      <4> QED
        BY <1>1, <2>1, <2>2, <4>2
    <3> QED
      BY <3>1, <3>2
  <2>8. Stands(B, z, v, h)
    BY <2>3, <2>4, <2>5, <2>6 DEF Stands
  <2> QED
    BY <1>7, <2>1, <2>3, <2>7, <2>8 DEF Sound, Fits
<1> QED
  BY <1>11, <1>12

\* The error is shown.
LEMMA FaultSounds ==
  ASSUME NEW B, NEW w \in WriterSet(B), NEW l, NEW e, Sound(B, l, w, e), NEW v, v = FaultOf(w)
  PROVE  Sound(B, l, v, e)
<1>1. v.next_number = w.next_number /\ v.ind = w.ind /\ v.buf = w.buf /\ v.printed = w.printed
  BY DEF FaultOf, WriterSet
<1>2. \A n : WaitsIn(B, v, n) <=> WaitsIn(B, w, n)
  BY <1>1 DEF WaitsIn, FrameIn, PlaceIn
<1> QED
  BY <1>1, <1>2 DEF Sound, Fits, Stands, Idle

\* set: a text that is not too far past what was printed.
LEMMA SetSounds ==
  ASSUME NEW B \in Nat \ {0}, NumMod \in Nat \ {0}, 4 * B <= NumMod, write_ticks \in Nat,
         NEW w \in WriterSet(B), NEW n \in 1..B,
         NEW number \in Int, number = (w.next_number + n) % NumMod, NEW v, v = SetIn(B, w, n, number),
         NEW l, NEW e \in Int, Sound(B, l, w, e), 1 + e + n < Half
  PROVE  Sound(B, l, v, 0)
<1> DEFINE i == PlaceIn(B, w, n)
           x == LastOf(l, w.printed)
<1>0. w.ind \in 0..(B - 1) /\ w.buf \in [0..(B - 1) -> FrameSet] /\ i \in 0..(B - 1)
  <2>1. w.ind \in 0..(B - 1) /\ w.buf \in [0..(B - 1) -> FrameSet] /\ n \in Int
    BY DEF WriterSet
  <2> QED
    BY <2>1, PlaceInRing
<1>1. PICK g \in Int : Stands(B, x, w, g) /\ (Idle(B, w) => g <= e)
  BY DEF Sound, Fits
<1>2. CASE WaitsIn(B, w, n)
  <2>1. v = FaultOf(w) /\ ~Idle(B, w)
    BY <1>2 DEF SetIn, Idle
  <2>2. Sound(B, l, w, 0)
    BY <1>1, <2>1 DEF Sound, Fits
  <2> QED
    BY <2>1, <2>2, FaultSounds
<1>3. CASE ~WaitsIn(B, w, n)
  <2>1. v = [w EXCEPT !.buf = [w.buf EXCEPT ![i] = TextOf(number)]]
    BY <1>3 DEF SetIn
  <2>2. /\ v.printed = w.printed /\ v.next_number = w.next_number /\ v.ind = w.ind
        /\ v.buf = [w.buf EXCEPT ![i] = TextOf(number)]
    BY <2>1 DEF WriterSet
  <2>3. v.buf[i].ok /\ \A k \in 0..(B - 1) : k # i => v.buf[k] = w.buf[k]
    BY <1>0, <2>2 DEF TextOf
  <2> HIDE DEF i
  <2>4. ASSUME NEW k \in 1..B PROVE WaitsIn(B, v, k) <=> k = n \/ WaitsIn(B, w, k)
    <3>1. PlaceIn(B, v, k) = PlaceIn(B, w, k) /\ PlaceIn(B, w, k) \in 0..(B - 1)
      <4>1. PlaceIn(B, v, k) = PlaceIn(B, w, k)
        BY <2>2 DEF PlaceIn
      <4>2. k \in Int
        OBVIOUS
      <4> QED
        BY <1>0, <4>1, <4>2, PlaceInRing
    <3>2. k # n => PlaceIn(B, w, k) # i
      BY <1>0, PlaceInRing DEF i
    <3> QED
      BY <2>3, <3>1, <3>2 DEF WaitsIn, FrameIn, i
  <2>5. /\ x \in 0..(NumMod - 1) /\ g >= -1 /\ w.next_number = (x + 1 + g) % NumMod
        /\ \A k \in 1..B : WaitsIn(B, w, k) => \E j \in 1..k : WaitsIn(B, w, j) /\ 1 + g + j < Half
        /\ Half \in Nat
    BY <1>1, HalfSize DEF Stands
  <2>6. ASSUME NEW k \in 1..B, WaitsIn(B, v, k) PROVE \E j \in 1..k : WaitsIn(B, v, j) /\ 1 + g + j < Half
    <3>1. CASE WaitsIn(B, w, k)
      BY <2>4, <2>5, <3>1
    <3>2. CASE k = n /\ Idle(B, w)
      BY <1>1, <2>5, <2>6, <3>2
    <3>3. CASE k = n /\ ~Idle(B, w)
      <4>1. PICK m \in 1..B : WaitsIn(B, w, m)
        BY <3>3 DEF Idle
      <4>2. PICK j \in 1..m : WaitsIn(B, w, j) /\ 1 + g + j < Half
        BY <2>5, <4>1
      <4>3. j \in 1..B /\ WaitsIn(B, v, j) /\ WaitsIn(B, v, n)
        BY <2>4, <4>2
      <4>4. j \in 1..n \/ 1 + g + n < Half
        BY <2>5, <4>2
      <4> QED
        BY <3>3, <4>2, <4>3, <4>4
    <3> QED
      BY <2>4, <2>6, <3>1, <3>2, <3>3
  <2>7. ~Idle(B, v)
    BY <2>4 DEF Idle
  <2>8. Stands(B, x, v, g)
    BY <2>2, <2>5, <2>6 DEF Stands
  <2> QED
    BY <2>2, <2>7, <2>8 DEF Sound, Fits
<1> QED
  BY <1>2, <1>3

\* One text that is less than half the numbers on.
LEMMA OneRises ==
  ASSUME NEW l, NEW t \in Int, (t - l) % NumMod < Half
  PROVE  <<t>> \in Seq(Int) /\ Rises(l, <<t>>) /\ LastOf(l, <<t>>) = t
BY DEF Rises, LastOf

\* The text with next_number is printed at once.
LEMMA AppendSounds ==
  ASSUME NEW B \in Nat \ {0}, NumMod \in Nat \ {0}, 4 * B <= NumMod, NEW w \in WriterSet(B),
         NEW v, v = [w EXCEPT !.printed = Append(@, w.next_number)],
         NEW l, NEW e \in Int, Sound(B, l, w, e), 1 + e < Half
  PROVE  Sound(B, l, v, -1)
<1> DEFINE x == LastOf(l, w.printed)
           a == w.next_number
<1>0. Half \in Nat /\ 2 * B <= Half
  BY HalfSize
<1>1. PICK g \in Int : Stands(B, x, w, g) /\ (Idle(B, w) => g <= e)
  BY DEF Sound, Fits
<1>2. /\ x \in 0..(NumMod - 1) /\ g >= -1 /\ a = (x + 1 + g) % NumMod
      /\ \A k \in 1..B : WaitsIn(B, w, k) => \E j \in 1..k : WaitsIn(B, w, j) /\ 1 + g + j < Half
  BY <1>1 DEF Stands
<1>3. a \in 0..(NumMod - 1) /\ a \in Int /\ w.printed \in Seq(Int)
  BY DEF WriterSet
<1>4. 1 + g < Half /\ 1 + g \in Nat
  <2>1. CASE Idle(B, w)
    <3>1. g <= e
      BY <1>1, <2>1
    <3>2. g >= -1 /\ Half \in Nat
      BY <1>0, <1>2
    <3> QED
      BY <3>1, <3>2
  <2>2. CASE ~Idle(B, w)
    <3>1. PICK k \in 1..B : WaitsIn(B, w, k)
      BY <2>2 DEF Idle
    <3>2. PICK j \in 1..k : WaitsIn(B, w, j) /\ 1 + g + j < Half
      BY <1>2, <3>1
    <3>3. j \in Int /\ j >= 1 /\ 1 + g + j < Half /\ g \in Int /\ g >= -1
      BY <1>2, <3>1, <3>2
    <3> QED
      BY <1>0, <3>3
  <2> QED
    BY <2>1, <2>2
<1> HIDE DEF x, a
<1>5. Rises(x, <<a>>) /\ LastOf(x, <<a>>) = a /\ <<a>> \in Seq(Int)
  <2> DEFINE z == 1 + g
  <2>1. z \in Nat /\ z < Half /\ x \in Int /\ x + 1 + g = x + z
    BY <1>2, <1>4
  <2> HIDE DEF z
  <2>2. (((x + z) % NumMod) - x) % NumMod = z
    BY <1>2, <2>1, Ahead
  <2>3. (a - x) % NumMod < Half
    BY <1>2, <2>1, <2>2
  <2> QED
    BY <1>3, <2>3, OneRises
<1>6. v.printed = w.printed \o <<a>>
  <2>1. v = [w EXCEPT !.printed = Append(w.printed, a)] /\ v.printed = Append(w.printed, a)
    BY DEF WriterSet, a
  <2>2. \A p \in Seq(Int) : Append(p, a) = p \o <<a>>
    BY <1>3
  <2> QED
    BY <1>3, <2>1, <2>2
<1>7. Rises(l, w.printed)
  BY DEF Sound
<1>8. Rises(l, v.printed) /\ LastOf(l, v.printed) = a
  <2> DEFINE p == w.printed
             q == <<a>>
  <2>1. p \in Seq(Int) /\ q \in Seq(Int) /\ Rises(l, p) /\ Rises(LastOf(l, p), q) /\ LastOf(LastOf(l, p), q) = a
    BY <1>3, <1>5, <1>7 DEF x
  <2>2. v.printed = p \o q
    BY <1>6
  <2> HIDE DEF p, q
  <2>3. Rises(l, p \o q) /\ LastOf(l, p \o q) = LastOf(LastOf(l, p), q)
    BY <2>1, RisesOn
  <2> QED
    BY <2>1, <2>2, <2>3
<1>9. v.next_number = a /\ \A n : WaitsIn(B, v, n) <=> WaitsIn(B, w, n)
  <2>1. a \in Int /\ v = [w EXCEPT !.printed = Append(@, a)]
    BY <1>3 DEF a
  <2>2. v.next_number = w.next_number /\ \A n : WaitsIn(B, v, n) = WaitsIn(B, w, n)
    BY <2>1, AppendKeeps
  <2> QED
    BY <2>2 DEF a
<1>10. Stands(B, a, v, -1)
  <2>1. a = (a + 1 + (-1)) % NumMod
    <3>1. a % NumMod = a /\ a + 1 + (-1) = a
      BY <1>3, ModOwn
    <3> QED
      BY <3>1
  <2>2. ASSUME NEW k \in 1..B, WaitsIn(B, v, k) PROVE \E j \in 1..k : WaitsIn(B, v, j) /\ 1 + (-1) + j < Half
    <3>1. 1 + (-1) + k < Half /\ k \in 1..k
      BY <1>0
    <3> QED
      BY <2>2, <3>1
  <2>3. v.next_number = (a + 1 + (-1)) % NumMod
    BY <1>9, <2>1
  <2>4. -1 >= -1
    OBVIOUS
  <2> QED
    BY <1>3, <2>2, <2>3, <2>4, Zenon DEF Stands
<1> QED
  BY <1>8, <1>10 DEF Sound, Fits

\* write(): a text that is n past next_number.
LEMMA WriteSounds ==
  ASSUME NEW B \in Nat \ {0}, NumMod \in Nat \ {0}, 4 * B <= NumMod, write_ticks \in Nat,
         NEW w \in WriterSet(B), MatchIn(B, w), NEW n \in 0..B,
         NEW number \in Int, number = (w.next_number + n) % NumMod, NEW v, v = WriteIn(B, w, n, number),
         NEW l, NEW e \in Int, Sound(B, l, w, e), 1 + e + n < Half
  PROVE  Sound(B, l, v, 0)
<1>1. CASE n = 0
  <2> DEFINE u == [w EXCEPT !.printed = Append(@, number)]
  <2>1. number = w.next_number
    <3>1. w.next_number \in 0..(NumMod - 1) /\ w.next_number \in Int
      BY DEF WriterSet
    <3>2. w.next_number % NumMod = w.next_number /\ w.next_number + n = w.next_number
      BY <1>1, <3>1, ModOwn
    <3> QED
      BY <3>2
  <2>2. Keeps(B, w, u)
    BY AppendKeeps
  <2>3. u \in WriterSet(B) /\ MatchIn(B, u)
    BY <2>2 DEF Keeps
  <2>4. u = [w EXCEPT !.printed = Append(@, w.next_number)]
    BY <2>1
  <2>5. v = SkipIn(B, u, 1)
    BY <1>1 DEF WriteIn
  <2> HIDE DEF u
  <2>6. 1 + e < Half
    BY <1>1
  <2>7. Sound(B, l, u, -1)
    BY <2>4, <2>6, AppendSounds
  <2> DEFINE r == ReachIn(B, u, 1)
             d == 1
             m == -1
             f == 0
  <2>8. /\ r = ReachIn(B, u, d) /\ v = SkipIn(B, u, d) /\ d \in 1..(B + 1) /\ (r = d => f >= m + r)
        /\ m \in Int /\ m >= -1 /\ f \in Int /\ f >= 0 /\ Sound(B, l, u, m)
    BY <2>5, <2>7
  <2> HIDE DEF r, d, m, f
  <2>9. Sound(B, l, v, f)
    BY <2>3, <2>8, SkipSounds
  <2> QED
    BY <2>9 DEF f
<1>2. CASE n # 0
  <2>1. n \in 1..B /\ v = SetIn(B, w, n, number)
    BY <1>2 DEF WriteIn
  <2> QED
    BY <2>1, SetSounds
<1> QED
  BY <1>1, <1>2

\* The texts that wait have one tick less to wait.
LEMMA AgesSounds ==
  ASSUME NEW B \in Nat \ {0}, NEW w \in WriterSet(B), NEW v, v = Ages(w), NEW l, NEW e, Sound(B, l, w, e)
  PROVE  Sound(B, l, v, e)
<1>1. /\ v.printed = w.printed /\ v.next_number = w.next_number
  BY AgesKeeps
<1>2. w.ind \in 0..(B - 1) /\ w.buf \in [0..(B - 1) -> FrameSet] /\ v.ind = w.ind /\ v.buf = AgedAll(w.buf)
  BY DEF Ages, WriterSet
<1>3. ASSUME NEW n \in 1..B PROVE WaitsIn(B, v, n) <=> WaitsIn(B, w, n)
  <2> DEFINE i == PlaceIn(B, w, n)
  <2>1. i \in 0..(B - 1) /\ PlaceIn(B, v, n) = i
    <3>1. n \in Int /\ PlaceIn(B, v, n) = i
      BY <1>2 DEF PlaceIn
    <3> QED
      BY <1>2, <3>1, PlaceInRing
  <2> HIDE DEF i
  <2>2. v.buf[i] = Aged(w.buf[i]) /\ w.buf[i] \in FrameSet
    BY <1>2, <2>1 DEF AgedAll
  <2>3. Aged(w.buf[i]).ok = w.buf[i].ok
    BY <2>2 DEF FrameSet, Aged
  <2> QED
    BY <2>1, <2>2, <2>3 DEF WaitsIn, FrameIn, i
<1> QED
  BY <1>1, <1>3 DEF Sound, Fits, Stands, Idle

\* tick(): what is given up is printed as far as it has come.
LEMMA TickedSounds ==
  ASSUME NEW B \in Nat \ {0}, NumMod \in Nat \ {0}, 4 * B <= NumMod, NEW w \in WriterSet(B), MatchIn(B, w),
         NEW v, Ticks(B, w, v), NEW l, Sound(B, l, w, 0)
  PROVE  Sound(B, l, v, 0)
<1>1. CASE LateIn(B, w) = {}
  BY <1>1, AgesSounds DEF Ticks
<1>2. CASE LateIn(B, w) # {}
  <2> DEFINE d == GreatestOf(LateIn(B, w))
             r == ReachIn(B, w, d)
             s == SkipIn(B, w, d)
             t == FaultOf(s)
             f == 0
  <2>1. v = Ages(t)
    BY <1>2 DEF Ticks
  <2>2. d \in 1..(B + 1) /\ WaitsIn(B, w, d)
    <3>1. LateIn(B, w) \subseteq 1..B
      BY DEF LateIn
    <3>2. d \in LateIn(B, w)
      BY <1>2, <3>1, GreatestOne
    <3> QED
      BY <3>1, <3>2 DEF LateIn
  <2>0. f = 0 /\ f \in Int /\ f >= 0 /\ f >= -1
    OBVIOUS
  <2> HIDE DEF d, r, s, t, f
  <2>3. s = SkipIn(B, w, d) /\ t = FaultOf(s) /\ r = ReachIn(B, w, d)
    BY DEF s, t, r
  <2>4. Keeps(B, w, s) /\ ~WaitsIn(B, w, r)
    BY <2>2, <2>3, SkipKeeps
  <2>5. s \in WriterSet(B)
    BY <2>4 DEF Keeps
  <2>6. r # d /\ Sound(B, l, w, f)
    BY <2>0, <2>2, <2>4
  <2>7. Sound(B, l, s, f)
    BY <2>0, <2>2, <2>3, <2>6, SkipSounds
  <2>8. Keeps(B, s, t)
    BY <2>3, <2>5, FaultKeeps
  <2>9. t \in WriterSet(B) /\ Sound(B, l, t, f)
    BY <2>3, <2>5, <2>7, <2>8, FaultSounds DEF Keeps
  <2>10. Sound(B, l, v, f)
    BY <2>1, <2>9, AgesSounds
  <2> QED
    BY <2>0, <2>10
<1> QED
  BY <1>1, <1>2

\* A number that is more than B but less than 2 * B ahead.
LEMMA PassSounds ==
  ASSUME NEW B \in Nat \ {0}, 4 * B <= NumMod, NumMod \in Nat \ {0}, write_ticks \in Nat,
         NEW w \in WriterSet(B), MatchIn(B, w), NEW number \in 0..(NumMod - 1),
         NEW n, n = (number - w.next_number) % NumMod, n \in (B + 1)..(2 * B - 1), n + 2 <= Half,
         NEW v, v = PassIn(B, w, n, number), NEW l, Sound(B, l, w, 0)
  PROVE  Sound(B, l, v, 0)
<1> DEFINE d == n - B
           s == SkipIn(B, w, d)
           r == ReachIn(B, w, d)
           m == (number - s.next_number) % NumMod
           t == WriteIn(B, s, m, number)
           f == IF r = d THEN r ELSE 0
           z == 0
<1>0. /\ w.next_number \in Int /\ d \in 1..(B + 1) /\ d >= 1 /\ d = n - B /\ s = SkipIn(B, w, d) /\ r = ReachIn(B, w, d)
      /\ f = (IF r = d THEN r ELSE 0) /\ z = 0
  <2>1. w.next_number \in Int
    BY DEF WriterSet
  <2>2. d \in 1..(B + 1) /\ d >= 1
    OBVIOUS
  <2> QED
    BY <2>1, <2>2
<1> HIDE DEF s, r, t, d, f, z
<1>1. Keeps(B, w, s) /\ r \in d..(B + 1) /\ s.next_number = (w.next_number + r) % NumMod
  BY <1>0, SkipKeeps
<1>2. s \in WriterSet(B) /\ MatchIn(B, s) /\ s.next_number \in Int
  BY <1>1 DEF Keeps, WriterSet
<1>3. m = n - r /\ m \in 0..B
  <2> DEFINE a == w.next_number
  <2>1. /\ a \in Int /\ r \in (n - B)..(B + 1) /\ number \in Int
        /\ n = Apart(number, a) /\ s.next_number = (a + r) % NumMod
    BY <1>0, <1>1 DEF Apart
  <2>2. m = Apart(number, s.next_number)
    BY DEF Apart
  <2> HIDE DEF a, m
  <2>3. Apart(number, s.next_number) = n - r /\ n - r \in 0..B
    BY <2>1, PassDistance
  <2> QED
    BY <2>2, <2>3
<1>4. number = (s.next_number + m) % NumMod
  BY <1>2, Distance
<1>5. /\ f \in Int /\ f >= 0 /\ (r = d => f >= z + r) /\ z \in Int /\ z >= -1
      /\ Half \in Nat /\ 2 * B <= Half
  BY <1>0, <1>1, HalfSize
<1>6. Sound(B, l, s, f)
  <2>1. Sound(B, l, w, z)
    BY <1>0
  <2> QED
    BY <1>0, <1>5, <2>1, SkipSounds
<1>7. 1 + f + m < Half
  <2>1. CASE r = d
    BY <1>0, <1>1, <1>3, <1>5, <2>1
  <2>2. CASE r # d
    <3>1. f = 0 /\ r >= d + 1 /\ r \in Int
      BY <1>0, <1>1, <2>2
    <3> QED
      BY <1>0, <1>3, <1>5, <3>1
  <2> QED
    BY <2>1, <2>2
<1>8. Sound(B, l, t, 0)
  <2>1. t = WriteIn(B, s, m, number) /\ number \in Int
    BY DEF t
  <2> HIDE DEF m
  <2> QED
    BY <1>2, <1>3, <1>4, <1>5, <1>6, <1>7, <2>1, WriteSounds
<1>9. t \in WriterSet(B)
  <2>1. t = WriteIn(B, s, m, number) /\ number \in Int
    BY DEF t
  <2> HIDE DEF m
  <2> QED
    BY <1>2, <1>3, <1>4, <2>1, WriteKeeps DEF Keeps
<1>10. v = FaultOf(t)
  BY DEF PassIn, t, s, d
<1> QED
  BY <1>8, <1>9, <1>10, FaultSounds

\* All frames are printed, and the next one is n - B on.
LEMMA EmptiedSounds ==
  ASSUME NEW B \in Nat \ {0}, 4 * B <= NumMod, NumMod \in Nat \ {0},
         NEW w \in WriterSet(B), MatchIn(B, w), NEW n \in Int, 2 * B <= n,
         NEW u, u = PrintedIn(B, w, B), NEW s \in WriterSet(B), s.printed = u.printed, NoneWait(s),
         s.next_number = (w.next_number + (n - B)) % NumMod, NEW l, Sound(B, l, w, 0)
  PROVE  Sound(B, l, s, n - B)
<1> DEFINE x == LastOf(l, w.printed)
           S == ReadyIn(B, w, B)
           q == TextsIn(B, w, B)
           d == n - B
<1>1. PICK g \in Int : Stands(B, x, w, g) /\ (Idle(B, w) => g <= 0)
  BY DEF Sound, Fits
<1>2. /\ x \in 0..(NumMod - 1) /\ x \in Int /\ g >= -1 /\ w.next_number = (x + 1 + g) % NumMod
  BY <1>1 DEF Stands
<1>3. d \in Int /\ d >= B /\ B \in Nat
  OBVIOUS
<1> HIDE DEF x, d
<1>4. q \in Seq(Int) /\ Rises(x, q) /\ PrintsTo(S, q, x, g)
  <2> HIDE DEF q
  <2>1. q = TextsIn(B, w, B)
    BY DEF q
  <2> QED
    BY <1>1, <1>3, <2>1, PrintRises
<1>5. s.printed = w.printed \o q
  BY <1>3, PrintedTexts
<1> HIDE DEF q
<1>6. Rises(l, w.printed) /\ w.printed \in Seq(Int)
  BY DEF Sound, WriterSet
<1>7. Rises(l, s.printed) /\ LastOf(l, s.printed) = LastOf(x, q)
  BY <1>4, <1>5, <1>6, RisesOn DEF x
<1>8. s.next_number = (x + 1 + g + d) % NumMod
  <2> DEFINE c == x + 1 + g
  <2>1. c \in Int
    BY <1>2
  <2> HIDE DEF c
  <2>2. ((c % NumMod) + d) % NumMod = (c + d) % NumMod
    BY <1>3, <2>1, ModAdd
  <2>3. s.next_number = (w.next_number + d) % NumMod
    BY DEF d
  <2> QED
    BY <1>2, <2>2, <2>3 DEF c
<1>9. \A k \in 1..B : ~WaitsIn(B, s, k)
  <2>1. s.ind \in 0..(B - 1) /\ s.buf \in [0..(B - 1) -> FrameSet]
    BY DEF WriterSet
  <2>2. ASSUME NEW k \in 1..B PROVE ~s.buf[PlaceIn(B, s, k)].ok
    <3>1. k \in Int
      OBVIOUS
    <3>2. PlaceIn(B, s, k) \in 0..(B - 1)
      BY <2>1, <3>1, PlaceInRing
    <3>3. \A i \in 0..(B - 1) : ~s.buf[i].ok
      BY <2>1 DEF NoneWait
    <3> QED
      BY <3>2, <3>3
  <2> QED
    BY <2>2 DEF WaitsIn, FrameIn
<1>10. \A k \in 1..B : k \in S <=> WaitsIn(B, w, k)
  BY DEF ReadyIn
<1>11. \A k \in S : k \in 1..B
  BY DEF ReadyIn
<1> HIDE DEF S
<1>12. CASE S = {}
  <2> DEFINE h == g + d
  <2>1. Idle(B, w)
    BY <1>10, <1>12 DEF Idle
  <2>2. h \in Int /\ h >= -1 /\ h <= d /\ x + 1 + h = x + 1 + g + d
    BY <1>1, <1>2, <1>3, <2>1
  <2>3. LastOf(x, q) = x
    BY <1>4, <1>12 DEF PrintsTo, LastOf
  <2>4. Stands(B, x, s, h)
    BY <1>2, <1>8, <1>9, <2>2 DEF Stands
  <2> HIDE DEF h
  <2>5. Sound(B, l, s, d)
    BY <1>7, <2>2, <2>3, <2>4 DEF Sound, Fits
  <2> QED
    BY <2>5 DEF d
<1>13. CASE S # {}
  <2>1. PICK m \in S : LastOf(x, q) = (x + 1 + g + m) % NumMod
    BY <1>4, <1>13 DEF PrintsTo
  <2> DEFINE h == d - m - 1
             c == x + 1 + g + m
             y == c % NumMod
             o == 1 + h
  <2>2. /\ m \in Int /\ h \in Int /\ h >= -1 /\ h <= d /\ c \in Int /\ o \in Int /\ c + o = x + 1 + g + d
    BY <1>2, <1>3, <1>11, <2>1
  <2> HIDE DEF c, o
  <2>3. y \in 0..(NumMod - 1)
    BY <2>2, Division
  <2>4. s.next_number = (y + 1 + h) % NumMod
    <3>1. ((c % NumMod) + o) % NumMod = (c + o) % NumMod
      BY <2>2, ModAdd
    <3>2. y + o = y + 1 + h
      BY <2>2, <2>3 DEF o
    <3>3. s.next_number = (c + o) % NumMod
      BY <1>8, <2>2
    <3>4. (y + o) % NumMod = (c + o) % NumMod
      BY <3>1
    <3> QED
      BY <3>2, <3>3, <3>4
  <2>5. LastOf(x, q) = y
    BY <2>1 DEF c
  <2> HIDE DEF y, h
  <2>6. Stands(B, y, s, h)
    BY <1>9, <2>2, <2>3, <2>4 DEF Stands
  <2>7. Sound(B, l, s, d)
    BY <1>7, <2>2, <2>5, <2>6 DEF Sound, Fits
  <2> QED
    BY <2>7 DEF d
<1> QED
  BY <1>12, <1>13

\* A number that is 2 * B or more ahead.
LEMMA FarSounds ==
  ASSUME NEW B \in Nat \ {0}, 4 * B <= NumMod, NumMod \in Nat \ {0}, write_ticks \in Nat,
         NEW w \in WriterSet(B), MatchIn(B, w), NEW number \in 0..(NumMod - 1),
         NEW n, n = (number - w.next_number) % NumMod, 2 * B <= n, n + 2 <= Half,
         NEW v, v = FarIn(B, w, number), NEW l, Sound(B, l, w, 0)
  PROVE  Sound(B, l, v, 0)
<1> DEFINE u == PrintedIn(B, w, B)
           nn == (number - B) % NumMod
           s == [u EXCEPT !.next_number = nn, !.ind = 0]
           t == SetIn(B, s, B, number)
           d == n - B
           a == w.next_number
<1>0. a \in Int /\ Half \in Nat /\ number \in Int /\ n = (number - a) % NumMod /\ a = w.next_number
  BY HalfSize DEF WriterSet
<1>1. d = n - B
  OBVIOUS
<1> HIDE DEF a, d
<1>2. n \in 0..(NumMod - 1) /\ number = (a + n) % NumMod
  <2>1. a \in Int /\ n = Apart(number, a)
    BY <1>0 DEF Apart
  <2> HIDE DEF nn
  <2>2. Apart(number, a) \in 0..(NumMod - 1) /\ number = (a + Apart(number, a)) % NumMod
    BY <2>1, ApartIs
  <2> QED
    BY <2>1, <2>2
<1>3. n \in Int /\ d \in Int /\ d + B = n
  <2>1. n \in Int
    BY <1>2
  <2> QED
    BY <1>1, <2>1
<1>4. u \in WriterSet(B) /\ NoneWait(u)
  BY AllPrinted
<1>5. v = FaultOf(t)
  BY DEF FarIn
<1>6. nn \in 0..(NumMod - 1) /\ number = (nn + B) % NumMod
  <2> DEFINE b == number - B
  <2>1. b \in Int /\ B \in Int /\ b + B = number
    OBVIOUS
  <2> HIDE DEF b
  <2>2. ((b % NumMod) + B) % NumMod = (b + B) % NumMod /\ (b % NumMod) \in 0..(NumMod - 1)
    BY <2>1, ModAdd, Division
  <2>3. number % NumMod = number
    BY ModOwn
  <2> QED
    BY <2>1, <2>2, <2>3 DEF b
<1>7. nn = (a + d) % NumMod
  <2> DEFINE b == a + n
             o == 0 - B
  <2>1. b \in Int /\ o \in Int /\ b + o = a + d
    BY <1>0, <1>3
  <2>2. number = b % NumMod /\ number + o = number - B
    BY <1>0, <1>2
  <2> HIDE DEF b, o
  <2>3. ((b % NumMod) + o) % NumMod = (b + o) % NumMod
    BY <2>1, ModAdd
  <2> QED
    BY <2>1, <2>2, <2>3
<1> HIDE DEF u, nn, t
<1>8. s \in WriterSet(B) /\ s.buf = u.buf /\ s.printed = u.printed /\ s.next_number = nn
  <2>1. u \in WriterSet(B) /\ 0 \in 0..(B - 1)
    BY <1>4
  <2> QED
    BY <1>6, <2>1 DEF WriterSet
<1> HIDE DEF s
<1>9. NoneWait(s)
  BY <1>4, <1>8 DEF NoneWait
<1>10. MatchIn(B, s)
  BY <1>8, <1>9, NoneMatch
<1>11. Sound(B, l, s, d)
  <2>1. n \in Int /\ s.next_number = (w.next_number + (n - B)) % NumMod
    BY <1>0, <1>1, <1>3, <1>7, <1>8
  <2>2. u = PrintedIn(B, w, B)
    BY DEF u
  <2>3. Sound(B, l, s, n - B)
    BY <1>8, <1>9, <2>1, <2>2, EmptiedSounds
  <2> QED
    BY <1>1, <2>3
<1>12. Sound(B, l, t, 0) /\ t \in WriterSet(B)
  <2>1. number = (s.next_number + B) % NumMod /\ B \in 1..B
    BY <1>6, <1>8
  <2>2. d \in Int /\ 1 + d + B < Half
    BY <1>0, <1>3
  <2>3. t = SetIn(B, s, B, number)
    BY DEF t
  <2>4. Sound(B, l, t, 0)
    BY <1>0, <1>8, <1>11, <2>1, <2>2, <2>3, SetSounds
  <2>5. Keeps(B, s, t)
    BY <1>0, <1>8, <2>1, <2>3, SetKeeps
  <2> QED
    BY <2>4, <2>5 DEF Keeps
<1> QED
  BY <1>5, <1>12, FaultSounds

\* operator(): what is printed goes on, whatever the number that comes.
LEMMA WrittenSounds ==
  ASSUME NEW B \in Nat \ {0}, 4 * B <= NumMod, NumMod \in Nat \ {0}, write_ticks \in Nat,
         NEW w \in WriterSet(B), MatchIn(B, w), NEW number \in 0..(NumMod - 1),
         Apart(number, w.next_number) < Half => Apart(number, w.next_number) + 2 <= Half,
         NEW v, Writes(B, w, number, v), NEW l, Sound(B, l, w, 0)
  PROVE  Sound(B, l, v, 0)
<1> DEFINE n == (number - w.next_number) % NumMod
<1>0. w.next_number \in Int /\ number \in Int /\ Half \in Nat /\ 2 * B <= Half
  BY HalfSize DEF WriterSet
<1>1. \/ v = FaultOf(w)
      \/ n < Half /\ n >= 2 * B /\ v = FarIn(B, w, number)
      \/ n \in (B + 1)..(2 * B - 1) /\ v = PassIn(B, w, n, number)
      \/ n \in 0..B /\ v = WriteIn(B, w, n, number)
  BY DEF Writes, Half
<1>2. n < Half => n + 2 <= Half
  BY DEF Apart
<1>3. n \in 0..(NumMod - 1) /\ n \in Int /\ number = (w.next_number + n) % NumMod
  <2>1. n = Apart(number, w.next_number)
    BY DEF Apart
  <2>2. n \in 0..(NumMod - 1) /\ number = (w.next_number + n) % NumMod
    <3> HIDE DEF n
    <3> QED
      BY <1>0, <2>1, ApartIs, Zenon
  <2> HIDE DEF n
  <2> QED
    BY <2>2
<1>4. n = (number - w.next_number) % NumMod
  OBVIOUS
<1> HIDE DEF n
<1>5. CASE v = FaultOf(w)
  BY <1>5, FaultSounds
<1>6. CASE n < Half /\ n >= 2 * B /\ v = FarIn(B, w, number)
  <2>1. 2 * B <= n /\ n + 2 <= Half
    BY <1>2, <1>3, <1>6
  <2> QED
    BY <1>4, <1>6, <2>1, FarSounds
<1>7. CASE n \in (B + 1)..(2 * B - 1) /\ v = PassIn(B, w, n, number)
  <2>1. n + 2 <= Half
    BY <1>0, <1>2, <1>3, <1>7
  <2> QED
    BY <1>4, <1>7, <2>1, PassSounds
<1>8. CASE n \in 0..B /\ v = WriteIn(B, w, n, number)
  <2> DEFINE z == 0
  <2>1. z = 0 /\ z \in Int /\ 1 + z + n < Half
    <3>1. n < Half
      BY <1>0, <1>8
    <3> QED
      BY <1>0, <1>2, <1>3, <3>1
  <2> HIDE DEF z
  <2>2. Sound(B, l, w, z)
    BY <2>1
  <2> QED
    BY <1>0, <1>3, <1>8, <2>1, <2>2, WriteSounds
<1> QED
  BY <1>1, <1>5, <1>6, <1>7, <1>8

\* close(): all that waits is printed, and it goes on.
LEMMA AllRise ==
  ASSUME NEW B \in Nat \ {0}, NumMod \in Nat \ {0}, 4 * B <= NumMod, NEW w \in WriterSet(B), MatchIn(B, w),
         w.printed = << >>, NEW v, v = PrintedIn(B, w, B), NEW x, Fits(B, x, w, 0)
  PROVE  Rises(x, v.printed)
<1> DEFINE q == TextsIn(B, w, B)
<1>1. PICK g \in Int : Stands(B, x, w, g)
  BY DEF Fits
<1>2. q = TextsIn(B, w, B) /\ B \in Nat
  OBVIOUS
<1> HIDE DEF q
<1>3. q \in Seq(Int) /\ Rises(x, q)
  BY <1>1, <1>2, PrintRises
<1>4. v.printed = << >> \o q
  BY <1>2, PrintedTexts
<1>5. v.printed = q
  BY <1>3, <1>4
<1> QED
  BY <1>3, <1>5

\* With nothing printed yet in this step.
LEMMA SilentSounds ==
  ASSUME NEW B, NEW w \in WriterSet(B), NEW v, v = Silent(w), NEW l, Fits(B, l, w, 0)
  PROVE  Sound(B, l, v, 0) /\ Fits(B, l, v, 0)
<1>1. v.next_number = w.next_number /\ v.buf = w.buf /\ v.ind = w.ind /\ v.printed = << >>
  BY DEF Silent, WriterSet
<1>2. \A n : WaitsIn(B, v, n) <=> WaitsIn(B, w, n)
  BY <1>1 DEF WaitsIn, FrameIn, PlaceIn
<1>3. Fits(B, l, v, 0)
  BY <1>1, <1>2 DEF Fits, Stands, Idle
<1>4. LastOf(l, v.printed) = l /\ Rises(l, v.printed)
  <2>1. DOMAIN << >> = {}
    OBVIOUS
  <2> QED
    BY <1>1, <2>1 DEF LastOf, Rises
<1> QED
  BY <1>3, <1>4 DEF Sound

\* What the history variable last becomes.
LEMMA LastText ==
  ASSUME NEW l, NEW p \in Seq(Int), NEW t, t = After(l, p)
  PROVE  t[Len(t)] = LastOf(l, p)
<1>1. CASE p = << >>
  BY <1>1 DEF After, LastOf
<1>2. CASE p # << >>
  <2>1. Len(p) \in 1..Len(p) /\ Len(p) \in Nat
    BY <1>2
  <2>2. Len(t) = Len(p) + 1 /\ t[Len(p) + 1] = p[Len(p)]
    BY <2>1 DEF After
  <2> QED
    BY <1>2, <2>2 DEF LastOf
<1> QED
  BY <1>1, <1>2

\* After open() the first text is expected, and none waits.
LEMMA OpenFits ==
  ASSUME NEW B \in Nat \ {0}, NumMod \in Nat \ {0}, 4 * B <= NumMod, NEW v \in WriterSet(B), NoneWait(v), v.next_number = 0
  PROVE  Fits(B, NumMod - 1, v, 0)
<1> DEFINE x == NumMod - 1
           g == 0
<1>1. v.ind \in 0..(B - 1) /\ v.buf \in [0..(B - 1) -> FrameSet]
  BY DEF WriterSet
<1>2. ASSUME NEW k \in 1..B PROVE ~WaitsIn(B, v, k)
  <2>1. k \in Int
    OBVIOUS
  <2>2. PlaceIn(B, v, k) \in 0..(B - 1)
    BY <1>1, <2>1, PlaceInRing
  <2>3. \A i \in 0..(B - 1) : ~v.buf[i].ok
    BY <1>1 DEF NoneWait
  <2> QED
    BY <2>2, <2>3 DEF WaitsIn, FrameIn
<1>3. x \in 0..(NumMod - 1) /\ x + 1 + g = NumMod /\ g \in Int /\ g >= -1 /\ g <= 0
  OBVIOUS
<1>4. 0 = NumMod % NumMod
  <2>1. NumMod = NumMod * 1 + 0 /\ NumMod \in Int /\ 0 \in 0..(NumMod - 1) /\ 1 \in Int
    OBVIOUS
  <2> QED
    BY <2>1, DivisionUnique
<1>5. v.next_number = (x + 1 + g) % NumMod
  BY <1>3, <1>4
<1> HIDE DEF x, g
<1>6. Stands(B, x, v, g)
  BY <1>2, <1>3, <1>5 DEF Stands
<1>7. Fits(B, x, v, 0)
  BY <1>3, <1>6 DEF Fits
<1> QED
  BY <1>7 DEF x

\* What comes is less than half the numbers ahead, or late.
LEMMA NumbersApart ==
  ASSUME NEW a \in 0..(NumMod - 1), NEW k \in -MaxLate..MaxLead, NEW number, number = (a + k) % NumMod
  PROVE  number \in 0..(NumMod - 1) /\ (Apart(number, a) < Half => Apart(number, a) + 2 <= Half)
<1>0. /\ NumMod \in Nat \ {0} /\ MaxLead \in Nat /\ MaxLate \in Nat /\ Half \in Nat /\ Half <= NumMod
      /\ MaxLead + 2 <= Half /\ MaxLate <= NumMod - Half
  BY ConsoleAssumption, LeadAssumption DEF Half
<1> DEFINE b == a + k
           o == 0 - a
           m == Apart(number, a)
<1>1. k \in Int /\ b \in Int /\ o \in Int /\ b + o = k /\ a \in Int
  BY <1>0
<1>2. number = b % NumMod
  OBVIOUS
<1> HIDE DEF b
<1>3. number \in 0..(NumMod - 1)
  BY <1>0, <1>1, <1>2, Division
<1>4. m = ((b % NumMod) + o) % NumMod
  BY <1>0, <1>1, <1>2, <1>3 DEF Apart
<1> HIDE DEF o, m
<1>5. m = k % NumMod
  BY <1>0, <1>1, <1>4, ModAdd
<1>6. CASE k >= 0
  <2>1. k \in 0..(NumMod - 1) /\ k + 2 <= Half
    BY <1>0, <1>1, <1>6
  <2>2. m = k
    BY <1>0, <1>5, <2>1, ModOwn
  <2> QED
    BY <1>3, <2>1, <2>2 DEF m
<1>7. CASE k < 0
  <2> DEFINE c == k + NumMod
  <2>1. c \in 0..(NumMod - 1) /\ c >= Half /\ c \in Int
    BY <1>0, <1>1, <1>7
  <2>2. k % NumMod = c % NumMod
    BY <1>0, <1>1, ModNext
  <2> HIDE DEF c
  <2>3. m = c
    BY <1>0, <1>5, <2>1, <2>2, ModOwn
  <2> QED
    BY <1>0, <1>3, <2>1, <2>3 DEF m
<1> QED
  BY <1>1, <1>6, <1>7

\* What keeps the texts in their order.
OrderOK == w_opened => Fits(WriterFrames, w_last, w_writer, 0)

LEMMA OrderFirst == W!Init => OrderOK
BY DEF W!Init, OrderOK

\* What a step prints goes on after the text that was printed last.
LEMMA OrderStays ==
  ASSUME WriterOK, OrderOK, W!Next
  PROVE  OrderOK' /\ Rises(w_last, w_writer'.printed)
<1> DEFINE B == WriterFrames
           w == Silent(w_writer)
           v == w_writer'
           t == After(w_last, v.printed)
<1> HIDE DEF B
<1>1. B \in Nat \ {0} /\ 4 * B <= NumMod /\ NumMod \in Nat \ {0} /\ write_ticks \in Nat
  BY SizesOfConsole DEF B
<1>2. /\ w_writer \in WriterSet(B) /\ MatchIn(B, w_writer) /\ (~w_opened => NoneWait(w_writer))
      /\ WriterOK' /\ v \in WriterSet(B) /\ v.printed \in Seq(Int)
  <2>1. WriterOK'
    BY WriterStays
  <2> QED
    BY <2>1 DEF WriterOK, B, WriterSet
<1>3. w = Silent(w_writer) /\ W!Quiet = w /\ t = After(w_last, v.printed)
  BY DEF W!Quiet, Silent
<1> HIDE DEF w, t
<1>4. /\ w \in WriterSet(B) /\ MatchIn(B, w) /\ w.printed = << >>
      /\ w.next_number = w_writer.next_number /\ w.next_number \in 0..(NumMod - 1)
  <2>1. /\ w \in WriterSet(B) /\ MatchIn(B, w) /\ w.printed = << >>
        /\ w.next_number = w_writer.next_number
    BY <1>1, <1>2, <1>3, SilentKeeps
  <2> QED
    BY <2>1 DEF WriterSet
<1>5. w_opened => Sound(B, w_last, w, 0) /\ Fits(B, w_last, w, 0)
  BY <1>2, <1>3, SilentSounds DEF OrderOK, B
<1>6. t[Len(t)] = LastOf(w_last, v.printed)
  BY <1>2, <1>3, LastText
<1>7. ASSUME Sound(B, w_last, v, 0), w_last' = t[Len(t)]
      PROVE  OrderOK' /\ Rises(w_last, v.printed)
  <2>1. Rises(w_last, v.printed) /\ Fits(B, LastOf(w_last, v.printed), v, 0)
    BY <1>7 DEF Sound
  <2>2. Fits(B, w_last', v, 0)
    BY <1>6, <1>7, <2>1
  <2> QED
    BY <2>1, <2>2 DEF OrderOK, B
<1>8. CASE W!Open
  <2>1. v = OpenedIn(w_writer) /\ ~w_opened /\ w_last' = NumMod - 1
    BY <1>8 DEF W!Open, W!Opened, OpenedIn
  <2>2. v.next_number = 0 /\ NoneWait(v)
    BY <1>1, <1>2, <2>1, OpenedKeeps
  <2>3. Fits(B, w_last', v, 0)
    BY <1>1, <1>2, <2>1, <2>2, OpenFits
  <2>4. DOMAIN v.printed = {}
    BY <2>1 DEF OpenedIn
  <2> QED
    BY <2>3, <2>4 DEF OrderOK, Rises, B
<1>9. CASE W!Close
  <2>1. v = PrintedIn(B, w, B) /\ w_opened /\ w_opened' = FALSE
    BY <1>3, <1>9, SamePrinted DEF W!Close, W!Becomes, B
  <2>2. Rises(w_last, v.printed)
    BY <1>1, <1>4, <1>5, <2>1, AllRise
  <2> QED
    BY <2>1, <2>2 DEF OrderOK
<1>10. CASE W!Tick
  <2>1. w_opened /\ v = W!Ticked(w) /\ w_last' = t[Len(t)]
    BY <1>3, <1>10 DEF W!Tick, W!Becomes, After
  <2>2. Ticks(B, w, v)
    BY <2>1, SameTicked DEF B
  <2>3. Sound(B, w_last, v, 0)
    BY <1>1, <1>4, <1>5, <2>1, <2>2, TickedSounds
  <2> QED
    BY <1>7, <2>1, <2>3
<1>11. ASSUME NEW number \in W!Numbers, W!PutText(number)
       PROVE  OrderOK' /\ Rises(w_last, v.printed)
  <2>1. w_opened /\ v = W!Written(w, number) /\ w_last' = t[Len(t)]
    BY <1>3, <1>11 DEF W!PutText, W!Becomes, After
  <2> DEFINE a == w.next_number
  <2>2. PICK k \in -MaxLate..MaxLead : number = (a + k) % NumMod
    <3>1. \E k \in -MaxLate..MaxLead : number = (w_writer.next_number + k) % NumMod
      BY DEF W!Numbers
    <3>2. a = w_writer.next_number
      BY <1>4
    <3> HIDE DEF a
    <3> QED
      BY <3>1, <3>2
  <2>3. number \in 0..(NumMod - 1) /\ (Apart(number, a) < Half => Apart(number, a) + 2 <= Half)
    <3>1. a \in 0..(NumMod - 1)
      BY <1>4
    <3> HIDE DEF a
    <3> QED
      BY <2>2, <3>1, NumbersApart
  <2>4. Writes(B, w, number, v)
    <3>1. number - w.next_number \in Int
      BY <1>4, <2>3
    <3>2. (number - w.next_number) % NumMod \in Nat
      BY <1>1, <3>1, Division
    <3> QED
      BY <2>1, <3>2, SameWritten DEF B
  <2>5. Sound(B, w_last, v, 0)
    BY <1>1, <1>4, <1>5, <2>1, <2>3, <2>4, WrittenSounds
  <2> QED
    BY <1>7, <2>1, <2>5
<1> QED
  BY <1>8, <1>9, <1>10, <1>11 DEF W!Next

-----------------------------------------------------------------------------
\* The client of the console: which of its writes are on their way.
Statuses == {"new", "listed", "taken", "sent", "ok", "error", "lost", "Ok", "Failed"}
Stations == {"idle", "count", "push", "get", "start", "number", "send", "fail", "pushed", "completed"}

WaySet == {"sent", "ok", "error", "lost"}
PushSet == {"get", "start", "number", "send", "fail", "pushed"}
BusySet == {"get", "start", "number", "send", "fail"}
StartSet == {"number", "send", "fail", "completed"}

Those(D, f, L) == {x \in D : f[x] \in L}
SizeOf(D, f, L) == Cardinality(Those(D, f, L))

\* One write is on its way or pushed, and packet_count counts it and who pushes.
Counted(st, q, n) ==
  /\ n = SizeOf(Write, st, WaySet) + SizeOf(Task, q, PushSet) + SizeOf(Task, q, StartSet)
  /\ SizeOf(Write, st, WaySet) <= 1 /\ SizeOf(Task, q, PushSet) <= 1
  /\ \A t \in Task : q[t] \in BusySet => SizeOf(Write, st, WaySet) = 0

In(x, L) == IF x \in L THEN 1 ELSE 0

\* How many of a finite set have one of the states L, and what one step makes of it.
LEMMA SizeNat ==
  ASSUME NEW D, IsFiniteSet(D), NEW f, NEW L
  PROVE  SizeOf(D, f, L) \in Nat /\ IsFiniteSet(Those(D, f, L)) /\ (SizeOf(D, f, L) = 0 <=> Those(D, f, L) = {})
<1>1. Those(D, f, L) \subseteq D
  BY DEF Those
<1>2. IsFiniteSet(Those(D, f, L))
  BY <1>1, FS_Subset
<1> QED
  BY <1>2, FS_CardinalityType, FS_EmptySet DEF SizeOf

LEMMA SizeMoves ==
  ASSUME NEW D, IsFiniteSet(D), NEW f, DOMAIN f = D, NEW x \in D, NEW b, NEW L,
         NEW g, g = Placed(f, x, b)
  PROVE  SizeOf(D, g, L) = SizeOf(D, f, L) + In(b, L) - In(f[x], L)
<1> DEFINE S == Those(D, f, L)
           T == Those(D, g, L)
<1>1. g[x] = b /\ \A y \in D : y # x => g[y] = f[y]
  BY DEF Placed
<1>2. SizeOf(D, f, L) = Cardinality(S) /\ SizeOf(D, g, L) = Cardinality(T)
  BY DEF SizeOf
<1>3. \/ (f[x] \in L <=> b \in L) /\ T = S
      \/ f[x] \notin L /\ b \in L /\ T = S \cup {x} /\ x \notin S
      \/ f[x] \in L /\ b \notin L /\ T = S \ {x} /\ x \in S
  BY <1>1 DEF Those
<1>4. IsFiniteSet(S) /\ SizeOf(D, f, L) \in Nat
  BY SizeNat
<1> HIDE DEF S, T
<1>5. /\ T = S \cup {x} /\ x \notin S => Cardinality(T) = Cardinality(S) + 1
      /\ T = S \ {x} /\ x \in S => Cardinality(T) = Cardinality(S) - 1
  BY <1>4, FS_AddElement, FS_RemoveElement
<1> QED
  BY <1>2, <1>3, <1>4, <1>5 DEF In

\* Of one task at most, what holds of one that pushes: no other does.
LEMMA OnlyOne ==
  ASSUME NEW D, IsFiniteSet(D), NEW f, NEW L, SizeOf(D, f, L) <= 1, NEW x \in D, f[x] \in L,
         NEW y \in D, f[y] \in L
  PROVE  x = y
<1> DEFINE S == Those(D, f, L)
<1>1. S \subseteq D /\ x \in S /\ y \in S
  BY DEF Those
<1>2. Cardinality(S) <= 1
  BY DEF SizeOf
<1> HIDE DEF S
<1>3. IsFiniteSet(S)
  BY <1>1, FS_Subset
<1>4. IsFiniteSet(S \ {x}) /\ Cardinality(S \ {x}) = Cardinality(S) - 1 /\ Cardinality(S) \in Nat
  BY <1>1, <1>3, FS_RemoveElement, FS_CardinalityType
<1>5. Cardinality(S \ {x}) \in Nat
  BY <1>4, FS_CardinalityType
<1>6. Cardinality(S \ {x}) = 0
  BY <1>2, <1>4, <1>5
<1>7. S \ {x} = {}
  BY <1>4, <1>6, FS_EmptySet
<1> QED
  BY <1>1, <1>7

\* A task moves, and k more writes are on their way.
LEMMA CountMoves ==
  ASSUME IsFiniteSet(Task), NEW q \in [Task -> Stations], NEW t \in Task, NEW b, NEW r, r = Placed(q, t, b),
         NEW st, NEW n, Counted(st, q, n), SizeOf(Write, st, WaySet) \in Nat,
         NEW su, NEW k \in Int, SizeOf(Write, su, WaySet) \in Nat,
         SizeOf(Write, su, WaySet) = SizeOf(Write, st, WaySet) + k,
         b \in PushSet => q[t] \in PushSet \/ n = 0,
         b \in BusySet => (q[t] \in BusySet \/ n = 0) /\ k <= 0,
         k > 0 => q[t] \in BusySet /\ k = 1,
         NEW m, m = n + k + In(b, PushSet) - In(q[t], PushSet) + In(b, StartSet) - In(q[t], StartSet)
  PROVE  Counted(su, r, m)
<1> DEFINE p == SizeOf(Task, q, PushSet)
           s == SizeOf(Task, q, StartSet)
           w == SizeOf(Write, st, WaySet)
<1>1. p \in Nat /\ s \in Nat
  BY SizeNat
<1>2. n = w + p + s /\ w <= 1 /\ p <= 1 /\ \A u \in Task : q[u] \in BusySet => w = 0
  BY DEF Counted
<1>3. /\ SizeOf(Task, r, PushSet) = p + In(b, PushSet) - In(q[t], PushSet)
      /\ SizeOf(Task, r, StartSet) = s + In(b, StartSet) - In(q[t], StartSet)
  <2>1. DOMAIN q = Task
    OBVIOUS
  <2> QED
    BY <2>1, SizeMoves
<1>4. /\ In(b, PushSet) \in 0..1 /\ In(q[t], PushSet) \in 0..1
      /\ In(b, StartSet) \in 0..1 /\ In(q[t], StartSet) \in 0..1
      /\ In(b, PushSet) = 1 <=> b \in PushSet
      /\ In(q[t], PushSet) = 1 <=> q[t] \in PushSet
  BY DEF In
<1>5. r[t] = b /\ \A u \in Task : u # t => r[u] = q[u]
  BY DEF Placed
<1>6. \A u \in Task : q[t] \in BusySet /\ q[u] \in BusySet => u = t
  <2>1. \A u \in Task : q[u] \in BusySet => q[u] \in PushSet
    BY DEF BusySet, PushSet
  <2> QED
    BY <1>2, <2>1, OnlyOne
<1> HIDE DEF p, s, w
<1>7. w + k <= 1 /\ w \in Nat
  BY <1>2 DEF w
<1>8. SizeOf(Task, r, PushSet) <= 1
  BY <1>1, <1>2, <1>3, <1>4, <1>7
<1>9. ASSUME NEW u \in Task, r[u] \in BusySet PROVE w + k = 0
  <2>1. CASE u = t
    BY <1>1, <1>2, <1>5, <1>7, <1>9, <2>1 DEF w
  <2>2. CASE u # t
    BY <1>1, <1>2, <1>5, <1>6, <1>7, <1>9, <2>2 DEF w
  <2> QED
    BY <2>1, <2>2
<1>10. m = (w + k) + SizeOf(Task, r, PushSet) + SizeOf(Task, r, StartSet)
  BY <1>1, <1>2, <1>3, <1>4, <1>7
<1>11. SizeOf(Write, su, WaySet) = w + k
  BY DEF w
<1> QED
  BY <1>7, <1>8, <1>9, <1>10, <1>11 DEF Counted

\* No task moves, and no more writes are on their way.
LEMMA CountStays ==
  ASSUME NEW q, NEW st, NEW n, Counted(st, q, n), SizeOf(Write, st, WaySet) \in Nat,
         NEW su, SizeOf(Write, su, WaySet) = SizeOf(Write, st, WaySet)
  PROVE  Counted(su, q, n)
BY DEF Counted

\* OneOnTheWay in these terms.
LEMMA SameCounts ==
  C!OneOnTheWay <=> /\ SizeOf(Write, status, WaySet) <= 1 /\ SizeOf(Task, pc, PushSet) <= 1
                    /\ packet_count = SizeOf(Write, status, WaySet) + SizeOf(Task, pc, PushSet)
                                        + SizeOf(Task, pc, StartSet)
<1>1. /\ C!OnTheWay = Those(Write, status, WaySet) /\ C!Pushers = Those(Task, pc, PushSet)
      /\ C!Started = Those(Task, pc, StartSet)
  BY DEF C!OnTheWay, C!Pushers, C!Started, Those, WaySet, PushSet, StartSet
<1>2. \A S : C!Cardinality(S) = Cardinality(S)
  BY DEF C!Cardinality, Cardinality
<1> QED
  BY <1>1, <1>2 DEF C!OneOnTheWay, SizeOf

-----------------------------------------------------------------------------
\* The invariant of the console.
Text == [con : Nat, number : 0..(NumMod - 1)]
Early == {"new", "listed", "taken"}

ListOK == list \in Seq(Write) /\ IsInjective(list) /\ \A w \in Write : w \in ToSet(list) <=> status[w] = "listed"

TaskOK == /\ status \in [Write -> Statuses] /\ sent \in [Write -> Text]
          /\ pc \in [Task -> Stations] /\ at \in [Task -> Write \cup {0}]
          /\ \A t \in Task : pc[t] \in {"start", "number", "send", "fail"} => at[t] \in Write /\ status[at[t]] = "taken"

CallsOK == \A c \in calls : c.what = "write" =>
             c.from \in Write /\ c.con = sent[c.from].con /\ status[c.from] \notin Early

OwnerOK == /\ owner \in [state : {"closed", "opening", "answered", "open", "closing"}, con : Nat]
           /\ con_id \in Nat /\ write_number \in 0..(NumMod - 1)

ServerOK == is_opened \in BOOLEAN /\ server_id \in Nat /\ writer \in WriterSet(ConFrames)

\* The text s is printed, or waits in the console that is open for its connection.
Kept(s) == s \in shown \/ (is_opened /\ s.con = server_id /\ HeldIn(writer, s.number))

KeptOK == \A w \in Write : status[w] \in {"ok", "Ok"} => Kept(sent[w])

CountOK == Counted(status, pc, packet_count)

ConInv == ListOK /\ TaskOK /\ CallsOK /\ OwnerOK /\ ServerOK /\ KeptOK /\ CountOK

\* A write that may be answered stays so, and has its number; none becomes well
\* without an answer.
Forward == \A w \in Write : /\ status[w] \notin Early => status'[w] \notin Early /\ sent'[w] = sent[w]
                            /\ status'[w] \in {"ok", "Ok"} => status[w] \in {"ok", "Ok"}

shownVars == <<is_opened, server_id, writer, shown>>

\* When writes go only forward, what was answered stays kept.
LEMMA ForwardKeeps ==
  ASSUME KeptOK, CallsOK, ServerOK, Forward, UNCHANGED shownVars
  PROVE  KeptOK' /\ ServerOK' /\ (calls' \subseteq calls => CallsOK')
<1>1. \A s : Kept(s) => Kept(s)'
  BY DEF Kept, HeldIn, shownVars
<1>2. \A w \in Write : status[w] \in {"ok", "Ok"} => status[w] \notin Early
  BY DEF Early
<1>3. KeptOK'
  <2> SUFFICES ASSUME NEW w \in Write, status'[w] \in {"ok", "Ok"} PROVE Kept(sent[w])'
    BY DEF KeptOK
  <2>1. Kept(sent[w]) /\ sent'[w] = sent[w]
    BY <1>2 DEF Forward, KeptOK
  <2> DEFINE s == sent[w]
  <2>2. Kept(s) /\ sent'[w] = s
    BY <2>1
  <2> HIDE DEF s
  <2> QED
    BY <2>2 DEF Kept, HeldIn, shownVars
<1>4. calls' \subseteq calls => CallsOK'
  BY DEF CallsOK, Forward
<1>5. ServerOK'
  BY DEF ServerOK, shownVars
<1> QED
  BY <1>3, <1>4, <1>5

\* No task moves, and no write.
LEMMA TasksRest ==
  ASSUME ListOK, TaskOK, CountOK, UNCHANGED <<list, packet_count, status, sent, pc, at>>
  PROVE  ListOK' /\ TaskOK' /\ CountOK'
BY DEF ListOK, TaskOK, CountOK

\* Writes and tasks are finitely many.
LEMMA Sizes == IsFiniteSet(Write) /\ IsFiniteSet(Task)
BY ConsoleAssumption

LEMMA SizesNat == SizeOf(Write, status, WaySet) \in Nat /\ SizeOf(Write, status', WaySet) \in Nat
BY Sizes, SizeNat

\* A task moves; the writes stay.
LEMMA PcMoves ==
  ASSUME CountOK, TaskOK, NEW t \in Task, NEW b, pc' = Placed(pc, t, b), status' = status,
         b \in PushSet => pc[t] \in PushSet \/ packet_count = 0,
         b \in BusySet => pc[t] \in BusySet \/ packet_count = 0,
         packet_count' = packet_count + In(b, PushSet) - In(pc[t], PushSet) + In(b, StartSet) - In(pc[t], StartSet)
  PROVE  CountOK'
<1> DEFINE k == 0
           su == status'
           m == packet_count'
           r == pc'
<1>1. k \in Int /\ ~ (k > 0) /\ k <= 0 /\ su = status
  OBVIOUS
<1>2. pc \in [Task -> Stations] /\ Counted(status, pc, packet_count)
  BY DEF TaskOK, CountOK
<1>3. packet_count \in Nat
  BY <1>2, Sizes, SizeNat DEF Counted
<1>4. /\ In(b, PushSet) \in Int /\ In(pc[t], PushSet) \in Int /\ In(b, StartSet) \in Int /\ In(pc[t], StartSet) \in Int
  BY DEF In
<1>5. /\ SizeOf(Write, su, WaySet) = SizeOf(Write, status, WaySet) + k
      /\ m = packet_count + k + In(b, PushSet) - In(pc[t], PushSet) + In(b, StartSet) - In(pc[t], StartSet)
      /\ SizeOf(Write, status, WaySet) \in Nat /\ SizeOf(Write, su, WaySet) \in Nat
  BY <1>3, <1>4, SizesNat
<1>6. r = Placed(pc, t, b)
  OBVIOUS
<1> HIDE DEF k, su, m, r
<1>7. Counted(su, r, m)
  BY <1>1, <1>2, <1>5, <1>6, Sizes, CountMoves
<1> QED
  BY <1>7 DEF CountOK, su, m, r

\* A write moves, that is on its way before and after or neither; the tasks stay.
LEMMA StatusMoves ==
  ASSUME CountOK, TaskOK, NEW w \in Write, NEW d, status' = Placed(status, w, d), d \in WaySet <=> status[w] \in WaySet,
         UNCHANGED <<pc, packet_count>>
  PROVE  CountOK'
<1>1. SizeOf(Write, status', WaySet) = SizeOf(Write, status, WaySet) + In(d, WaySet) - In(status[w], WaySet)
  <2>1. DOMAIN status = Write
    BY DEF TaskOK
  <2> QED
    BY <2>1, Sizes, SizeMoves
<1>2. In(d, WaySet) = In(status[w], WaySet) /\ In(d, WaySet) \in Int
  BY DEF In
<1>3. SizeOf(Write, status', WaySet) = SizeOf(Write, status, WaySet)
  BY <1>1, <1>2, SizesNat
<1> QED
  BY <1>3 DEF CountOK, Counted

\* Both move.
LEMMA BothMove ==
  ASSUME CountOK, TaskOK, NEW t \in Task, NEW b, pc' = Placed(pc, t, b),
         NEW w \in Write, NEW d, status' = Placed(status, w, d),
         b \in PushSet => pc[t] \in PushSet \/ packet_count = 0,
         b \in BusySet => (pc[t] \in BusySet \/ packet_count = 0) /\ d \notin WaySet,
         d \in WaySet => pc[t] \in BusySet,
         packet_count' = packet_count + In(d, WaySet) - In(status[w], WaySet)
                           + In(b, PushSet) - In(pc[t], PushSet) + In(b, StartSet) - In(pc[t], StartSet)
  PROVE  CountOK'
<1> DEFINE k == In(d, WaySet) - In(status[w], WaySet)
           su == status'
           m == packet_count'
           r == pc'
<1>1. SizeOf(Write, su, WaySet) = SizeOf(Write, status, WaySet) + In(d, WaySet) - In(status[w], WaySet)
  <2>1. DOMAIN status = Write
    BY DEF TaskOK
  <2> QED
    BY <2>1, Sizes, SizeMoves
<1>2. pc \in [Task -> Stations] /\ Counted(status, pc, packet_count)
  BY DEF TaskOK, CountOK
<1>3. packet_count \in Nat
  BY <1>2, Sizes, SizeNat DEF Counted
<1>4. /\ In(b, PushSet) \in 0..1 /\ In(pc[t], PushSet) \in 0..1 /\ In(b, StartSet) \in 0..1 /\ In(pc[t], StartSet) \in 0..1
      /\ In(d, WaySet) \in 0..1 /\ In(status[w], WaySet) \in 0..1
      /\ In(d, WaySet) = 1 <=> d \in WaySet
  BY DEF In
<1>5. /\ k \in Int /\ (k > 0 => d \in WaySet /\ k = 1) /\ (d \notin WaySet => k <= 0)
      /\ SizeOf(Write, su, WaySet) = SizeOf(Write, status, WaySet) + k
      /\ m = packet_count + k + In(b, PushSet) - In(pc[t], PushSet) + In(b, StartSet) - In(pc[t], StartSet)
      /\ SizeOf(Write, status, WaySet) \in Nat /\ SizeOf(Write, su, WaySet) \in Nat
  BY <1>1, <1>3, <1>4, SizesNat
<1>6. r = Placed(pc, t, b)
  OBVIOUS
<1> HIDE DEF k, su, m, r
<1>7. Counted(su, r, m)
  BY <1>2, <1>5, <1>6, Sizes, CountMoves
<1> QED
  BY <1>7 DEF CountOK, su, m, r

-----------------------------------------------------------------------------
\* What the client does, step by step.
LEMMA SameFirst == \A q, x : C!RemoveFirst(q, x) = RemoveFirst(q, x)
BY DEF C!RemoveFirst, RemoveFirst, C!SelectInSeq, SelectInSeq, C!RemoveAt, RemoveAt, C!Min, Min

\* A task lists a write; a write is cancelled.
LEMMA PutStep ==
  ASSUME ConInv, NEW t \in Task, NEW w \in Write, C!Put(t, w), UNCHANGED shownVars, UNCHANGED calls
  PROVE  ListOK' /\ TaskOK' /\ CallsOK' /\ ServerOK' /\ KeptOK' /\ CountOK'
<1> USE DEF ConInv
<1>1. /\ status[w] = "new" /\ pc[t] = "idle" /\ pc' = [pc EXCEPT ![t] = "count"]
      /\ list' = Append(list, w) /\ status' = [status EXCEPT ![w] = "listed"]
      /\ UNCHANGED <<packet_count, sent, at>>
  BY DEF C!Put, C!Steps, C!Becomes
<1>2. /\ status' \in [Write -> Statuses] /\ status'[w] = "listed" /\ \A v \in Write : v # w => status'[v] = status[v]
      /\ pc' \in [Task -> Stations] /\ pc'[t] = "count" /\ \A u \in Task : u # t => pc'[u] = pc[u]
  BY <1>1 DEF TaskOK, Statuses, Stations
<1>3. ListOK'
  <2>1. w \notin ToSet(list)
    BY <1>1 DEF ListOK
  <2>2. list' \in Seq(Write) /\ ToSet(list') = ToSet(list) \cup {w} /\ IsInjective(list')
    BY <1>1, <2>1, ListAppend DEF ListOK
  <2> QED
    BY <1>2, <2>2 DEF ListOK
<1>4. TaskOK'
  BY <1>1, <1>2 DEF TaskOK
<1>5. Forward
  BY <1>1, <1>2 DEF Forward, Early
<1>6. CountOK'
  <2>1. pc' = Placed(pc, t, "count") /\ status' = Placed(status, w, "listed")
    BY <1>1 DEF Placed
  <2>2. /\ "count" \notin PushSet /\ "count" \notin BusySet /\ "count" \notin StartSet
        /\ "idle" \notin PushSet /\ "idle" \notin StartSet /\ "listed" \notin WaySet /\ "new" \notin WaySet
    BY DEF PushSet, BusySet, StartSet, WaySet
  <2>3. packet_count \in Int
    BY Sizes, SizeNat DEF CountOK, Counted
  <2>4. packet_count' = packet_count + In("listed", WaySet) - In(status[w], WaySet)
                          + In("count", PushSet) - In(pc[t], PushSet) + In("count", StartSet) - In(pc[t], StartSet)
    BY <1>1, <2>2, <2>3 DEF In
  <2> QED
    BY <2>1, <2>2, <2>4, BothMove
<1> QED
  BY <1>3, <1>4, <1>5, <1>6, ForwardKeeps

LEMMA CancelStep ==
  ASSUME ConInv, NEW w \in Write, C!Cancel(w), UNCHANGED shownVars, UNCHANGED calls
  PROVE  ListOK' /\ TaskOK' /\ CallsOK' /\ ServerOK' /\ KeptOK' /\ CountOK'
<1> USE DEF ConInv
<1>1. /\ status[w] = "listed" /\ list' = RemoveFirst(list, w) /\ status' = [status EXCEPT ![w] = "Failed"]
      /\ UNCHANGED <<packet_count, sent, pc, at>>
  BY SameFirst DEF C!Cancel, C!Becomes
<1>2. status' \in [Write -> Statuses] /\ status'[w] = "Failed" /\ \A v \in Write : v # w => status'[v] = status[v]
  BY <1>1 DEF TaskOK, Statuses
<1>3. ListOK'
  <2>1. list' \in Seq(Write) /\ ToSet(list') = ToSet(list) \ {w} /\ IsInjective(list')
    BY <1>1, ListRemove DEF ListOK
  <2> QED
    BY <1>2, <2>1 DEF ListOK
<1>4. TaskOK'
  BY <1>1, <1>2 DEF TaskOK
<1>5. Forward
  BY <1>1, <1>2 DEF Forward, Early
<1>6. CountOK'
  <2>1. status' = Placed(status, w, "Failed") /\ "Failed" \notin WaySet /\ "listed" \notin WaySet
    BY <1>1 DEF Placed, WaySet
  <2> QED
    BY <1>1, <2>1, StatusMoves
<1> QED
  BY <1>3, <1>4, <1>5, <1>6, ForwardKeeps

TakenSet == {"start", "number", "send", "fail"}

\* One task goes on, with the packet it has taken, if any.
LEMMA TaskGoes ==
  ASSUME ConInv, NEW t \in Task, NEW a, pc[t] = a, NEW b \in Stations, pc' = [pc EXCEPT ![t] = b],
         at' \in [Task -> Write \cup {0}], \A u \in Task : u # t => at'[u] = at[u],
         b \in TakenSet => a \in TakenSet /\ at'[t] = at[t],
         b \in PushSet => a \in PushSet \/ packet_count = 0,
         b \in BusySet => a \in BusySet \/ packet_count = 0,
         packet_count' = packet_count + In(b, PushSet) - In(a, PushSet) + In(b, StartSet) - In(a, StartSet),
         UNCHANGED <<list, status>>, UNCHANGED shownVars, calls' \subseteq calls,
         sent' \in [Write -> Text], \A w \in Write : status[w] \notin Early => sent'[w] = sent[w]
  PROVE  ListOK' /\ TaskOK' /\ CallsOK' /\ ServerOK' /\ KeptOK' /\ CountOK'
<1> USE DEF ConInv
<1>1. pc' \in [Task -> Stations] /\ pc'[t] = b /\ \A u \in Task : u # t => pc'[u] = pc[u]
  BY DEF TaskOK
<1>2. ListOK'
  BY DEF ListOK
<1>3. TaskOK'
  BY <1>1 DEF TaskOK, TakenSet
<1>4. Forward
  BY DEF Forward
<1>5. CountOK'
  <2>1. pc' = Placed(pc, t, b)
    BY DEF Placed
  <2> QED
    BY <2>1, PcMoves
<1> QED
  BY <1>2, <1>3, <1>4, <1>5, ForwardKeeps

\* Of the stations: which count.
LEMMA StationCounts ==
  /\ \A b \in {"idle", "count", "push"} : In(b, PushSet) = 0 /\ In(b, StartSet) = 0
  /\ \A b \in {"get", "start", "pushed"} : In(b, PushSet) = 1 /\ In(b, StartSet) = 0
  /\ \A b \in {"number", "send", "fail"} : In(b, PushSet) = 1 /\ In(b, StartSet) = 1
  /\ In("completed", PushSet) = 0 /\ In("completed", StartSet) = 1
  /\ \A b \in {"idle", "count", "push", "completed"} : b \notin PushSet /\ b \notin BusySet
  /\ "pushed" \notin BusySet
  /\ \A b \in BusySet : b \in PushSet
BY DEF In, PushSet, StartSet, BusySet

\* The count does not go below 0.
LEMMA CountNumber == CountOK => packet_count \in Nat
BY Sizes, SizeNat DEF CountOK, Counted

\* push(): the count, the list and what the task does next.
LEMMA PushStep ==
  ASSUME ConInv, NEW t \in Task, C!PushStep(t), UNCHANGED shownVars, UNCHANGED calls
  PROVE  ListOK' /\ TaskOK' /\ CallsOK' /\ ServerOK' /\ KeptOK' /\ CountOK'
<1> USE DEF ConInv
<1>0. /\ packet_count \in Int /\ at \in [Task -> Write \cup {0}] /\ sent \in [Write -> Text]
      /\ calls' \subseteq calls
  BY CountNumber DEF TaskOK
<1>1. CASE C!Push(t)
  <2>1. CASE pc' = [pc EXCEPT ![t] = "idle"] /\ packet_count' = packet_count /\ pc[t] = "push"
    <3>1. UNCHANGED <<list, status, sent, at>>
      BY <1>1 DEF C!Push
    <3> DEFINE b == "idle"
               a == "push"
    <3>2. /\ b \in Stations /\ b \notin TakenSet /\ b \notin PushSet /\ b \notin BusySet
          /\ packet_count' = packet_count + In(b, PushSet) - In(a, PushSet) + In(b, StartSet) - In(a, StartSet)
      BY <1>0, <2>1, StationCounts DEF Stations, TakenSet
    <3>3. pc[t] = a /\ pc' = [pc EXCEPT ![t] = b]
      BY <2>1
    <3> HIDE DEF a, b
    <3> QED
      BY <1>0, <3>1, <3>2, <3>3, TaskGoes
  <2>2. CASE pc' = [pc EXCEPT ![t] = "get"] /\ packet_count = 0 /\ packet_count' = packet_count + 1 /\ pc[t] = "push"
    <3>1. UNCHANGED <<list, status, sent, at>>
      BY <1>1 DEF C!Push
    <3> DEFINE b == "get"
               a == "push"
    <3>2. /\ b \in Stations /\ b \notin TakenSet
          /\ packet_count' = packet_count + In(b, PushSet) - In(a, PushSet) + In(b, StartSet) - In(a, StartSet)
      BY <1>0, <2>2, StationCounts DEF Stations, TakenSet
    <3>3. pc[t] = a /\ pc' = [pc EXCEPT ![t] = b] /\ packet_count = 0
      BY <2>2
    <3> HIDE DEF a, b
    <3> QED
      BY <1>0, <3>1, <3>2, <3>3, TaskGoes
  <2> QED
    BY <1>1, <2>1, <2>2 DEF C!Push, C!Steps
<1>2. CASE C!Get(t)
  <2>1. CASE list = << >>
    <3>1. UNCHANGED <<list, status, sent, at, packet_count>> /\ pc[t] = "get" /\ pc' = [pc EXCEPT ![t] = "pushed"]
      BY <1>2, <2>1 DEF C!Get, C!Steps
    <3> DEFINE b == "pushed"
               a == "get"
    <3>2. /\ b \in Stations /\ b \notin TakenSet /\ b \notin BusySet /\ a \in PushSet
          /\ packet_count' = packet_count + In(b, PushSet) - In(a, PushSet) + In(b, StartSet) - In(a, StartSet)
      BY <1>0, <3>1, StationCounts DEF Stations, TakenSet, PushSet
    <3>3. pc[t] = a /\ pc' = [pc EXCEPT ![t] = b]
      BY <3>1
    <3> HIDE DEF a, b
    <3> QED
      BY <1>0, <3>1, <3>2, <3>3, TaskGoes
  <2>2. CASE list # << >>
    <3> DEFINE w == Head(list)
    <3>1. /\ pc[t] = "get" /\ pc' = [pc EXCEPT ![t] = "start"] /\ list' = Tail(list)
          /\ at' = [at EXCEPT ![t] = w] /\ status' = [status EXCEPT ![w] = "taken"]
          /\ UNCHANGED <<packet_count, sent>>
      BY <1>2, <2>2 DEF C!Get, C!Steps, C!Becomes
    <3>2. /\ w \in Write /\ w \in ToSet(list) /\ list' \in Seq(Write) /\ IsInjective(list')
          /\ ToSet(list') = ToSet(list) \ {w}
      BY <2>2, <3>1, ListTail DEF ListOK
    <3>3. status[w] = "listed"
      BY <3>2 DEF ListOK
    <3> HIDE DEF w
    <3>4. /\ status' \in [Write -> Statuses] /\ status'[w] = "taken" /\ \A v \in Write : v # w => status'[v] = status[v]
          /\ pc' \in [Task -> Stations] /\ pc'[t] = "start" /\ \A u \in Task : u # t => pc'[u] = pc[u]
          /\ at' \in [Task -> Write \cup {0}] /\ at'[t] = w /\ \A u \in Task : u # t => at'[u] = at[u]
      BY <3>1, <3>2 DEF TaskOK, Statuses, Stations
    <3>5. ListOK'
      BY <3>2, <3>3, <3>4 DEF ListOK
    <3>6. TaskOK'
      BY <3>1, <3>2, <3>3, <3>4 DEF TaskOK
    <3>7. Forward
      BY <3>1, <3>3, <3>4 DEF Forward, Early
    <3>8. CountOK'
      <4>1. pc' = Placed(pc, t, "start") /\ status' = Placed(status, w, "taken")
        BY <3>1 DEF Placed
      <4>2. "start" \in PushSet /\ pc[t] \in PushSet /\ pc[t] \in BusySet /\ "taken" \notin WaySet /\ "listed" \notin WaySet
        BY <3>1 DEF PushSet, BusySet, WaySet
      <4>3. packet_count' = packet_count + In("taken", WaySet) - In(status[w], WaySet)
                              + In("start", PushSet) - In(pc[t], PushSet) + In("start", StartSet) - In(pc[t], StartSet)
        <5>1. In("taken", WaySet) = 0 /\ In(status[w], WaySet) = 0
          BY <3>3, <4>2 DEF In
        <5> QED
          BY <1>0, <3>1, <5>1, StationCounts
      <4> QED
        BY <3>2, <4>1, <4>2, <4>3, BothMove
    <3> QED
      BY <1>0, <3>5, <3>6, <3>7, <3>8, <3>1, ForwardKeeps
  <2> QED
    BY <2>1, <2>2
<1>3. CASE C!Start(t)
  <2>1. /\ UNCHANGED <<list, status, sent, at>> /\ packet_count' = packet_count + 1
        /\ pc[t] = "start" /\ pc' = [pc EXCEPT ![t] = "number"]
    BY <1>3 DEF C!Start, C!Steps
  <2> DEFINE b == "number"
             a == "start"
  <2>2. /\ b \in Stations /\ a \in TakenSet /\ a \in PushSet /\ a \in BusySet
        /\ packet_count' = packet_count + In(b, PushSet) - In(a, PushSet) + In(b, StartSet) - In(a, StartSet)
    BY <1>0, <2>1, StationCounts DEF Stations, TakenSet, PushSet, BusySet
  <2>3. pc[t] = a /\ pc' = [pc EXCEPT ![t] = b]
    BY <2>1
  <2> HIDE DEF a, b
  <2> QED
    BY <1>0, <2>1, <2>2, <2>3, TaskGoes
<1>4. CASE C!Fail(t)
  <2> DEFINE w == at[t]
  <2>1. /\ pc[t] = "fail" /\ pc' = [pc EXCEPT ![t] = "pushed"] /\ status' = [status EXCEPT ![w] = "Failed"]
        /\ packet_count' = packet_count - 1 /\ UNCHANGED <<list, sent, at>>
    BY <1>4 DEF C!Fail, C!Steps, C!Becomes
  <2>2. w \in Write /\ status[w] = "taken"
    BY <2>1 DEF TaskOK
  <2>3. \A u \in Task : u # t /\ pc[u] \in TakenSet => at[u] # w
    <3>1. \A u \in Task : pc[u] \in TakenSet => pc[u] \in PushSet
      BY DEF TakenSet, PushSet
    <3>2. pc[t] \in PushSet /\ SizeOf(Task, pc, PushSet) <= 1
      BY <2>1 DEF PushSet, CountOK, Counted
    <3>3. \A u \in Task : pc[u] \in PushSet => u = t
      BY <3>2, Sizes, OnlyOne
    <3> QED
      BY <3>1, <3>3
  <2> HIDE DEF w
  <2>4. /\ status' \in [Write -> Statuses] /\ status'[w] = "Failed" /\ \A v \in Write : v # w => status'[v] = status[v]
        /\ pc' \in [Task -> Stations] /\ pc'[t] = "pushed" /\ \A u \in Task : u # t => pc'[u] = pc[u]
    BY <2>1, <2>2 DEF TaskOK, Statuses, Stations
  <2>5. ListOK'
    BY <2>1, <2>2, <2>4 DEF ListOK
  <2>6. TaskOK'
    BY <2>1, <2>2, <2>3, <2>4 DEF TaskOK, TakenSet
  <2>7. Forward
    BY <2>1, <2>2, <2>4 DEF Forward, Early
  <2>8. CountOK'
    <3>1. pc' = Placed(pc, t, "pushed") /\ status' = Placed(status, w, "Failed")
      BY <2>1 DEF Placed
    <3>2. pc[t] \in PushSet /\ "Failed" \notin WaySet /\ "pushed" \notin BusySet /\ "taken" \notin WaySet
      BY <2>1 DEF PushSet, BusySet, WaySet
    <3>3. packet_count' = packet_count + In("Failed", WaySet) - In(status[w], WaySet)
                            + In("pushed", PushSet) - In(pc[t], PushSet) + In("pushed", StartSet) - In(pc[t], StartSet)
      <4>1. In("Failed", WaySet) = 0 /\ In(status[w], WaySet) = 0
        BY <2>2, <3>2 DEF In
      <4> QED
        BY <1>0, <2>1, <4>1, StationCounts
    <3> QED
      BY <2>2, <3>1, <3>2, <3>3, BothMove
  <2> QED
    BY <1>0, <2>5, <2>6, <2>7, <2>8, ForwardKeeps
<1>5. CASE C!Pushed(t)
  <2>1. /\ UNCHANGED <<list, status, sent>> /\ packet_count' = packet_count - 1 /\ at' = [at EXCEPT ![t] = 0]
        /\ pc[t] = "pushed" /\ pc' = [pc EXCEPT ![t] = "push"]
    BY <1>5 DEF C!Pushed, C!Steps
  <2> DEFINE b == "push"
             a == "pushed"
  <2>2. /\ b \in Stations /\ b \notin TakenSet /\ b \notin PushSet /\ b \notin BusySet
        /\ packet_count' = packet_count + In(b, PushSet) - In(a, PushSet) + In(b, StartSet) - In(a, StartSet)
    BY <1>0, <2>1, StationCounts DEF Stations, TakenSet
  <2>3. /\ pc[t] = a /\ pc' = [pc EXCEPT ![t] = b]
        /\ at' \in [Task -> Write \cup {0}] /\ \A u \in Task : u # t => at'[u] = at[u]
    BY <1>0, <2>1
  <2> HIDE DEF a, b
  <2> QED
    BY <1>0, <2>1, <2>2, <2>3, TaskGoes
<1>6. CASE C!Uncount(t)
  <2>1. /\ UNCHANGED <<list, status, sent, at>> /\ packet_count' = packet_count - 1
        /\ pc[t] = "completed" /\ pc' = [pc EXCEPT ![t] = "push"]
    BY <1>6 DEF C!Uncount, C!Steps
  <2> DEFINE b == "push"
             a == "completed"
  <2>2. /\ b \in Stations /\ b \notin TakenSet /\ b \notin PushSet /\ b \notin BusySet
        /\ packet_count' = packet_count + In(b, PushSet) - In(a, PushSet) + In(b, StartSet) - In(a, StartSet)
    BY <1>0, <2>1, StationCounts DEF Stations, TakenSet
  <2>3. pc[t] = a /\ pc' = [pc EXCEPT ![t] = b]
    BY <2>1
  <2> HIDE DEF a, b
  <2> QED
    BY <1>0, <2>1, <2>2, <2>3, TaskGoes
<1>7. CASE C!Count(t)
  <2>1. /\ UNCHANGED <<list, status, sent, at, packet_count>> /\ pc[t] = "count" /\ pc' = [pc EXCEPT ![t] = "push"]
    BY <1>7 DEF C!Count, C!Steps
  <2> DEFINE b == "push"
             a == "count"
  <2>2. /\ b \in Stations /\ b \notin TakenSet /\ b \notin PushSet /\ b \notin BusySet
        /\ packet_count' = packet_count + In(b, PushSet) - In(a, PushSet) + In(b, StartSet) - In(a, StartSet)
    BY <1>0, <2>1, StationCounts DEF Stations, TakenSet
  <2>3. pc[t] = a /\ pc' = [pc EXCEPT ![t] = b]
    BY <2>1
  <2> HIDE DEF a, b
  <2> QED
    BY <1>0, <2>1, <2>2, <2>3, TaskGoes
<1> QED
  BY <1>1, <1>2, <1>3, <1>4, <1>5, <1>6, <1>7 DEF C!PushStep

\* The write that was taken gets its number; it is sent; its answer comes; it is given up.
LEMMA NumberStep ==
  ASSUME ConInv, NEW t \in Task, C!Number(t), UNCHANGED shownVars, UNCHANGED <<calls, owner>>
  PROVE  ConInv'
<1> USE DEF ConInv
<1> DEFINE b == IF c_opened THEN "send" ELSE "fail"
           a == "number"
           w == at[t]
           text == [con |-> con_id, number |-> write_number]
<1>1. /\ pc[t] = a /\ pc' = [pc EXCEPT ![t] = b]
      /\ sent' = IF c_opened THEN [sent EXCEPT ![w] = text] ELSE sent
      /\ write_number' = IF c_opened THEN (write_number + 1) % NumMod ELSE write_number
      /\ UNCHANGED <<con_id, list, packet_count, status, at>>
  BY DEF C!Number, C!Steps
<1>2. packet_count \in Int /\ at \in [Task -> Write \cup {0}] /\ sent \in [Write -> Text]
  BY CountNumber DEF TaskOK
<1>3. w \in Write /\ status[w] = "taken"
  BY <1>1 DEF TaskOK
<1>4. text \in Text
  BY DEF OwnerOK, Text
<1>5. /\ b \in Stations /\ a \in TakenSet /\ a \in PushSet /\ a \in BusySet
      /\ packet_count' = packet_count + In(b, PushSet) - In(a, PushSet) + In(b, StartSet) - In(a, StartSet)
  <2>1. b \in {"number", "send", "fail"} /\ a \in {"number", "send", "fail"}
    OBVIOUS
  <2>2. /\ In(b, PushSet) = 1 /\ In(b, StartSet) = 1
        /\ In(a, PushSet) = 1 /\ In(a, StartSet) = 1
    BY <2>1, StationCounts
  <2>3. packet_count' = packet_count + In(b, PushSet) - In(a, PushSet) + In(b, StartSet) - In(a, StartSet)
    BY <1>1, <1>2, <2>2
  <2> QED
    BY <2>3 DEF Stations, TakenSet, PushSet, BusySet
<1> HIDE DEF a, b, w, text
<1>6. sent' \in [Write -> Text] /\ \A v \in Write : status[v] \notin Early => sent'[v] = sent[v]
  BY <1>1, <1>2, <1>3, <1>4 DEF Early
<1>7. /\ at' \in [Task -> Write \cup {0}] /\ \A u \in Task : u # t => at'[u] = at[u]
      /\ at'[t] = at[t] /\ calls' \subseteq calls
  BY <1>1, <1>2
<1>8. UNCHANGED <<list, status>>
  BY <1>1
<1>9. ListOK' /\ TaskOK' /\ CallsOK' /\ ServerOK' /\ KeptOK' /\ CountOK'
  BY <1>1, <1>5, <1>6, <1>7, <1>8, TaskGoes
<1>10. OwnerOK'
  <2>1. write_number' \in 0..(NumMod - 1)
    <3>1. write_number + 1 \in Int /\ write_number \in 0..(NumMod - 1)
      BY DEF OwnerOK
    <3>2. (write_number + 1) % NumMod \in 0..(NumMod - 1)
      BY <3>1, SizesOfConsole, Division
    <3> QED
      BY <1>1, <3>1, <3>2
  <2> QED
    BY <1>1, <2>1 DEF OwnerOK
<1> QED
  BY <1>9, <1>10

LEMMA SendStep ==
  ASSUME ConInv, NEW t \in Task, C!Send(t), UNCHANGED shownVars
  PROVE  ListOK' /\ TaskOK' /\ CallsOK' /\ ServerOK' /\ KeptOK' /\ CountOK'
<1> USE DEF ConInv
<1> DEFINE w == at[t]
           call == [what |-> "write", from |-> w, con |-> sent[w].con]
<1>1. /\ pc[t] = "send" /\ pc' = [pc EXCEPT ![t] = "pushed"] /\ status' = [status EXCEPT ![w] = "sent"]
      /\ calls' = calls \cup {call} /\ UNCHANGED <<list, packet_count, sent, at>>
  BY DEF C!Send, C!Steps, C!Becomes
<1>2. w \in Write /\ status[w] = "taken" /\ packet_count \in Int
  BY <1>1, CountNumber DEF TaskOK
<1>3. \A u \in Task : u # t /\ pc[u] \in TakenSet => at[u] # w
  <2>1. \A u \in Task : pc[u] \in TakenSet => pc[u] \in PushSet
    BY DEF TakenSet, PushSet
  <2>2. pc[t] \in PushSet /\ SizeOf(Task, pc, PushSet) <= 1
    BY <1>1 DEF PushSet, CountOK, Counted
  <2>3. \A u \in Task : pc[u] \in PushSet => u = t
    BY <2>2, Sizes, OnlyOne
  <2> QED
    BY <2>1, <2>3
<1>4. call.from = w /\ call.con = sent[w].con
  OBVIOUS
<1> HIDE DEF w, call
<1>5. /\ status' \in [Write -> Statuses] /\ status'[w] = "sent" /\ \A v \in Write : v # w => status'[v] = status[v]
      /\ pc' \in [Task -> Stations] /\ pc'[t] = "pushed" /\ \A u \in Task : u # t => pc'[u] = pc[u]
  BY <1>1, <1>2 DEF TaskOK, Statuses, Stations
<1>6. ListOK'
  BY <1>1, <1>2, <1>5 DEF ListOK
<1>7. TaskOK'
  BY <1>1, <1>2, <1>3, <1>5 DEF TaskOK, TakenSet
<1>8. Forward
  BY <1>1, <1>2, <1>5 DEF Forward, Early
<1>9. CountOK'
  <2>1. pc' = Placed(pc, t, "pushed") /\ status' = Placed(status, w, "sent")
    BY <1>1 DEF Placed
  <2>2. pc[t] \in PushSet /\ pc[t] \in BusySet /\ "sent" \in WaySet /\ "pushed" \notin BusySet /\ "taken" \notin WaySet
    BY <1>1 DEF PushSet, BusySet, WaySet
  <2>3. packet_count' = packet_count + In("sent", WaySet) - In(status[w], WaySet)
                          + In("pushed", PushSet) - In(pc[t], PushSet) + In("pushed", StartSet) - In(pc[t], StartSet)
    <3>1. In("sent", WaySet) = 1 /\ In(status[w], WaySet) = 0
      BY <1>2, <2>2 DEF In
    <3> QED
      BY <1>1, <1>2, <3>1, StationCounts
  <2> QED
    BY <1>2, <2>1, <2>2, <2>3, BothMove
<1>10. CallsOK'
  <2> SUFFICES ASSUME NEW c \in calls', c.what = "write"
               PROVE  c.from \in Write /\ c.con = sent'[c.from].con /\ status'[c.from] \notin Early
    BY DEF CallsOK
  <2>1. CASE c \in calls
    BY <1>8, <2>1 DEF CallsOK, Forward
  <2>2. CASE c = call
    BY <1>1, <1>2, <1>4, <1>5, <2>2 DEF Early
  <2> QED
    BY <1>1, <2>1, <2>2
<1> QED
  BY <1>6, <1>7, <1>8, <1>9, <1>10, ForwardKeeps

LEMMA CompleteStep ==
  ASSUME ConInv, NEW t \in Task, NEW w \in Write, C!CompleteWrite(t, w), UNCHANGED shownVars, UNCHANGED calls
  PROVE  ListOK' /\ TaskOK' /\ CallsOK' /\ ServerOK' /\ KeptOK' /\ CountOK'
<1> USE DEF ConInv
<1> DEFINE d == IF status[w] = "ok" THEN "Ok" ELSE "Failed"
<1>1. /\ status[w] \in {"ok", "error", "lost"} /\ pc[t] = "idle" /\ pc' = [pc EXCEPT ![t] = "completed"]
      /\ status' = [status EXCEPT ![w] = d] /\ UNCHANGED <<list, packet_count, sent, at>>
  BY DEF C!CompleteWrite, C!Steps, C!Becomes
<1>2. d \in {"Ok", "Failed"} /\ (d = "Ok" => status[w] = "ok") /\ packet_count \in Int
  BY CountNumber
<1> HIDE DEF d
<1>3. /\ status' \in [Write -> Statuses] /\ status'[w] = d /\ \A v \in Write : v # w => status'[v] = status[v]
      /\ pc' \in [Task -> Stations] /\ pc'[t] = "completed" /\ \A u \in Task : u # t => pc'[u] = pc[u]
  BY <1>1, <1>2 DEF TaskOK, Statuses, Stations
<1>4. ListOK'
  BY <1>1, <1>2, <1>3 DEF ListOK
<1>5. TaskOK'
  BY <1>1, <1>2, <1>3 DEF TaskOK
<1>6. Forward
  BY <1>1, <1>2, <1>3 DEF Forward, Early
<1>7. CountOK'
  <2>1. pc' = Placed(pc, t, "completed") /\ status' = Placed(status, w, d)
    BY <1>1 DEF Placed
  <2>2. d \notin WaySet /\ "completed" \notin PushSet /\ "completed" \notin BusySet
    BY <1>2, StationCounts DEF WaySet
  <2>3. packet_count' = packet_count + In(d, WaySet) - In(status[w], WaySet)
                          + In("completed", PushSet) - In(pc[t], PushSet) + In("completed", StartSet) - In(pc[t], StartSet)
    <3>1. In(d, WaySet) = 0 /\ In(status[w], WaySet) = 1
      BY <1>1, <2>2 DEF In, WaySet
    <3> QED
      BY <1>1, <1>2, <3>1, StationCounts
  <2> QED
    BY <2>1, <2>2, <2>3, BothMove
<1> QED
  BY <1>4, <1>5, <1>6, <1>7, ForwardKeeps

LEMMA GiveUpStep ==
  ASSUME ConInv, NEW w \in Write, C!GiveUp(w), UNCHANGED shownVars, UNCHANGED calls
  PROVE  ListOK' /\ TaskOK' /\ CallsOK' /\ ServerOK' /\ KeptOK' /\ CountOK'
<1> USE DEF ConInv
<1>1. /\ status[w] = "sent" /\ status' = [status EXCEPT ![w] = "lost"]
      /\ UNCHANGED <<list, packet_count, sent, pc, at>>
  BY DEF C!GiveUp, C!Becomes
<1>2. status' \in [Write -> Statuses] /\ status'[w] = "lost" /\ \A v \in Write : v # w => status'[v] = status[v]
  BY <1>1 DEF TaskOK, Statuses
<1>3. ListOK'
  BY <1>1, <1>2 DEF ListOK
<1>4. TaskOK'
  BY <1>1, <1>2 DEF TaskOK
<1>5. Forward
  BY <1>1, <1>2 DEF Forward, Early
<1>6. CountOK'
  <2>1. status' = Placed(status, w, "lost") /\ "lost" \in WaySet /\ "sent" \in WaySet
    BY <1>1 DEF Placed, WaySet
  <2> QED
    BY <1>1, <2>1, StatusMoves
<1> QED
  BY <1>3, <1>4, <1>5, <1>6, ForwardKeeps

-----------------------------------------------------------------------------
\* What the owner of the console does.
LEMMA OwnerStep ==
  ASSUME ConInv, C!OwnerNext
  PROVE  ConInv'
<1> USE DEF ConInv
<1>1. UNCHANGED <<list, packet_count, status, sent, pc, at>> /\ UNCHANGED shownVars
  BY DEF C!OwnerNext, C!Open, C!DoOpen, C!Close, C!OwnerGivesUp, C!pushVars, C!serverVars, shownVars
<1>2. ListOK' /\ TaskOK' /\ CountOK'
  BY <1>1, TasksRest
<1>3. Forward
  BY <1>1 DEF Forward
<1>4. KeptOK' /\ ServerOK'
  BY <1>1, <1>3, ForwardKeeps
<1>5. CallsOK'
  <2> DEFINE o == [what |-> "open", from |-> opens', con |-> 0]
             e == [what |-> "close", from |-> opens, con |-> con_id]
  <2>1. o.what # "write" /\ e.what # "write"
    OBVIOUS
  <2> HIDE DEF o, e
  <2>2. calls' \subseteq calls \cup {o, e}
    <3>1. CASE C!Open
      BY <3>1 DEF C!Open, o
    <3>2. CASE C!Close
      BY <3>2 DEF C!Close, e
    <3>3. CASE C!DoOpen \/ C!OwnerGivesUp
      BY <3>3 DEF C!DoOpen, C!OwnerGivesUp
    <3> QED
      BY <3>1, <3>2, <3>3 DEF C!OwnerNext
  <2> QED
    BY <1>1, <2>1, <2>2 DEF CallsOK
<1>6. OwnerOK'
  <2>1. 0 \in 0..(NumMod - 1)
    BY SizesOfConsole
  <2>2. CASE C!Open
    BY <2>2 DEF C!Open, OwnerOK, C!clientVars
  <2>3. CASE C!DoOpen
    BY <2>1, <2>3 DEF C!DoOpen, OwnerOK
  <2>4. CASE C!Close
    BY <2>4 DEF C!Close, OwnerOK
  <2>5. CASE C!OwnerGivesUp
    BY <2>5 DEF C!OwnerGivesUp, OwnerOK, C!clientVars
  <2> QED
    BY <2>2, <2>3, <2>4, <2>5 DEF C!OwnerNext
<1> QED
  BY <1>2, <1>4, <1>5, <1>6

-----------------------------------------------------------------------------
\* What the server does: texts that wait wait on, or are printed.
LEMMA PrintsKeep ==
  ASSUME ServerOK, C!Prints(server_id), server_id' = server_id,
         \A x : is_opened /\ HeldIn(writer, x) => (is_opened' /\ HeldIn(writer, x)') \/ OutOf(writer, x)'
  PROVE  /\ \A s \in Text : Kept(s) => Kept(s)'
         /\ \A s \in Text : s.con = server_id /\ ((is_opened' /\ HeldIn(writer, s.number)') \/ OutOf(writer, s.number)') => Kept(s)'
<1>1. shown' = shown \cup {[con |-> server_id, number |-> writer'.printed[i]] : i \in DOMAIN writer'.printed}
  BY DEF C!Prints
<1>2. ASSUME NEW s \in Text, s.con = server_id, OutOf(writer, s.number)' PROVE s \in shown'
  <2>1. PICK i \in DOMAIN writer'.printed : writer'.printed[i] = s.number
    BY <1>2 DEF OutOf
  <2>2. s = [con |-> server_id, number |-> writer'.printed[i]]
    BY <1>2, <2>1 DEF Text
  <2> QED
    BY <1>1, <2>2
<1>3. ASSUME NEW s \in Text, s.con = server_id,
             (is_opened' /\ HeldIn(writer, s.number)') \/ OutOf(writer, s.number)'
      PROVE  Kept(s)'
  BY <1>2, <1>3 DEF Kept, HeldIn
<1>4. ASSUME NEW s \in Text, Kept(s) PROVE Kept(s)'
  <2>1. CASE s \in shown
    BY <1>1, <2>1 DEF Kept
  <2>2. CASE is_opened /\ s.con = server_id /\ HeldIn(writer, s.number)
    BY <1>3, <2>2
  <2> QED
    BY <1>4, <2>1, <2>2 DEF Kept
<1> QED
  BY <1>3, <1>4

\* What is kept stays kept, and a write that becomes well is kept.
LEMMA KeptGrows ==
  ASSUME KeptOK, TaskOK, \A s \in Text : Kept(s) => Kept(s)', sent' = sent,
         \A w \in Write : status'[w] \in {"ok", "Ok"} => status[w] \in {"ok", "Ok"} \/ Kept(sent[w])'
  PROVE  KeptOK'
<1>1. ASSUME NEW w \in Write, status'[w] \in {"ok", "Ok"} PROVE Kept(sent[w])'
  <2>1. CASE Kept(sent[w])'
    BY <2>1
  <2>2. CASE status[w] \in {"ok", "Ok"}
    <3>1. PICK s \in Text : s = sent[w]
      BY DEF TaskOK
    <3>2. Kept(s)
      BY <2>2, <3>1 DEF KeptOK
    <3>3. Kept(s)'
      BY <3>2
    <3> QED
      BY <3>1, <3>3 DEF Kept, HeldIn
  <2> QED
    BY <1>1, <2>1, <2>2
<1> QED
  BY <1>1 DEF KeptOK

\* do_close: all that waits is printed.
LEMMA CloseStep ==
  ASSUME ServerOK, C!DoClose
  PROVE  ServerOK' /\ \A s \in Text : Kept(s) => Kept(s)'
<1> DEFINE B == ConFrames
           w == Silent(writer)
           v == writer'
<1> HIDE DEF B, v
<1>1. B \in Nat \ {0} /\ writer \in WriterSet(B)
  BY SizesOfConsole DEF B, ServerOK
<1>2. w = Silent(writer) /\ C!Con!Quiet = w
  BY DEF C!Con!Quiet, Silent
<1> HIDE DEF w
<1>3. w \in WriterSet(B) /\ \A x : HeldIn(writer, x) <=> HeldIn(w, x)
  BY <1>1, <1>2, SilentKeeps
<1>4. v = PrintedIn(B, w, B) /\ is_opened' = FALSE /\ server_id' = server_id /\ C!Prints(server_id)
  BY <1>2, SamePrinted DEF C!DoClose, C!Con!Close, C!Con!Becomes, B, v
<1>5. v \in WriterSet(B) /\ \A x : Has(w, x) => OutOf(v, x)
  BY <1>1, <1>3, <1>4, AllPrinted
<1>6. ServerOK'
  BY <1>4, <1>5 DEF ServerOK, B, v
<1>7. \A x : HeldIn(writer, x) => OutOf(writer, x)'
  BY <1>3, <1>5 DEF Has, OutOf, v
<1> QED
  BY <1>4, <1>6, <1>7, PrintsKeep

\* Every step of the server leaves what its client does alone, but for its answers.
LEMMA TickStep ==
  ASSUME ConInv, C!Tick
  PROVE  ConInv'
<1> USE DEF ConInv
<1> DEFINE B == ConFrames
           w == Silent(writer)
           v == writer'
<1> HIDE DEF B, v
<1>1. B \in Nat \ {0} /\ NumMod \in Nat \ {0} /\ writer \in WriterSet(B)
  BY SizesOfConsole DEF B, ServerOK
<1>2. w = Silent(writer) /\ C!Con!Quiet = w
  BY DEF C!Con!Quiet, Silent
<1> HIDE DEF w
<1>3. w \in WriterSet(B) /\ \A x : HeldIn(writer, x) <=> HeldIn(w, x)
  BY <1>1, <1>2, SilentKeeps
<1>4. /\ v = C!Con!Ticked(w) /\ is_opened /\ is_opened' = is_opened /\ server_id' = server_id /\ C!Prints(server_id)
      /\ UNCHANGED <<list, packet_count, status, sent, pc, at, owner, con_id, write_number, calls>>
  BY <1>2 DEF C!Tick, C!Con!Tick, C!Con!Becomes, C!clientVars, C!pushVars, C!ownerVars, v
<1>5. Ticks(B, w, v)
  BY <1>4, SameTicked DEF B
<1>6. Keeps(B, w, v)
  BY <1>1, <1>3, <1>5, TickedKeeps
<1>7. v \in WriterSet(B) /\ \A x : Has(w, x) => Has(v, x)
  BY <1>6 DEF Keeps
<1>8. \A x : HeldIn(writer, x) => HeldIn(writer, x)' \/ OutOf(writer, x)'
  BY <1>3, <1>7 DEF Has, HeldIn, OutOf, v
<1>9. \A s \in Text : Kept(s) => Kept(s)'
  BY <1>4, <1>8, PrintsKeep
<1>10. KeptOK'
  <2>1. \A x \in Write : status'[x] \in {"ok", "Ok"} => status[x] \in {"ok", "Ok"}
    BY <1>4
  <2> QED
    BY <1>4, <1>9, <2>1, KeptGrows
<1>11. ServerOK'
  BY <1>4, <1>7 DEF ServerOK, B, v
<1>12. ListOK' /\ TaskOK' /\ CountOK'
  BY <1>4, TasksRest
<1> QED
  BY <1>4, <1>10, <1>11, <1>12 DEF CallsOK, OwnerOK

\* The session is lost; a call opens the console; a call closes it.
LEMMA SessionStep ==
  ASSUME ConInv, C!Session
  PROVE  ConInv'
<1> USE DEF ConInv
<1>1. /\ C!DoClose
      /\ UNCHANGED <<list, packet_count, status, sent, pc, at, owner, con_id, write_number, calls>>
  BY DEF C!Session, C!clientVars, C!pushVars, C!ownerVars
<1>2. ServerOK' /\ \A s \in Text : Kept(s) => Kept(s)'
  BY <1>1, CloseStep
<1>3. KeptOK'
  <2>1. \A x \in Write : status'[x] \in {"ok", "Ok"} => status[x] \in {"ok", "Ok"}
    BY <1>1
  <2> QED
    BY <1>1, <1>2, <2>1, KeptGrows
<1>4. ListOK' /\ TaskOK' /\ CountOK'
  BY <1>1, TasksRest
<1> QED
  BY <1>1, <1>2, <1>3, <1>4 DEF CallsOK, OwnerOK

LEMMA ExecuteOpenStep ==
  ASSUME ConInv, NEW c \in calls, C!ExecuteOpen(c), calls' = calls \ {c}
  PROVE  ConInv'
<1> USE DEF ConInv
<1>1. UNCHANGED <<list, packet_count, status, sent, pc, at, con_id, write_number, shown>>
  BY DEF C!ExecuteOpen, C!clientVars, C!pushVars, C!serverVars
<1>2. \/ UNCHANGED <<is_opened, server_id, writer>>
      \/ is_opened = FALSE /\ C!Con!Open /\ server_id' = server_id + 1
  BY DEF C!ExecuteOpen, C!serverVars, C!Con!Open, ServerOK
<1>3. ServerOK' /\ \A s \in Text : Kept(s) => Kept(s)'
  <2>1. CASE UNCHANGED <<is_opened, server_id, writer>>
    BY <1>1, <2>1 DEF ServerOK, Kept, HeldIn
  <2>2. CASE is_opened = FALSE /\ C!Con!Open /\ server_id' = server_id + 1
    <3>1. writer' = OpenedIn(writer) /\ is_opened' = TRUE
      BY <2>2 DEF C!Con!Open, C!Con!Opened, OpenedIn
    <3>2. writer' \in WriterSet(ConFrames)
      <4>1. ConFrames \in Nat \ {0} /\ NumMod \in Nat \ {0} /\ writer \in WriterSet(ConFrames)
        BY SizesOfConsole DEF ServerOK
      <4> QED
        BY <3>1, <4>1, OpenedKeeps
    <3> QED
      BY <1>1, <2>2, <3>1, <3>2 DEF ServerOK, Kept
  <2> QED
    BY <1>2, <2>1, <2>2
<1>4. KeptOK'
  <2>1. \A x \in Write : status'[x] \in {"ok", "Ok"} => status[x] \in {"ok", "Ok"}
    BY <1>1
  <2> QED
    BY <1>1, <1>3, <2>1, KeptGrows
<1>5. ListOK' /\ TaskOK' /\ CountOK'
  BY <1>1, TasksRest
<1>6. OwnerOK'
  <2>1. server_id' \in Nat
    BY <1>3 DEF ServerOK
  <2>2. owner' = [owner EXCEPT !.state = "closed"] \/ owner' = [state |-> "answered", con |-> server_id'] \/ owner' = owner
    BY DEF C!ExecuteOpen
  <2> QED
    BY <1>1, <2>1, <2>2 DEF OwnerOK
<1>7. CallsOK'
  BY <1>1 DEF CallsOK
<1> QED
  BY <1>3, <1>4, <1>5, <1>6, <1>7

LEMMA ExecuteCloseStep ==
  ASSUME ConInv, NEW c \in calls, C!ExecuteClose(c), calls' = calls \ {c}
  PROVE  ConInv'
<1> USE DEF ConInv
<1>1. UNCHANGED <<list, packet_count, status, sent, pc, at, con_id, write_number>>
  BY DEF C!ExecuteClose, C!clientVars, C!pushVars
<1>2. C!DoClose \/ UNCHANGED <<is_opened, server_id, writer, shown>>
  BY DEF C!ExecuteClose, C!serverVars
<1>3. ServerOK' /\ \A s \in Text : Kept(s) => Kept(s)'
  <2>1. CASE UNCHANGED <<is_opened, server_id, writer, shown>>
    BY <2>1 DEF ServerOK, Kept, HeldIn
  <2> QED
    BY <1>2, <2>1, CloseStep
<1>4. KeptOK'
  <2>1. \A x \in Write : status'[x] \in {"ok", "Ok"} => status[x] \in {"ok", "Ok"}
    BY <1>1
  <2> QED
    BY <1>1, <1>3, <2>1, KeptGrows
<1>5. ListOK' /\ TaskOK' /\ CountOK'
  BY <1>1, TasksRest
<1>6. OwnerOK'
  <2>1. owner' = [owner EXCEPT !.state = "closed"] \/ owner' = owner
    BY DEF C!ExecuteClose
  <2> QED
    BY <1>1, <2>1 DEF OwnerOK
<1>7. CallsOK'
  BY <1>1 DEF CallsOK
<1> QED
  BY <1>3, <1>4, <1>5, <1>6, <1>7

\* A write is answered well only by the console that is open for it, and when the
\* writer says so: then its text is printed or waits.
LEMMA ExecuteWriteStep ==
  ASSUME ConInv, NEW c \in calls, C!ExecuteWrite(c), calls' = calls \ {c}
  PROVE  ConInv'
<1> USE DEF ConInv
<1> DEFINE B == ConFrames
           u == Silent(writer)
           v == writer'
           known == is_opened /\ server_id = c.con
           ok == known /\ v.ok
           w == c.from
           number == sent[w].number
<1>0. c.what = "write"
  BY DEF C!ExecuteWrite
<1>1. /\ \/ known /\ C!Con!PutText(number) /\ C!Prints(server_id) /\ server_id' = server_id
         \/ ~known /\ UNCHANGED <<is_opened, server_id, writer, shown>>
      /\ \/ status[w] = "sent" /\ status' = [status EXCEPT ![w] = IF ok THEN "ok" ELSE "error"]
         \/ status' = status
      /\ UNCHANGED <<list, packet_count, sent, pc, at, owner, con_id, write_number>>
  BY DEF C!ExecuteWrite, C!Becomes, C!clientVars, C!serverVars, C!ownerVars
<1>2. w \in Write /\ sent[w].con = c.con /\ sent[w] \in Text /\ number \in 0..(NumMod - 1)
  BY <1>0 DEF CallsOK, TaskOK, Text
<1> HIDE DEF B, v, number
<1>3. B \in Nat \ {0} /\ 4 * B <= NumMod /\ NumMod \in Nat \ {0} /\ write_ticks \in Nat /\ writer \in WriterSet(B)
  BY SizesOfConsole DEF B, ServerOK
<1>4. u = Silent(writer) /\ C!Con!Quiet = u
  BY DEF C!Con!Quiet, Silent
<1> HIDE DEF u
<1>5. u \in WriterSet(B) /\ \A x : HeldIn(writer, x) <=> HeldIn(u, x)
  BY <1>3, <1>4, SilentKeeps
<1>6. /\ ServerOK' /\ \A s \in Text : Kept(s) => Kept(s)'
      /\ ok => Kept(sent[w])'
  <2>1. CASE ~known /\ UNCHANGED <<is_opened, server_id, writer, shown>>
    BY <2>1 DEF ServerOK, Kept, HeldIn
  <2>2. CASE known /\ C!Con!PutText(number) /\ C!Prints(server_id) /\ server_id' = server_id
    <3>1. v = C!Con!Written(u, number) /\ is_opened /\ is_opened' = is_opened
      BY <1>4, <2>2 DEF C!Con!PutText, C!Con!Becomes, v
    <3>2. Writes(B, u, number, v)
      <4> DEFINE e == number - u.next_number
      <4>1. e \in Int
        BY <1>2, <1>5 DEF WriterSet
      <4> HIDE DEF e
      <4>2. e % NumMod \in Nat
        BY <1>3, <4>1, Division
      <4> QED
        BY <3>1, <4>2, SameWritten DEF B, e
    <3>3. Keeps(B, u, v) /\ (v.ok => Has(v, number))
      BY <1>2, <1>3, <1>5, <3>2, WrittenKeeps
    <3>4. v \in WriterSet(B) /\ \A x : Has(u, x) => Has(v, x)
      BY <3>3 DEF Keeps
    <3>5. \A x : HeldIn(writer, x) => HeldIn(writer, x)' \/ OutOf(writer, x)'
      BY <1>5, <3>4 DEF Has, HeldIn, OutOf, v
    <3>6. ServerOK'
      BY <2>2, <3>1, <3>4 DEF ServerOK, B, v
    <3>7. /\ \A s \in Text : Kept(s) => Kept(s)'
          /\ \A s \in Text : s.con = server_id /\ (HeldIn(writer, s.number)' \/ OutOf(writer, s.number)') => Kept(s)'
      BY <2>2, <3>1, <3>5, PrintsKeep
    <3>8. ASSUME v.ok PROVE Kept(sent[w])'
      <4>1. PICK s \in Text : s = sent[w]
        BY <1>2
      <4>2. s.con = server_id /\ s.number = number
        BY <1>2, <2>2, <4>1 DEF number
      <4>3. HeldIn(v, s.number) \/ OutOf(v, s.number)
        BY <3>3, <3>8, <4>2 DEF Has
      <4>4. HeldIn(writer, s.number)' \/ OutOf(writer, s.number)'
        BY <4>3 DEF HeldIn, OutOf, v
      <4>5. Kept(s)'
        BY <3>7, <4>2, <4>4
      <4> QED
        BY <1>1, <4>1, <4>5 DEF Kept, HeldIn
    <3> QED
      BY <3>6, <3>7, <3>8
  <2> QED
    BY <1>1, <2>1, <2>2
<1> HIDE DEF ok, known, w
<1>7. \/ status[w] = "sent" /\ \E d \in {"ok", "error"} : status' = [status EXCEPT ![w] = d] /\ (d = "ok" => ok)
      \/ status' = status
  BY <1>1
<1>8. PICK d \in {"ok", "error", "lost"} :
        \/ status[w] = "sent" /\ status' = [status EXCEPT ![w] = d] /\ (d = "ok" => ok)
        \/ status' = status
  BY <1>7
<1>9. /\ status' \in [Write -> Statuses]
      /\ status' # status => /\ status[w] = "sent" /\ status'[w] = d /\ (d = "ok" => ok)
                             /\ \A x \in Write : x # w => status'[x] = status[x]
  BY <1>2, <1>8 DEF TaskOK, Statuses
<1>10. KeptOK'
  <2>1. \A x \in Write : status'[x] \in {"ok", "Ok"} => status[x] \in {"ok", "Ok"} \/ Kept(sent[x])'
    BY <1>2, <1>6, <1>9
  <2> QED
    BY <1>1, <1>6, <2>1, KeptGrows
<1>11. ListOK'
  BY <1>1, <1>2, <1>9 DEF ListOK
<1>12. TaskOK'
  BY <1>1, <1>2, <1>9 DEF TaskOK
<1>13. CountOK'
  <2>1. CASE status' = status
    BY <1>1, <2>1 DEF CountOK
  <2>2. CASE status[w] = "sent" /\ status' = [status EXCEPT ![w] = d]
    <3>1. status' = Placed(status, w, d) /\ d \in WaySet /\ status[w] \in WaySet
      BY <2>2 DEF Placed, WaySet
    <3> QED
      BY <1>1, <1>2, <3>1, StatusMoves
  <2> QED
    BY <1>8, <2>1, <2>2
<1>14. CallsOK'
  BY <1>1, <1>2, <1>9 DEF CallsOK, Early
<1>15. OwnerOK'
  BY <1>1 DEF OwnerOK
<1> QED
  BY <1>6, <1>10, <1>11, <1>12, <1>13, <1>14, <1>15

-----------------------------------------------------------------------------
\* Each step of the console keeps the invariant, and it begins so.
LEMMA ConsoleStays == ConInv /\ C!Next => ConInv'
<1> SUFFICES ASSUME ConInv, C!Next PROVE ConInv'
  OBVIOUS
<1>1. CASE C!TasksRun
  <2>1. ASSUME NEW t \in Task, C!Number(t), UNCHANGED <<C!ownerVars, calls, C!serverVars>>
        PROVE  ConInv'
    <3>1. UNCHANGED shownVars /\ UNCHANGED <<calls, owner>>
      BY <2>1 DEF C!ownerVars, C!serverVars, shownVars
    <3> QED
      BY <2>1, <3>1, NumberStep
  <2>2. ASSUME UNCHANGED <<C!clientVars, C!ownerVars, C!serverVars>>
        PROVE  OwnerOK' /\ UNCHANGED shownVars
    BY <2>2 DEF ConInv, OwnerOK, C!clientVars, C!ownerVars, C!serverVars, shownVars
  <2>3. ASSUME NEW t \in Task, C!Send(t), UNCHANGED <<C!clientVars, C!ownerVars, C!serverVars>>
        PROVE  ConInv'
    BY <2>2, <2>3, SendStep DEF ConInv
  <2>4. ASSUME NEW t \in Task, C!PushStep(t), UNCHANGED <<C!clientVars, C!ownerVars, calls, C!serverVars>>
        PROVE  ConInv'
    BY <2>2, <2>4, PushStep DEF ConInv
  <2>5. ASSUME NEW t \in Task, NEW w \in Write, C!CompleteWrite(t, w),
               UNCHANGED <<C!clientVars, C!ownerVars, calls, C!serverVars>>
        PROVE  ConInv'
    BY <2>2, <2>5, CompleteStep DEF ConInv
  <2>6. ASSUME NEW w \in Write, C!GiveUp(w), UNCHANGED <<C!clientVars, C!ownerVars, calls, C!serverVars>>
        PROVE  ConInv'
    BY <2>2, <2>6, GiveUpStep DEF ConInv
  <2> QED
    BY <1>1, <2>1, <2>3, <2>4, <2>5, <2>6 DEF C!TasksRun
<1>2. CASE C!UserNext
  <2>1. OwnerOK' /\ UNCHANGED shownVars /\ UNCHANGED calls
    BY <1>2 DEF ConInv, OwnerOK, C!UserNext, C!clientVars, C!ownerVars, C!serverVars, shownVars
  <2>2. ASSUME NEW w \in Write, C!Cancel(w) PROVE ConInv'
    BY <2>1, <2>2, CancelStep DEF ConInv
  <2>3. ASSUME NEW w \in Write, NEW t \in Task, C!Put(t, w) PROVE ConInv'
    BY <2>1, <2>3, PutStep DEF ConInv
  <2> QED
    BY <1>2, <2>2, <2>3 DEF C!UserNext
<1>3. CASE C!OwnerNext
  BY <1>3, OwnerStep
<1>4. CASE C!ServerNext
  BY <1>4, TickStep, SessionStep, ExecuteOpenStep, ExecuteCloseStep, ExecuteWriteStep DEF C!ServerNext, C!Execute
<1> QED
  BY <1>1, <1>2, <1>3, <1>4 DEF C!Next

LEMMA ConsoleFirst == C!Init => ConInv
<1> SUFFICES ASSUME C!Init PROVE ConInv
  OBVIOUS
<1>1. /\ list = << >> /\ packet_count = 0 /\ calls = {} /\ con_id = 0 /\ write_number = 0
      /\ status = [w \in Write |-> "new"] /\ sent = [w \in Write |-> [con |-> 0, number |-> 0]]
      /\ pc = [t \in Task |-> "idle"] /\ at = [t \in Task |-> 0]
      /\ owner = [state |-> "closed", con |-> 0] /\ is_opened = FALSE /\ server_id = 0
      /\ writer = FirstIn(ConFrames)
  BY DEF C!Init, C!NotSent, C!Con!Init, C!Con!Opened, C!Con!Empty, FirstIn, NoText
<1>2. 0 \in 0..(NumMod - 1)
  BY SizesOfConsole
<1>3. ListOK
  <2>1. << >> \in Seq(Write) /\ ToSet(<< >>) = {} /\ IsInjective(<< >>)
    BY DEF ToSet, IsInjective
  <2> QED
    BY <1>1, <2>1 DEF ListOK
<1>4. TaskOK
  BY <1>1, <1>2 DEF TaskOK, Text, Statuses, Stations
<1>5. CallsOK /\ KeptOK
  BY <1>1 DEF CallsOK, KeptOK
<1>6. OwnerOK
  BY <1>1, <1>2 DEF OwnerOK
<1>7. ServerOK
  BY <1>1, FirstWriter, SizesOfConsole DEF ServerOK
<1>8. CountOK
  <2>1. /\ Those(Write, status, WaySet) = {} /\ Those(Task, pc, PushSet) = {} /\ Those(Task, pc, StartSet) = {}
    BY <1>1 DEF Those, WaySet, PushSet, StartSet
  <2>2. /\ SizeOf(Write, status, WaySet) = 0 /\ SizeOf(Task, pc, PushSet) = 0 /\ SizeOf(Task, pc, StartSet) = 0
    BY <2>1, FS_EmptySet DEF SizeOf
  <2> QED
    BY <1>1, <2>2 DEF CountOK, Counted
<1> QED
  BY <1>3, <1>4, <1>5, <1>6, <1>7, <1>8 DEF ConInv

\* Its variables stay.
LEMMA ConsoleSame == ConInv /\ UNCHANGED conVars => ConInv'
BY DEF conVars, ConInv, ListOK, TaskOK, CallsOK, OwnerOK, ServerOK, KeptOK, Kept, HeldIn, CountOK

\* OneOnTheWay and OkIsKept are parts of it.
LEMMA ConsoleMatches == ConInv => C!OneOnTheWay /\ C!OkIsKept
<1> SUFFICES ASSUME ConInv PROVE C!OneOnTheWay /\ C!OkIsKept
  OBVIOUS
<1>1. C!OneOnTheWay
  BY SameCounts DEF ConInv, CountOK, Counted
<1>2. ASSUME NEW s \in Text, Kept(s) PROVE s \in shown \cup C!Waiting
  <2>1. CASE s \in shown
    BY <2>1
  <2>2. CASE is_opened /\ s.con = server_id /\ HeldIn(writer, s.number)
    <3>1. ConFrames \in Nat \ {0} /\ writer.ind \in 0..(ConFrames - 1) /\ DOMAIN writer.buf = 0..(ConFrames - 1)
      BY SizesOfConsole DEF ConInv, ServerOK, WriterSet
    <3>2. PICK i \in 0..(ConFrames - 1) : writer.buf[i].ok /\ writer.buf[i].number = s.number
      BY <2>2, <3>1 DEF HeldIn
    <3>3. PICK n \in 1..ConFrames : PlaceIn(ConFrames, writer, n) = i
      BY <3>1, PlaceInRing
    <3>4. C!Con!Waits(writer, n) /\ C!Con!FrameOf(writer, n).number = s.number
      BY <3>2, <3>3, SamePlace DEF WaitsIn, FrameIn
    <3>5. s = [con |-> server_id, number |-> C!Con!FrameOf(writer, n).number]
      BY <2>2, <3>4 DEF Text
    <3> QED
      BY <2>2, <3>4, <3>5 DEF C!Waiting
  <2> QED
    BY <1>2, <2>1, <2>2 DEF Kept
<1>3. C!OkIsKept
  BY <1>2 DEF C!OkIsKept, ConInv, KeptOK, TaskOK
<1> QED
  BY <1>1, <1>3

\* Whoever pushes and whatever is cancelled, closed, late or lost, one write is on
\* its way at a time; each text whose write was answered Ok is printed or waits to
\* be; and the writer prints none twice or out of turn while it says that all is well.
THEOREM TextsOfConsole == MCSpec => []TextsKept
<1>1. MCInit => ConInv /\ WriterOK
  BY ConsoleFirst, WriterFirst DEF MCInit
<1>2. ConInv /\ WriterOK /\ [MCNext]_<<part, vars, conVars, writerVars>> => (ConInv /\ WriterOK)'
  <2> SUFFICES ASSUME ConInv, WriterOK, [MCNext]_<<part, vars, conVars, writerVars>> PROVE (ConInv /\ WriterOK)'
    OBVIOUS
  <2>1. CASE ConsoleNext
    <3>1. ConInv'
      BY <2>1, ConsoleStays DEF ConsoleNext
    <3>2. WriterOK'
      BY <2>1 DEF ConsoleNext, writerVars, WriterOK, NoneWait, MatchIn, WaitsIn, FrameIn, PlaceIn
    <3> QED
      BY <3>1, <3>2
  <2>2. CASE WriterNext
    <3>1. WriterOK'
      BY <2>2, WriterStays DEF WriterNext
    <3>2. UNCHANGED conVars
      BY <2>2 DEF WriterNext
    <3> QED
      BY <3>1, <3>2, ConsoleSame
  <2>3. CASE EngineNext \/ UNCHANGED <<part, vars, conVars, writerVars>>
    <3>1. UNCHANGED conVars /\ UNCHANGED writerVars
      BY <2>3 DEF EngineNext
    <3>2. WriterOK'
      BY <3>1 DEF writerVars, WriterOK, NoneWait, MatchIn, WaitsIn, FrameIn, PlaceIn
    <3> QED
      BY <3>1, <3>2, ConsoleSame
  <2> QED
    BY <2>1, <2>2, <2>3 DEF MCNext
<1>3. ConInv /\ WriterOK => TextsKept
  BY ConsoleMatches, WriterMatches DEF TextsKept
<1> QED
  BY <1>1, <1>2, <1>3, PTL DEF MCSpec

\* Whatever numbers come to the writer, late, again or ahead, and whatever it gives
\* up: the texts it prints go on from the last one, and none goes back.
THEOREM TextsOrdered == MCSpec => TextsInOrder
<1> DEFINE Goes == \A i \in DOMAIN w_writer'.printed :
                     (w_writer'.printed[i] - (IF i = 1 THEN w_last ELSE w_writer'.printed[i - 1])) % NumMod < NumMod \div 2
<1>1. MCInit => WriterOK /\ OrderOK
  BY WriterFirst, OrderFirst DEF MCInit
<1>2. WriterOK /\ OrderOK /\ [MCNext]_<<part, vars, conVars, writerVars>> =>
        (WriterOK /\ OrderOK)' /\ [Goes]_(W!vars)
  <2> SUFFICES ASSUME WriterOK, OrderOK, [MCNext]_<<part, vars, conVars, writerVars>>
               PROVE  (WriterOK /\ OrderOK)' /\ [Goes]_(W!vars)
    OBVIOUS
  <2>1. CASE WriterNext
    <3>1. W!Next
      BY <2>1 DEF WriterNext
    <3>2. WriterOK' /\ OrderOK' /\ Rises(w_last, w_writer'.printed)
      BY <3>1, WriterStays, OrderStays
    <3> QED
      BY <3>2 DEF Rises, Half
  <2>2. CASE UNCHANGED writerVars
    <3>1. WriterOK' /\ OrderOK'
      BY <2>2 DEF writerVars, WriterOK, OrderOK, Fits, Stands, Idle, NoneWait, MatchIn, WaitsIn, FrameIn, PlaceIn
    <3>2. UNCHANGED W!vars
      BY <2>2 DEF writerVars, W!vars
    <3> QED
      BY <3>1, <3>2
  <2> QED
    BY <2>1, <2>2 DEF MCNext, EngineNext, ConsoleNext
<1>3. TextsInOrder <=> [][Goes]_(W!vars)
  BY Zenon DEF TextsInOrder, W!NeverBack
<1> QED
  BY <1>1, <1>2, <1>3, PTL DEF MCSpec
=============================================================================
