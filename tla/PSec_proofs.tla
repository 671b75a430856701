---------------------------- MODULE PSec_proofs ----------------------------
(***************************************************************************)
(* Theorems about the parts of a secure connection: the keys of an         *)
(* endpoint, for any number of indexes and however late and often packets  *)
(* come; the window of packets; the handshake.                             *)
(***************************************************************************)
EXTENDS MCPSec, TaskCount_proofs

-----------------------------------------------------------------------------
\* The keys.  Types of the key sets, and of what the control packets say.
Secrets  == {NoSecret} \cup (End \X Nat)
Messages == [type : {"Alert", "Ready", "Ack", "Stop"}, index : Index, serial : 0..3, gx : Secrets]
Keys     == [key : SUBSET Secrets, serial : 0..3, life : Int,
             state : {"Dead", "Red", "Yellow", "Green"}, active : BOOLEAN]
Recs     == [base : Keys, next : Keys, type : {"None", "Alert", "Ready", "Ack"},
             serial : 0..3, draws : Nat, place : Int]
Entries  == [index : Index, serial : 0..3]
KeySets  == [rec : [Index -> Recs], list : Seq(Entries)]

Active(r) == r.base.active \/ r.next.active

\* active_list has one entry for each key in use, which knows its place there:
\* so the entry that takes the place of one that goes is found by its key.
Listed(s) ==
  /\ \A p \in 1..Len(s.list) : /\ Active(s.rec[s.list[p].index])
                               /\ s.rec[s.list[p].index].place = p
                               /\ s.list[p].serial = InUse(s.rec[s.list[p].index]).serial
  /\ \A i \in Index : Active(s.rec[i]) => /\ s.rec[i].place \in 1..Len(s.list)
                                          /\ s.list[s.rec[i].place].index = i

\* What a session has come to, and which keys it has then: one is in use, base
\* or next, which is not Red; and the next one is fresh when it has been made.
OneInUse(r) == /\ Active(r) /\ ~ (r.base.active /\ r.next.active)
               /\ r.next.active => r.next.serial = NextSerial(r.base.serial)

StepKeys(r) ==
  /\ InUse(r).state \in {"Green", "Yellow"}
  /\ r.type = "None" => /\ InUse(r).state = "Green"
                        /\ r.next.state = "Green" => r.next.active
  /\ r.type = "Ready" => r.next.state = "Green" /\ r.next.serial = NextSerial(r.base.serial)
  /\ r.type = "Ack" => r.next.state = "Green" /\ r.next.active

GoodRec(r) == OneInUse(r) /\ StepKeys(r)

GoodSet(s) == s \in KeySets /\ Listed(s) /\ \A i \in Index : GoodRec(s.rec[i])

\* The inductive invariant.
KeysInv == /\ DOMAIN ends = End
           /\ \A e \in End : GoodSet(ends[e])
           /\ \A p \in net : p.msg \in Messages

-----------------------------------------------------------------------------
\* What changes at one index only, and leaves its key in use, keeps the list.
LEMMA SameList ==
  ASSUME NEW s \in KeySets, Listed(s), NEW u \in KeySets, NEW i \in Index,
         u.list = s.list, \A j \in Index : j # i => u.rec[j] = s.rec[j],
         Active(s.rec[i]), Active(u.rec[i]), u.rec[i].place = s.rec[i].place,
         InUse(u.rec[i]).serial = InUse(s.rec[i]).serial
  PROVE  Listed(u)
<1>1. \A p \in 1..Len(s.list) : s.list[p] \in Entries
  BY ElementOfSeq DEF KeySets
<1>2. \A p \in 1..Len(u.list) : /\ Active(u.rec[u.list[p].index])
                                /\ u.rec[u.list[p].index].place = p
                                /\ u.list[p].serial = InUse(u.rec[u.list[p].index]).serial
  <2> SUFFICES ASSUME NEW p \in 1..Len(u.list)
               PROVE  /\ Active(u.rec[u.list[p].index])
                      /\ u.rec[u.list[p].index].place = p
                      /\ u.list[p].serial = InUse(u.rec[u.list[p].index]).serial
    OBVIOUS
  <2>1. s.list[p].index \in Index
    BY <1>1 DEF Entries
  <2>2. CASE s.list[p].index = i
    BY <2>2 DEF Listed
  <2>3. CASE s.list[p].index # i
    BY <2>1, <2>3 DEF Listed
  <2> QED
    BY <2>2, <2>3
<1>3. ASSUME NEW j \in Index, Active(u.rec[j])
      PROVE  u.rec[j].place \in 1..Len(u.list) /\ u.list[u.rec[j].place].index = j
  <2>1. CASE j = i
    BY <2>1 DEF Listed
  <2>2. CASE j # i
    BY <1>3, <2>2 DEF Listed
  <2> QED
    BY <2>1, <2>2
<1> QED
  BY <1>2, <1>3 DEF Listed

\* A record whose keys are both out of use, or that is at another place.
LEMMA InactiveRec ==
  ASSUME NEW r \in Recs
  PROVE  LET q == [r EXCEPT !.base.active = FALSE, !.next.active = FALSE] IN
         /\ q \in Recs /\ ~ Active(q)
         /\ q.base = [r.base EXCEPT !.active = FALSE]
         /\ q.next = [r.next EXCEPT !.active = FALSE]
         /\ q.type = r.type
<1> DEFINE b == [r.base EXCEPT !.active = FALSE]
           n == [r.next EXCEPT !.active = FALSE]
           q == [r EXCEPT !.base.active = FALSE, !.next.active = FALSE]
<1>1. r.base \in Keys /\ r.next \in Keys
  BY DEF Recs
<1>2. b \in Keys /\ n \in Keys /\ ~ b.active /\ ~ n.active
  BY <1>1 DEF Keys
<1>3. q = [r EXCEPT !.base = b, !.next = n]
  BY DEF Recs
<1> HIDE DEF b, n, q
<1>4. q \in Recs /\ q.base = b /\ q.next = n /\ q.type = r.type
  BY <1>2, <1>3 DEF Recs
<1> QED
  BY <1>2, <1>4 DEF Active, b, n, q

LEMMA PlacedRec ==
  ASSUME NEW r \in Recs, NEW p \in Int
  PROVE  LET q == [r EXCEPT !.place = p] IN
         /\ q \in Recs /\ q.place = p /\ q.base = r.base /\ q.next = r.next
         /\ Active(q) = Active(r) /\ InUse(q) = InUse(r)
BY DEF Recs, Active, InUse

\* When the key in use at i goes, the last entry of the list takes its place.
LEMMA DeactivateListed ==
  ASSUME NEW s \in KeySets, Listed(s), NEW i \in Index, Active(s.rec[i])
  PROVE  LET u == deactivate(s, i) IN
         /\ u \in KeySets /\ Listed(u)
         /\ u.rec[i] = [s.rec[i] EXCEPT !.base.active = FALSE, !.next.active = FALSE]
         /\ \A j \in Index : j # i => u.rec[j] = [s.rec[j] EXCEPT !.place = u.rec[j].place]
<1> DEFINE p    == s.rec[i].place
           n    == Len(s.list)
           last == Last(s.list)
           off  == [s.rec EXCEPT ![i].base.active = FALSE, ![i].next.active = FALSE]
           u    == deactivate(s, i)
<1>1. p \in 1..n /\ s.list[p].index = i /\ n \in Nat /\ s.list \in Seq(Entries)
  BY DEF Listed, KeySets
<1>2. \A q \in 1..n : s.list[q] \in Entries
  BY <1>1, ElementOfSeq
<1>3. last = s.list[n] /\ last \in Entries /\ last.index \in Index
  BY <1>1, <1>2 DEF Last, Entries
<1>4. /\ Front(s.list) \in Seq(Entries) /\ Len(Front(s.list)) = n - 1
      /\ \A q \in 1..(n - 1) : Front(s.list)[q] = s.list[q]
  BY <1>1, SubSeqProperties DEF Front
<1>5. /\ s.rec \in [Index -> Recs] /\ off \in [Index -> Recs]
      /\ off[i] = [s.rec[i] EXCEPT !.base.active = FALSE, !.next.active = FALSE]
      /\ \A j \in Index : j # i => off[j] = s.rec[j]
  <2>1. s.rec \in [Index -> Recs] /\ s.rec[i] \in Recs
    BY DEF KeySets
  <2>2. /\ off[i] = [s.rec[i] EXCEPT !.base.active = FALSE, !.next.active = FALSE]
        /\ \A j \in Index : j # i => off[j] = s.rec[j]
        /\ DOMAIN off = Index
    BY <2>1
  <2>3. off[i] \in Recs
    BY <2>1, <2>2, InactiveRec
  <2> QED
    BY <2>1, <2>2, <2>3
<1>6. ~ Active(off[i])
  <2>1. s.rec[i] \in Recs
    BY DEF KeySets
  <2> QED
    BY <1>5, <2>1, InactiveRec
<1> HIDE DEF off, last
<1>7. ASSUME NEW q \in 1..n, q # p
      PROVE  s.list[q].index # i /\ s.list[q].index \in Index
    BY <1>1, <1>2, <1>7 DEF Listed, Entries
<1>8. CASE p = n
  <2>1. u = [rec |-> off, list |-> Front(s.list)]
    BY <1>1, <1>8 DEF deactivate, off, last
  <2>2. u \in KeySets
    BY <1>4, <1>5, <2>1 DEF KeySets
  <2>3. \A j \in Index : j # i => u.rec[j] = [s.rec[j] EXCEPT !.place = u.rec[j].place]
    BY <1>5, <2>1 DEF Recs
  <2>4. Listed(u)
    <3>1. ASSUME NEW q \in 1..Len(u.list)
          PROVE  /\ Active(u.rec[u.list[q].index])
                 /\ u.rec[u.list[q].index].place = q
                 /\ u.list[q].serial = InUse(u.rec[u.list[q].index]).serial
      <4>1. q \in 1..n /\ q # p /\ u.list[q] = s.list[q]
        BY <1>1, <1>4, <1>8, <2>1
      <4> QED
        BY <1>5, <1>7, <2>1, <4>1 DEF Listed
    <3>2. ASSUME NEW j \in Index, Active(u.rec[j])
          PROVE  u.rec[j].place \in 1..Len(u.list) /\ u.list[u.rec[j].place].index = j
      <4>1. j # i /\ u.rec[j] = s.rec[j]
        BY <1>5, <1>6, <2>1, <3>2
      <4>2. s.rec[j].place \in 1..n /\ s.list[s.rec[j].place].index = j
        BY <3>2, <4>1 DEF Listed
      <4>3. s.rec[j].place # n
        BY <1>1, <1>8, <4>1, <4>2
      <4>4. s.rec[j].place \in 1..(n - 1)
        BY <1>1, <4>2, <4>3
      <4>5. Front(s.list)[s.rec[j].place] = s.list[s.rec[j].place]
        BY <1>4, <4>4
      <4> QED
        BY <1>4, <2>1, <4>1, <4>2, <4>4, <4>5
    <3> QED
      BY <3>1, <3>2 DEF Listed
  <2> QED
    BY <1>5, <2>1, <2>2, <2>3, <2>4
<1>9. CASE p # n
  <2> DEFINE l == last.index
  <2>0. p < n /\ p \in 1..(n - 1)
    BY <1>1, <1>9
  <2>1. u = [rec |-> [off EXCEPT ![l].place = p], list |-> [Front(s.list) EXCEPT ![p] = last]]
    BY <2>0 DEF deactivate, off, last
  <2>2. l # i /\ l \in Index /\ s.rec[l].place = n /\ Active(s.rec[l])
        /\ last.serial = InUse(s.rec[l]).serial
    BY <1>1, <1>3, <1>7, <1>9 DEF Listed
  <2>3. /\ u.rec \in [Index -> Recs]
        /\ u.rec[l] = [s.rec[l] EXCEPT !.place = p]
        /\ \A j \in Index : j # l => u.rec[j] = off[j]
    <3>1. s.rec[l] \in Recs /\ p \in Int /\ off[l] = s.rec[l]
      BY <1>1, <1>5, <2>2
    <3>2. /\ u.rec[l] = [s.rec[l] EXCEPT !.place = p]
          /\ \A j \in Index : j # l => u.rec[j] = off[j]
          /\ u.rec = [off EXCEPT ![l] = [s.rec[l] EXCEPT !.place = p]]
      BY <1>5, <2>1, <2>2, <3>1
    <3>3. [s.rec[l] EXCEPT !.place = p] \in Recs
      BY <3>1, PlacedRec
    <3> QED
      BY <1>5, <3>2, <3>3
  <2>4. /\ u.list \in Seq(Entries) /\ Len(u.list) = n - 1 /\ u.list[p] = last
        /\ \A q \in 1..(n - 1) : q # p => u.list[q] = s.list[q]
    BY <1>3, <1>4, <2>0, <2>1, ExceptSeq
  <2>5. u \in KeySets
    BY <2>1, <2>3, <2>4 DEF KeySets
  <2>6. \A j \in Index : j # i => u.rec[j] = [s.rec[j] EXCEPT !.place = u.rec[j].place]
    <3>1. ASSUME NEW j \in Index, j # i, j # l
          PROVE  u.rec[j] = [s.rec[j] EXCEPT !.place = u.rec[j].place]
      BY <1>5, <2>3, <3>1 DEF Recs
    <3>2. s.rec[l] \in Recs
      BY <1>5, <2>2
    <3> QED
      BY <2>3, <3>1, <3>2 DEF Recs
  <2>7. Active(u.rec[l]) /\ u.rec[l].place = p /\ InUse(u.rec[l]).serial = InUse(s.rec[l]).serial
    <3>1. s.rec[l] \in Recs /\ p \in Int
      BY <1>1, <1>5, <2>2
    <3> QED
      BY <2>2, <2>3, <3>1, PlacedRec
  <2>8. Listed(u)
    <3>1. ASSUME NEW q \in 1..Len(u.list)
          PROVE  /\ Active(u.rec[u.list[q].index])
                 /\ u.rec[u.list[q].index].place = q
                 /\ u.list[q].serial = InUse(u.rec[u.list[q].index]).serial
      <4>1. CASE q = p
        BY <2>2, <2>4, <2>7, <4>1
      <4>2. CASE q # p
        <5>1. q \in 1..n /\ q # n /\ u.list[q] = s.list[q]
          BY <1>1, <2>4, <4>2
        <5>2. s.list[q].index # l
          BY <1>1, <2>2, <5>1 DEF Listed
        <5>3. u.rec[s.list[q].index] = s.rec[s.list[q].index]
          BY <1>5, <1>7, <2>3, <4>2, <5>1, <5>2
        <5> QED
          BY <5>1, <5>3 DEF Listed
      <4> QED
        BY <4>1, <4>2
    <3>2. ASSUME NEW j \in Index, Active(u.rec[j])
          PROVE  u.rec[j].place \in 1..Len(u.list) /\ u.list[u.rec[j].place].index = j
      <4>1. CASE j = l
        BY <2>0, <2>4, <2>7, <4>1
      <4>2. CASE j # l
        <5>1. j # i /\ u.rec[j] = s.rec[j]
          BY <1>5, <1>6, <2>2, <2>3, <3>2, <4>2
        <5>2. s.rec[j].place \in 1..n /\ s.list[s.rec[j].place].index = j
          BY <3>2, <5>1 DEF Listed
        <5>3. s.rec[j].place # n /\ s.rec[j].place # p
          BY <1>1, <1>3, <4>2, <5>1, <5>2
        <5>4. s.rec[j].place \in 1..(n - 1)
          BY <1>1, <5>2, <5>3
        <5>5. u.list[s.rec[j].place] = s.list[s.rec[j].place]
          BY <2>4, <5>3, <5>4
        <5> QED
          BY <2>4, <5>1, <5>2, <5>4, <5>5
      <4> QED
        BY <4>1, <4>2
    <3> QED
      BY <3>1, <3>2 DEF Listed
  <2>9. u.rec[i] = [s.rec[i] EXCEPT !.base.active = FALSE, !.next.active = FALSE]
    BY <1>5, <2>2, <2>3
  <2> QED
    BY <2>5, <2>6, <2>8, <2>9
<1> QED
  BY <1>8, <1>9

\* The next key has gone into use, and the base key out of it.
Activated(q, r) ==
  /\ ~ q.base.active /\ q.base.serial = r.base.serial /\ q.type = r.type
  /\ q.next.active /\ q.next.serial = r.next.serial /\ q.next.state = r.next.state

\* A key goes into use at an index that has none: its entry is the last one.
LEMMA ActivateListed ==
  ASSUME NEW s \in KeySets, Listed(s), NEW i \in Index, ~ Active(s.rec[i])
  PROVE  LET u == activate_next(s, i) IN
         /\ u \in KeySets /\ Listed(u)
         /\ Activated(u.rec[i], s.rec[i])
         /\ \A j \in Index : j # i => u.rec[j] = s.rec[j]
<1> DEFINE n == Len(s.list)
           r == s.rec[i]
           k == [r.next EXCEPT !.active = TRUE]
           q == [r EXCEPT !.next = k, !.place = n + 1]
           e == [index |-> i, serial |-> r.next.serial]
           u == activate_next(s, i)
<1>1. n \in Nat /\ s.list \in Seq(Entries) /\ s.rec \in [Index -> Recs] /\ r \in Recs
  BY DEF KeySets
<1>2. /\ k \in Keys /\ k.active /\ k.serial = r.next.serial /\ r.next.serial \in 0..3
      /\ k.state = r.next.state
  BY <1>1 DEF Recs, Keys
<1>3. u = [rec |-> [s.rec EXCEPT ![i] = q], list |-> Append(s.list, e)]
  BY <1>1 DEF activate_next, Recs
<1> HIDE DEF k
<1>4. q \in Recs /\ q.next = k /\ q.base = r.base /\ q.place = n + 1 /\ q.type = r.type
  <2>1. r \in Recs /\ k \in Keys /\ n + 1 \in Int
    BY <1>1, <1>2
  <2> HIDE DEF n, r
  <2> QED
    BY <2>1 DEF Recs
<1>5. e \in Entries
  BY <1>2 DEF Entries
<1>6. /\ u.list \in Seq(Entries) /\ Len(u.list) = n + 1 /\ u.list[n + 1] = e
      /\ \A p \in 1..n : u.list[p] = s.list[p]
  BY <1>1, <1>3, <1>5, AppendProperties
<1>7. u.rec \in [Index -> Recs] /\ u.rec[i] = q /\ \A j \in Index : j # i => u.rec[j] = s.rec[j]
  BY <1>1, <1>3, <1>4
<1>8. u \in KeySets
  BY <1>3, <1>6, <1>7 DEF KeySets
<1>9. Active(u.rec[i]) /\ u.rec[i].place = n + 1 /\ InUse(u.rec[i]).serial = r.next.serial
  BY <1>2, <1>4, <1>7 DEF Active, InUse
<1>10. \A p \in 1..n : s.list[p].index \in Index /\ s.list[p].index # i
  <2>1. \A p \in 1..n : s.list[p] \in Entries
    BY <1>1, ElementOfSeq
  <2> QED
    BY <2>1 DEF Entries, Listed
<1>11. ASSUME NEW p \in 1..Len(u.list)
       PROVE  /\ Active(u.rec[u.list[p].index])
              /\ u.rec[u.list[p].index].place = p
              /\ u.list[p].serial = InUse(u.rec[u.list[p].index]).serial
  <2>1. CASE p = n + 1
    BY <1>6, <1>9, <2>1
  <2>2. CASE p # n + 1
    <3>1. p \in 1..n
      BY <1>1, <1>6, <2>2
    <3> QED
      BY <1>6, <1>7, <1>10, <3>1 DEF Listed
  <2> QED
    BY <2>1, <2>2
<1>12. ASSUME NEW j \in Index, Active(u.rec[j])
       PROVE  u.rec[j].place \in 1..Len(u.list) /\ u.list[u.rec[j].place].index = j
  <2>1. CASE j = i
    BY <1>1, <1>6, <1>9, <2>1
  <2>2. CASE j # i
    <3>1. s.rec[j].place \in 1..n /\ s.list[s.rec[j].place].index = j
      BY <1>7, <1>12, <2>2 DEF Listed
    <3> QED
      BY <1>1, <1>6, <1>7, <2>2, <3>1
  <2> QED
    BY <2>1, <2>2
<1>13. Listed(u)
  BY <1>11, <1>12 DEF Listed
<1>14. Activated(u.rec[i], r)
  <2>1. ~ r.base.active
    BY DEF Active
  <2> QED
    BY <1>2, <1>4, <1>7, <2>1 DEF Activated
<1> QED
  BY <1>7, <1>8, <1>13, <1>14

\* activate_key : the next key is in use, and the base key is not.
LEMMA ActivateKey ==
  ASSUME NEW s \in KeySets, Listed(s), NEW i \in Index, OneInUse(s.rec[i])
  PROVE  LET u == activate_key(s, i) IN
         /\ u \in KeySets /\ Listed(u)
         /\ Activated(u.rec[i], s.rec[i])
         /\ \A j \in Index : j # i => u.rec[j] = [s.rec[j] EXCEPT !.place = u.rec[j].place]
<1> DEFINE u == activate_key(s, i)
           r == s.rec[i]
<1>0. s.rec \in [Index -> Recs] /\ r \in Recs
  BY DEF KeySets
<1>1. CASE r.next.active
  <2>1. u = s
    BY <1>1 DEF activate_key
  <2>2. ~ r.base.active
    BY <1>1 DEF OneInUse
  <2>3. Activated(r, r)
    BY <1>1, <2>2 DEF Activated
  <2>4. \A j \in Index : j # i => s.rec[j] = [s.rec[j] EXCEPT !.place = s.rec[j].place]
    BY <1>0 DEF Recs
  <2> QED
    BY <2>1, <2>3, <2>4
<1>2. CASE ~ r.next.active
  <2> DEFINE t == deactivate(s, i)
  <2>1. r.base.active /\ Active(r)
    BY <1>2 DEF OneInUse, Active
  <2>2. u = activate_next(t, i)
    BY <1>2, <2>1 DEF activate_key
  <2>3. /\ t \in KeySets /\ Listed(t)
        /\ t.rec[i] = [r EXCEPT !.base.active = FALSE, !.next.active = FALSE]
        /\ \A j \in Index : j # i => t.rec[j] = [s.rec[j] EXCEPT !.place = t.rec[j].place]
    BY <2>1, DeactivateListed
  <2>4. ~ Active(t.rec[i])
    BY <1>0, <2>3, InactiveRec
  <2>5. Activated(u.rec[i], t.rec[i]) => Activated(u.rec[i], r)
    <3>1. /\ t.rec[i].base = [r.base EXCEPT !.active = FALSE]
          /\ t.rec[i].next = [r.next EXCEPT !.active = FALSE]
          /\ t.rec[i].type = r.type
      BY <1>0, <2>3, InactiveRec
    <3>2. r.base \in Keys /\ r.next \in Keys
      BY <1>0 DEF Recs
    <3>3. t.rec[i].base.serial = r.base.serial /\ t.rec[i].next.serial = r.next.serial
          /\ t.rec[i].next.state = r.next.state
      BY <3>1, <3>2 DEF Keys
    <3> HIDE DEF t, u
    <3> QED
      BY <3>1, <3>3 DEF Activated
  <2> HIDE DEF t, u
  <2>6. /\ u \in KeySets /\ Listed(u) /\ Activated(u.rec[i], t.rec[i])
        /\ \A j \in Index : j # i => u.rec[j] = t.rec[j]
    BY <2>2, <2>3, <2>4, ActivateListed
  <2> QED
    BY <2>3, <2>5, <2>6 DEF u
<1> QED
  BY <1>1, <1>2

-----------------------------------------------------------------------------
\* The steps of the handlers: what each changes at its index, and nowhere else.
Changed(s, u, i) ==
  /\ u \in KeySets /\ u.list = s.list
  /\ u.rec[i].place = s.rec[i].place
  /\ \A j \in Index : j # i => u.rec[j] = s.rec[j]

LEMMA ChangedRec ==
  ASSUME NEW s \in KeySets, NEW i \in Index, NEW r \in Recs, r.place = s.rec[i].place
  PROVE  LET u == [s EXCEPT !.rec[i] = r] IN Changed(s, u, i) /\ u.rec[i] = r
<1> DEFINE u == [s EXCEPT !.rec[i] = r]
           f == [s.rec EXCEPT ![i] = r]
<1>1. s.rec \in [Index -> Recs] /\ s.list \in Seq(Entries) /\ s = [rec |-> s.rec, list |-> s.list]
  BY DEF KeySets
<1>2. f \in [Index -> Recs] /\ f[i] = r /\ \A j \in Index : j # i => f[j] = s.rec[j]
  BY <1>1
<1>3. u = [rec |-> f, list |-> s.list]
  BY <1>1
<1> HIDE DEF f, u
<1>4. u \in KeySets /\ u.list = s.list /\ u.rec = f
  BY <1>1, <1>2, <1>3 DEF KeySets
<1> QED
  BY <1>2, <1>4 DEF Changed, u

LEMMA DrawRec ==
  ASSUME NEW s \in KeySets, NEW i \in Index, NEW n \in 0..3
  PROVE  LET u == draw(s, i, n) IN
         /\ Changed(s, u, i) /\ u.rec[i].type = "Alert"
         /\ u.rec[i].base = s.rec[i].base /\ u.rec[i].next = s.rec[i].next
<1> DEFINE r == s.rec[i]
           q == [r EXCEPT !.type = "Alert", !.serial = n, !.draws = @ + 1]
<1>1. s.rec \in [Index -> Recs] /\ r \in Recs
  BY DEF KeySets
<1>2. q \in Recs /\ q.place = r.place /\ q.type = "Alert" /\ q.base = r.base /\ q.next = r.next
  <2> DEFINE m == r.draws + 1
             z == [[[r EXCEPT !.type = "Alert"] EXCEPT !.serial = n] EXCEPT !.draws = m]
  <2>1. m \in Nat
    BY <1>1 DEF Recs
  <2>2. q = z
    OBVIOUS
  <2> HIDE DEF r, m, q
  <2>3. [r EXCEPT !.type = "Alert"] \in Recs
    BY <1>1 DEF Recs
  <2>4. [[r EXCEPT !.type = "Alert"] EXCEPT !.serial = n] \in Recs
    BY <2>3 DEF Recs
  <2> QED
    BY <1>1, <2>1, <2>2, <2>3, <2>4 DEF Recs
<1>3. draw(s, i, n) = [s EXCEPT !.rec[i] = q]
  BY <1>1 DEF draw, KeySets, Recs
<1> HIDE DEF q
<1> QED
  BY <1>2, <1>3, ChangedRec

LEMMA TypeRec ==
  ASSUME NEW s \in KeySets, NEW i \in Index, NEW type \in {"None", "Alert", "Ready", "Ack"}
  PROVE  LET u == setType(s, i, type) IN
         /\ Changed(s, u, i) /\ u.rec[i].type = type
         /\ u.rec[i].base = s.rec[i].base /\ u.rec[i].next = s.rec[i].next
<1> DEFINE r == s.rec[i]
           q == [r EXCEPT !.type = type]
<1>1. s.rec \in [Index -> Recs] /\ r \in Recs
  BY DEF KeySets
<1>2. q \in Recs /\ q.place = r.place /\ q.type = type /\ q.base = r.base /\ q.next = r.next
  <2> HIDE DEF r
  <2> QED
    BY <1>1 DEF Recs
<1>3. setType(s, i, type) = [s EXCEPT !.rec[i] = q]
  BY <1>1 DEF setType, KeySets, Recs
<1> HIDE DEF q
<1> QED
  BY <1>2, <1>3, ChangedRec

LEMMA FlipRec ==
  ASSUME NEW s \in KeySets, NEW i \in Index
  PROVE  LET u == flip(s, i) IN
         /\ Changed(s, u, i) /\ u.rec[i].type = s.rec[i].type
         /\ u.rec[i].base = s.rec[i].next /\ u.rec[i].next = NoKey
<1> DEFINE r == s.rec[i]
           q == [r EXCEPT !.base = r.next, !.next = NoKey]
<1>1. s.rec \in [Index -> Recs] /\ r \in Recs /\ NoKey \in Keys
  BY DEF KeySets, NoKey, Keys
<1>2. q \in Recs /\ q.place = r.place /\ q.type = r.type /\ q.base = r.next /\ q.next = NoKey
  <2> HIDE DEF r
  <2> QED
    BY <1>1 DEF Recs
<1>3. flip(s, i) = [s EXCEPT !.rec[i] = q]
  BY <1>1 DEF flip, KeySets, Recs
<1> HIDE DEF q
<1> QED
  BY <1>2, <1>3, ChangedRec

LEMMA MakeRec ==
  ASSUME NEW s \in KeySets, NEW e \in End, NEW i \in Index, NEW gy \in Secrets
  PROVE  LET u == make_key(s, e, i, gy) IN
         /\ Changed(s, u, i) /\ u.rec[i].type = s.rec[i].type
         /\ u.rec[i].base = s.rec[i].base
         /\ u.rec[i].next.active = s.rec[i].next.active
         /\ u.rec[i].next.serial = NextSerial(s.rec[i].base.serial)
         /\ u.rec[i].next.state = "Green"
<1> DEFINE r == s.rec[i]
           k == [key |-> {Secret(s, e, i), gy}, serial |-> NextSerial(r.base.serial),
                 life |-> 3, state |-> "Green", active |-> r.next.active]
           q == [r EXCEPT !.next = k]
<1>1. s.rec \in [Index -> Recs] /\ r \in Recs /\ r.next \in Keys /\ r.base \in Keys /\ r.draws \in Nat
  BY DEF KeySets, Recs
<1>2. {Secret(s, e, i), gy} \in SUBSET Secrets
  BY <1>1 DEF Secret, Secrets
<1>3. NextSerial(r.base.serial) \in 0..3
  <2>1. r.base.serial \in 0..3
    BY <1>1 DEF Keys
  <2> QED
    BY <2>1 DEF NextSerial
<1>4. /\ k \in Keys /\ k.active = r.next.active /\ k.serial = NextSerial(r.base.serial)
      /\ k.state = "Green"
  <2> HIDE DEF r
  <2> QED
    BY <1>1, <1>2, <1>3 DEF Keys
<1>5. make_key(s, e, i, gy) = [s EXCEPT !.rec[i] = q]
  BY <1>1 DEF make_key, KeySets, Recs
<1> HIDE DEF k
<1>6. q \in Recs /\ q.place = r.place /\ q.type = r.type /\ q.base = r.base /\ q.next = k
  <2> HIDE DEF r
  <2> QED
    BY <1>1, <1>4 DEF Recs
<1> HIDE DEF q
<1> QED
  BY <1>4, <1>5, <1>6, ChangedRec

\* Time takes life from a key, and its state may follow.
LEMMA OlderKey ==
  ASSUME NEW k \in Keys
  PROVE  /\ Older(k) \in Keys /\ Older(k).active = k.active /\ Older(k).serial = k.serial
         /\ k.state = "Green" => Older(k).state \in {"Green", "Yellow"}
         /\ Older(k).state = "Green" <=> k.state = "Green" /\ ~ TurnsYellow(k)
<1>1. CASE k.state = "Green" /\ k.life < 3
  BY <1>1 DEF Older, Keys, TurnsYellow
<1>2. CASE k.state = "Yellow" /\ k.life < 2
  BY <1>2 DEF Older, Keys, TurnsYellow
<1>3. CASE k.state = "Red" /\ k.life < 1
  BY <1>3 DEF Older, Keys, TurnsYellow
<1>4. CASE ~ \/ k.state = "Green" /\ k.life < 3
             \/ k.state = "Yellow" /\ k.life < 2
             \/ k.state = "Red" /\ k.life < 1
  <2>1. Older(k) = k
    BY <1>4 DEF Older
  <2> QED
    BY <1>4, <2>1 DEF TurnsYellow
<1> QED
  BY <1>1, <1>2, <1>3, <1>4

\* A key that time has taken life from, or nothing.
Same(b, k) == b.state = k.state /\ b.active = k.active /\ b.serial = k.serial

LEMMA WornKey ==
  ASSUME NEW k \in Keys, NEW b \in Worn(k)
  PROVE  b \in Keys /\ Same(b, k)
BY DEF Worn, Keys, Same

LEMMA AgedRec ==
  ASSUME NEW s \in KeySets, NEW i \in Index, NEW u \in Aged(s, i)
  PROVE  /\ Changed(s, u, i) /\ u.rec[i].type = s.rec[i].type
         /\ Same(u.rec[i].base, s.rec[i].base) /\ Same(u.rec[i].next, s.rec[i].next)
<1>1. s.rec \in [Index -> Recs] /\ s.rec[i] \in Recs
  BY DEF KeySets
<1>2. s.rec[i].base \in Keys /\ s.rec[i].next \in Keys
  BY <1>1 DEF Recs
<1>3. PICK b \in Worn(s.rec[i].base), n \in Worn(s.rec[i].next) :
        u = [s EXCEPT !.rec[i].base = b, !.rec[i].next = n]
  BY DEF Aged
<1>4. b \in Keys /\ n \in Keys /\ Same(b, s.rec[i].base) /\ Same(n, s.rec[i].next)
  BY <1>2, WornKey
<1> DEFINE r == s.rec[i]
           q == [r EXCEPT !.base = b, !.next = n]
<1>5. q \in Recs /\ q.place = r.place /\ q.type = r.type /\ q.base = b /\ q.next = n
  <2> HIDE DEF r
  <2> QED
    BY <1>1, <1>4 DEF Recs, r
<1>6. u = [s EXCEPT !.rec[i] = q]
  BY <1>1, <1>3 DEF KeySets, Recs
<1> HIDE DEF q
<1> QED
  BY <1>4, <1>5, <1>6, ChangedRec

\* updateState of a key of the record
LEMMA OlderBase ==
  ASSUME NEW s \in KeySets, NEW i \in Index
  PROVE  LET u == [s EXCEPT !.rec[i].base = Older(@)] IN
         /\ Changed(s, u, i) /\ u.rec[i].type = s.rec[i].type
         /\ u.rec[i].base = Older(s.rec[i].base) /\ u.rec[i].next = s.rec[i].next
<1> DEFINE r == s.rec[i]
           k == Older(r.base)
           q == [r EXCEPT !.base = k]
<1>1. s.rec \in [Index -> Recs] /\ r \in Recs /\ r.base \in Keys
  BY DEF KeySets, Recs
<1>2. k \in Keys
  BY <1>1, OlderKey
<1>3. [s EXCEPT !.rec[i].base = Older(@)] = [s EXCEPT !.rec[i] = q]
  BY <1>1 DEF KeySets, Recs
<1> HIDE DEF k
<1>4. q \in Recs /\ q.place = r.place /\ q.type = r.type /\ q.base = k /\ q.next = r.next
  <2> HIDE DEF r
  <2> QED
    BY <1>1, <1>2 DEF Recs
<1> HIDE DEF q
<1> QED
  BY <1>3, <1>4, ChangedRec DEF k

LEMMA OlderBoth ==
  ASSUME NEW s \in KeySets, NEW i \in Index
  PROVE  LET u == [s EXCEPT !.rec[i].base = Older(@), !.rec[i].next = Older(@)] IN
         /\ Changed(s, u, i) /\ u.rec[i].type = s.rec[i].type
         /\ u.rec[i].base = Older(s.rec[i].base) /\ u.rec[i].next = Older(s.rec[i].next)
<1> DEFINE r == s.rec[i]
           k == Older(r.base)
           n == Older(r.next)
           q == [r EXCEPT !.base = k, !.next = n]
           u == [s EXCEPT !.rec[i].base = Older(@), !.rec[i].next = Older(@)]
<1>1. s.rec \in [Index -> Recs] /\ r \in Recs /\ r.base \in Keys /\ r.next \in Keys
  BY DEF KeySets, Recs
<1>2. k \in Keys /\ n \in Keys
  BY <1>1, OlderKey
<1>3. u = [s EXCEPT !.rec[i] = q]
  BY <1>1 DEF KeySets, Recs
<1> HIDE DEF k, n
<1>4. q \in Recs /\ q.place = r.place /\ q.type = r.type /\ q.base = k /\ q.next = n
  <2> HIDE DEF r
  <2> QED
    BY <1>1, <1>2 DEF Recs
<1> HIDE DEF q, u
<1>5. Changed(s, u, i) /\ u.rec[i] = q
  BY <1>3, <1>4, ChangedRec
<1> QED
  BY <1>4, <1>5 DEF k, n, u

\* A set is good again when its changed record is, with the key in use that it had.
LEMMA ChangedIsGood ==
  ASSUME NEW s, GoodSet(s), NEW i \in Index, NEW u, Changed(s, u, i), GoodRec(u.rec[i]),
         InUse(u.rec[i]).serial = InUse(s.rec[i]).serial
  PROVE  GoodSet(u)
<1>1. Listed(u)
  BY SameList DEF GoodSet, Changed, GoodRec, OneInUse
<1> QED
  BY <1>1 DEF GoodSet, Changed

\* ... or when it goes over to its next key.
LEMMA ActivatedIsGood ==
  ASSUME NEW s, GoodSet(s), NEW i \in Index, NEW u, Changed(s, u, i), OneInUse(u.rec[i]),
         InUse(u.rec[i]).serial = InUse(s.rec[i]).serial,
         u.rec[i].next.state = "Green", u.rec[i].type \in {"Ready", "Ack"},
         u.rec[i].next.serial = NextSerial(u.rec[i].base.serial)
  PROVE  GoodSet(activate_key(u, i)) /\ activate_key(u, i).rec[i].type = u.rec[i].type
<1> DEFINE v == activate_key(u, i)
<1>1. u \in KeySets /\ Listed(u)
  BY SameList DEF GoodSet, Changed, GoodRec, OneInUse
<1>2. /\ v \in KeySets /\ Listed(v) /\ Activated(v.rec[i], u.rec[i])
      /\ \A j \in Index : j # i => v.rec[j] = [u.rec[j] EXCEPT !.place = v.rec[j].place]
  BY <1>1, ActivateKey
<1> HIDE DEF v
<1>3. GoodRec(v.rec[i])
  BY <1>2 DEF Activated, GoodRec, OneInUse, StepKeys, Active, InUse
<1>4. ASSUME NEW j \in Index, j # i PROVE GoodRec(v.rec[j])
  <2>1. u.rec[j] \in Recs /\ v.rec[j].place \in Int /\ GoodRec(u.rec[j])
    BY <1>2, <1>4 DEF GoodSet, Changed, KeySets, Recs
  <2>2. v.rec[j] = [u.rec[j] EXCEPT !.place = v.rec[j].place]
    BY <1>2, <1>4
  <2>3. v.rec[j].base = u.rec[j].base /\ v.rec[j].next = u.rec[j].next /\ v.rec[j].type = u.rec[j].type
    BY <2>1, <2>2 DEF Recs
  <2> QED
    BY <2>1, <2>3 DEF GoodRec, OneInUse, StepKeys, Active, InUse
<1> QED
  BY <1>2, <1>3, <1>4 DEF GoodSet, Activated, v

\* An end always has a key to encrypt with: no control packet is held back, and
\* selectEncryptKey takes no key out of use.
LEMMA EncryptSends ==
  ASSUME NEW s, GoodSet(s), NEW e \in End, NEW m, NEW o \in Encrypt(e, s, m)
  PROVE  o.set = s /\ o.sent # {} /\ \A p \in o.sent : p.msg = m
<1>1. s.list # << >>
  <2>1. 1 \in Index /\ Active(s.rec[1])
    BY KeysAssumption DEF Index, GoodSet, GoodRec, OneInUse
  <2>2. s.rec[1].place \in 1..Len(s.list)
    BY <2>1 DEF GoodSet, Listed
  <2> QED
    BY <2>2
<1> DEFINE Out(k) == IF InUse(s.rec[k.index]).state \in {"Green", "Yellow"}
                     THEN [set |-> s, sent |-> {[to |-> Peer(e), msg |-> m, index |-> k.index,
                                                 serial |-> k.serial, key |-> InUse(s.rec[k.index]).key]}]
                     ELSE [set |-> deactivate(s, k.index), sent |-> {}]
<1>2. Encrypt(e, s, m) = {Out(k) : k \in ToSet(s.list)}
  BY <1>1 DEF Encrypt
<1>3. PICK k \in ToSet(s.list) : o = Out(k)
  <2> HIDE DEF Out
  <2> QED
    BY <1>2
<1>4. k.index \in Index
  <2>1. PICK q \in DOMAIN s.list : k = s.list[q]
    BY DEF ToSet
  <2>2. s.list \in Seq(Entries)
    BY DEF GoodSet, KeySets
  <2>3. k \in Entries
    BY <2>1, <2>2, ElementOfSeq
  <2> QED
    BY <2>3 DEF Entries
<1>5. InUse(s.rec[k.index]).state \in {"Green", "Yellow"}
  BY <1>4 DEF GoodSet, GoodRec, StepKeys
<1> DEFINE packet == [to |-> Peer(e), msg |-> m, index |-> k.index,
                      serial |-> k.serial, key |-> InUse(s.rec[k.index]).key]
<1>6. o = [set |-> s, sent |-> {packet}]
  BY <1>3, <1>5
<1>7. packet.msg = m
  OBVIOUS
<1> HIDE DEF packet
<1> QED
  BY <1>6, <1>7

\* The handler's changes leave a good set, and what it sends is a message.
LEMMA RespondKeeps ==
  ASSUME KeysInv, NEW e \in End, NEW s, GoodSet(s), NEW i \in Index, s.rec[i].type # "None",
         Respond(e, s, i)
  PROVE  KeysInv'
<1>1. makeResponse(s, e, i) \in Messages
  <2>1. s.rec[i] \in Recs
    BY DEF GoodSet, KeySets
  <2>2. s.rec[i].type \in {"Alert", "Ready", "Ack"} /\ s.rec[i].serial \in 0..3 /\ s.rec[i].draws \in Nat
    BY <2>1 DEF Recs
  <2>3. NoSecret \in Secrets /\ Secret(s, e, i) \in Secrets
    BY <2>2 DEF Secret, Secrets
  <2> QED
    BY <2>2, <2>3 DEF makeResponse, Message, Messages
<1>2. PICK o \in Encrypt(e, s, makeResponse(s, e, i)) :
        ends' = [ends EXCEPT ![e] = o.set] /\ net' = net \cup o.sent
  BY DEF Respond
<1>3. o.set = s /\ \A p \in o.sent : p.msg = makeResponse(s, e, i)
  BY EncryptSends
<1> QED
  BY <1>1, <1>2, <1>3 DEF KeysInv

LEMMA ReplyKeeps ==
  ASSUME KeysInv, NEW e \in End, NEW s, GoodSet(s), NEW i \in Index,
         NEW type \in {"Ack", "Stop"}, NEW n \in 0..3, Reply(e, s, type, i, n)
  PROVE  KeysInv'
<1> DEFINE m == Message(type, i, n, NoSecret)
<1>1. m \in Messages
  BY DEF Message, Messages, Secrets
<1>2. PICK o \in Encrypt(e, s, m) : ends' = [ends EXCEPT ![e] = o.set] /\ net' = net \cup o.sent
  BY DEF Reply
<1>3. o.set = s /\ \A p \in o.sent : p.msg = m
  BY EncryptSends
<1> HIDE DEF m
<1> QED
  BY <1>1, <1>2, <1>3 DEF KeysInv

LEMMA ChangeKeeps ==
  ASSUME KeysInv, NEW e \in End, NEW s, GoodSet(s), Change(e, s)
  PROVE  KeysInv'
BY DEF Change, KeysInv

-----------------------------------------------------------------------------
\* tick
LEMMA TickKeeps ==
  ASSUME KeysInv, NEW e \in End, NEW i \in Index,
         TickBase(e, i) \/ TickNext(e, i) \/ TickAge(e, i) \/ TickRepeat(e, i)
  PROVE  KeysInv'
<1>1. PICK s \in Aged(ends[e], i) :
        \/ /\ s.rec[i].type = "None" /\ TurnsYellow(s.rec[i].base)
           /\ Respond(e, draw([s EXCEPT !.rec[i].base = Older(@)], i, s.rec[i].base.serial), i)
        \/ LET t == [s EXCEPT !.rec[i].base = Older(@), !.rec[i].next = Older(@)]
               u == flip(IF t.rec[i].base.active THEN deactivate(t, i) ELSE t, i) IN
           /\ s.rec[i].type = "None" /\ ~ TurnsYellow(s.rec[i].base) /\ TurnsYellow(s.rec[i].next)
           /\ Respond(e, draw(u, i, u.rec[i].base.serial), i)
        \/ /\ s.rec[i].type = "None" /\ ~ TurnsYellow(s.rec[i].base) /\ ~ TurnsYellow(s.rec[i].next)
           /\ Change(e, [s EXCEPT !.rec[i].base = Older(@), !.rec[i].next = Older(@)])
        \/ s.rec[i].type # "None" /\ Change(e, s)
        \/ s.rec[i].type # "None" /\ Respond(e, s, i)
  BY Zenon DEF TickBase, TickNext, TickAge, TickRepeat
<1> DEFINE r == s.rec[i]
<1>2. GoodSet(ends[e]) /\ ends[e] \in KeySets
  BY DEF KeysInv, GoodSet
<1>3. /\ Changed(ends[e], s, i) /\ r.type = ends[e].rec[i].type
      /\ Same(r.base, ends[e].rec[i].base) /\ Same(r.next, ends[e].rec[i].next)
  BY <1>2, AgedRec
<1>4. s \in KeySets /\ r \in Recs /\ r.base \in Keys /\ r.next \in Keys
  BY <1>3 DEF Changed, KeySets, Recs
<1>5. GoodSet(s)
  <2>1. GoodRec(r) /\ InUse(r).serial = InUse(ends[e].rec[i]).serial
    BY <1>2, <1>3 DEF GoodSet, GoodRec, OneInUse, StepKeys, Active, InUse, Same
  <2> QED
    BY <1>2, <1>3, <2>1, ChangedIsGood
<1>6. GoodRec(r)
  BY <1>5 DEF GoodSet
<1> HIDE DEF r
<1>7. ASSUME r.type = "None", TurnsYellow(r.base),
             Respond(e, draw([s EXCEPT !.rec[i].base = Older(@)], i, r.base.serial), i)
      PROVE  KeysInv'
  <2> DEFINE t == [s EXCEPT !.rec[i].base = Older(@)]
             u == draw(t, i, r.base.serial)
  <2>1. /\ Changed(s, t, i) /\ t.rec[i].type = r.type
        /\ t.rec[i].base = Older(r.base) /\ t.rec[i].next = r.next
    BY <1>4, OlderBase DEF r
  <2> HIDE DEF t
  <2>2. t \in KeySets /\ r.base.serial \in 0..3
    BY <1>4, <2>1 DEF Changed, Keys
  <2>3. /\ Changed(t, u, i) /\ u.rec[i].type = "Alert"
        /\ u.rec[i].base = t.rec[i].base /\ u.rec[i].next = t.rec[i].next
    BY <2>2, DrawRec
  <2> HIDE DEF u
  <2>4. Changed(s, u, i)
    BY <2>1, <2>3 DEF Changed
  <2>5. /\ Older(r.base).active = r.base.active /\ Older(r.base).serial = r.base.serial
        /\ r.base.state = "Green" => Older(r.base).state \in {"Green", "Yellow"}
    BY <1>4, OlderKey
  <2>6. GoodRec(u.rec[i]) /\ InUse(u.rec[i]).serial = InUse(r).serial
    BY <1>6, <1>7, <2>1, <2>3, <2>5 DEF GoodRec, OneInUse, StepKeys, Active, InUse
  <2>7. GoodSet(u)
    BY <1>5, <2>4, <2>6, ChangedIsGood DEF r
  <2> QED
    BY <1>7, <2>3, <2>7, RespondKeeps DEF t, u
<1>8. ASSUME r.type = "None", ~ TurnsYellow(r.base), TurnsYellow(r.next),
             LET t == [s EXCEPT !.rec[i].base = Older(@), !.rec[i].next = Older(@)]
                 u == flip(IF t.rec[i].base.active THEN deactivate(t, i) ELSE t, i) IN
             Respond(e, draw(u, i, u.rec[i].base.serial), i)
      PROVE  KeysInv'
  <2> DEFINE t == [s EXCEPT !.rec[i].base = Older(@), !.rec[i].next = Older(@)]
             u == flip(t, i)
             v == draw(u, i, u.rec[i].base.serial)
  <2>1. /\ Changed(s, t, i) /\ t.rec[i].type = r.type
        /\ t.rec[i].base = Older(r.base) /\ t.rec[i].next = Older(r.next)
    BY <1>4, OlderBoth DEF r
  <2>2. r.next.state = "Green" /\ r.next.active /\ ~ r.base.active
    BY <1>6, <1>8 DEF GoodRec, OneInUse, StepKeys, TurnsYellow
  <2>3. /\ Older(r.next).active = r.next.active /\ Older(r.next).serial = r.next.serial
        /\ Older(r.base).active = r.base.active
        /\ Older(r.next).state \in {"Green", "Yellow"} /\ Older(r.next) \in Keys
    BY <1>4, <2>2, OlderKey
  <2>4. Respond(e, v, i)
    <3>1. ~ t.rec[i].base.active
      BY <2>1, <2>2, <2>3
    <3> QED
      BY <1>8, <3>1
  <2> HIDE DEF t
  <2>5. t \in KeySets
    BY <2>1 DEF Changed
  <2>6. Changed(t, u, i) /\ u.rec[i].base = t.rec[i].next /\ u.rec[i].next = NoKey
    BY <2>5, FlipRec
  <2> HIDE DEF u
  <2>7. u \in KeySets /\ u.rec[i].base.serial \in 0..3
    BY <2>1, <2>3, <2>6 DEF Changed, Keys
  <2>8. /\ Changed(u, v, i) /\ v.rec[i].type = "Alert"
        /\ v.rec[i].base = u.rec[i].base /\ v.rec[i].next = u.rec[i].next
    BY <2>7, DrawRec
  <2> HIDE DEF v
  <2>9. Changed(s, v, i)
    BY <2>1, <2>6, <2>8 DEF Changed
  <2>10. v.rec[i].base = Older(r.next) /\ v.rec[i].next = NoKey
    BY <2>1, <2>6, <2>8
  <2>11. GoodRec(v.rec[i]) /\ InUse(v.rec[i]).serial = InUse(r).serial
    <3>1. /\ v.rec[i].base.active /\ v.rec[i].base.serial = r.next.serial
          /\ v.rec[i].base.state \in {"Green", "Yellow"} /\ ~ v.rec[i].next.active
      <4>1. ~ NoKey.active
        BY DEF NoKey
      <4> QED
        BY <2>2, <2>3, <2>10, <4>1
    <3> QED
      BY <2>2, <2>8, <3>1 DEF GoodRec, OneInUse, StepKeys, Active, InUse
  <2>12. GoodSet(v)
    BY <1>5, <2>9, <2>11, ChangedIsGood DEF r
  <2> QED
    BY <2>4, <2>8, <2>12, RespondKeeps
<1>9. ASSUME r.type = "None", ~ TurnsYellow(r.base), ~ TurnsYellow(r.next),
             Change(e, [s EXCEPT !.rec[i].base = Older(@), !.rec[i].next = Older(@)])
      PROVE  KeysInv'
  <2> DEFINE t == [s EXCEPT !.rec[i].base = Older(@), !.rec[i].next = Older(@)]
  <2>1. /\ Changed(s, t, i) /\ t.rec[i].type = r.type
        /\ t.rec[i].base = Older(r.base) /\ t.rec[i].next = Older(r.next)
    BY <1>4, OlderBoth DEF r
  <2> HIDE DEF t
  <2>2. /\ Older(r.base).active = r.base.active /\ Older(r.base).serial = r.base.serial
        /\ Older(r.next).active = r.next.active /\ Older(r.next).serial = r.next.serial
        /\ r.base.state = "Green" <=> Older(r.base).state = "Green"
        /\ r.next.state = "Green" <=> Older(r.next).state = "Green"
    BY <1>4, <1>9, OlderKey
  <2>3. GoodRec(t.rec[i]) /\ InUse(t.rec[i]).serial = InUse(r).serial
    BY <1>6, <1>9, <2>1, <2>2 DEF GoodRec, OneInUse, StepKeys, Active, InUse
  <2>4. GoodSet(t)
    BY <1>5, <2>1, <2>3, ChangedIsGood DEF r
  <2> QED
    BY <1>9, <2>4, ChangeKeeps DEF t
<1>10. ASSUME r.type # "None", Change(e, s) \/ Respond(e, s, i)
       PROVE  KeysInv'
  BY <1>5, <1>10, ChangeKeeps, RespondKeeps DEF r
<1> QED
  BY <1>1, <1>7, <1>8, <1>9, <1>10 DEF r

-----------------------------------------------------------------------------
\* inbound.  The session has got the power of the other end, and makes the key.
LEMMA MadeReady ==
  ASSUME NEW s, GoodSet(s), NEW e \in End, NEW i \in Index, NEW gx \in Secrets,
         NEW t, Changed(s, t, i), OneInUse(t.rec[i]),
         InUse(t.rec[i]).serial = InUse(s.rec[i]).serial,
         InUse(t.rec[i]).state \in {"Green", "Yellow"}
  PROVE  LET u == make_key(setType(t, i, "Ready"), e, i, gx) IN
         /\ GoodSet(u) /\ u.rec[i].type = "Ready"
         /\ GoodSet(activate_key(u, i)) /\ activate_key(u, i).rec[i].type = "Ready"
<1> DEFINE v == setType(t, i, "Ready")
           u == make_key(v, e, i, gx)
<1>1. t \in KeySets
  BY DEF Changed
<1>2. /\ Changed(t, v, i) /\ v.rec[i].type = "Ready"
      /\ v.rec[i].base = t.rec[i].base /\ v.rec[i].next = t.rec[i].next
  BY <1>1, TypeRec
<1> HIDE DEF v
<1>3. v \in KeySets
  BY <1>2 DEF Changed
<1>4. /\ Changed(v, u, i) /\ u.rec[i].type = v.rec[i].type /\ u.rec[i].base = v.rec[i].base
      /\ u.rec[i].next.active = v.rec[i].next.active
      /\ u.rec[i].next.serial = NextSerial(v.rec[i].base.serial)
      /\ u.rec[i].next.state = "Green"
  BY <1>3, MakeRec
<1> HIDE DEF u
<1>5. Changed(s, u, i)
  BY <1>2, <1>4 DEF Changed
<1>6. OneInUse(u.rec[i]) /\ u.rec[i].next.serial = NextSerial(u.rec[i].base.serial)
  BY <1>2, <1>4 DEF OneInUse, Active
<1>7. InUse(u.rec[i]).serial = InUse(s.rec[i]).serial /\ InUse(u.rec[i]).state \in {"Green", "Yellow"}
  <2>1. CASE t.rec[i].base.active
    BY <1>2, <1>4, <2>1 DEF InUse
  <2>2. CASE ~ t.rec[i].base.active
    BY <1>2, <1>4, <2>2 DEF InUse, OneInUse, Active
  <2> QED
    BY <2>1, <2>2
<1>8. GoodRec(u.rec[i])
  BY <1>2, <1>4, <1>6, <1>7 DEF GoodRec, StepKeys
<1> QED
  BY <1>2, <1>4, <1>5, <1>6, <1>7, <1>8, ChangedIsGood, ActivatedIsGood DEF u, v

\* The session goes on to its last step, or ends, with the keys it has.
LEMMA AckReady ==
  ASSUME NEW s, GoodSet(s), NEW i \in Index, s.rec[i].type = "Ready"
  PROVE  LET u == activate_key(setType(s, i, "Ack"), i) IN GoodSet(u) /\ u.rec[i].type = "Ack"
<1> DEFINE t == setType(s, i, "Ack")
<1>1. s \in KeySets /\ GoodRec(s.rec[i])
  BY DEF GoodSet
<1>2. /\ Changed(s, t, i) /\ t.rec[i].type = "Ack"
      /\ t.rec[i].base = s.rec[i].base /\ t.rec[i].next = s.rec[i].next
  BY <1>1, TypeRec
<1> HIDE DEF t
<1>3. /\ OneInUse(t.rec[i]) /\ InUse(t.rec[i]).serial = InUse(s.rec[i]).serial
      /\ t.rec[i].next.state = "Green" /\ t.rec[i].next.serial = NextSerial(t.rec[i].base.serial)
  BY <1>1, <1>2 DEF GoodRec, OneInUse, StepKeys, Active, InUse
<1> QED
  BY <1>2, <1>3, ActivatedIsGood DEF t

LEMMA NoneAck ==
  ASSUME NEW s, GoodSet(s), NEW i \in Index, s.rec[i].type = "Ack"
  PROVE  GoodSet(setType(s, i, "None"))
<1> DEFINE t == setType(s, i, "None")
<1>1. s \in KeySets /\ GoodRec(s.rec[i])
  BY DEF GoodSet
<1>2. /\ Changed(s, t, i) /\ t.rec[i].type = "None"
      /\ t.rec[i].base = s.rec[i].base /\ t.rec[i].next = s.rec[i].next
  BY <1>1, TypeRec
<1> HIDE DEF t
<1>3. GoodRec(t.rec[i]) /\ InUse(t.rec[i]).serial = InUse(s.rec[i]).serial
  BY <1>1, <1>2 DEF GoodRec, OneInUse, StepKeys, Active, InUse
<1> QED
  BY <1>2, <1>3, ChangedIsGood DEF t

LEMMA InboundKeeps ==
  ASSUME KeysInv, NEW e \in End, NEW p \in net, Inbound(e, p)
  PROVE  KeysInv'
<1> DEFINE m == p.msg
           s == ends[e]
           i == m.index
           r == s.rec[i]
<1>1. m.index \in Index /\ m.gx \in Secrets /\ m.serial \in 0..3
  BY DEF KeysInv, Messages
<1>2. GoodSet(s) /\ s \in KeySets /\ GoodRec(r)
  BY <1>1 DEF KeysInv, GoodSet
<1>3. Alert(e, m) \/ Ready(e, m) \/ Ack(e, m) \/ Stop(e, m)
  <2>1. m.type \in {"Alert", "Ready", "Ack", "Stop"}
    BY DEF KeysInv, Messages
  <2> QED
    BY <2>1 DEF Inbound
<1> HIDE DEF m, s
<1>4. ASSUME NEW t, Changed(s, t, i), OneInUse(t.rec[i]),
             InUse(t.rec[i]).serial = InUse(s.rec[i]).serial,
             InUse(t.rec[i]).state \in {"Green", "Yellow"},
             Respond(e, make_key(setType(t, i, "Ready"), e, i, m.gx), i)
      PROVE  KeysInv'
  <2>1. LET u == make_key(setType(t, i, "Ready"), e, i, m.gx) IN GoodSet(u) /\ u.rec[i].type = "Ready"
    BY <1>1, <1>2, <1>4, MadeReady
  <2> QED
    BY <1>1, <1>4, <2>1, RespondKeeps
<1>5. CASE Alert(e, m)
  <2>1. \/ /\ r.type \in {"Ack", "None"} /\ r.base.active
           /\ Respond(e, make_key(setType(draw(s, i, m.serial), i, "Ready"), e, i, m.gx), i)
        \/ /\ r.type \in {"Ack", "None"} /\ ~ r.base.active /\ r.next.active
           /\ Respond(e, make_key(setType(draw(flip(s, i), i, m.serial), i, "Ready"), e, i, m.gx), i)
        \/ r.type = "Alert" /\ Respond(e, make_key(setType(s, i, "Ready"), e, i, m.gx), i)
    BY <1>5 DEF Alert, s
  <2>2. ASSUME Respond(e, make_key(setType(draw(s, i, m.serial), i, "Ready"), e, i, m.gx), i)
        PROVE  KeysInv'
    <3> DEFINE t == draw(s, i, m.serial)
    <3>1. Changed(s, t, i) /\ t.rec[i].base = r.base /\ t.rec[i].next = r.next
      BY <1>1, <1>2, DrawRec
    <3> HIDE DEF t
    <3>2. /\ OneInUse(t.rec[i]) /\ InUse(t.rec[i]).serial = InUse(s.rec[i]).serial
          /\ InUse(t.rec[i]).state \in {"Green", "Yellow"}
      BY <1>2, <3>1 DEF GoodRec, OneInUse, StepKeys, Active, InUse
    <3> QED
      BY <1>4, <2>2, <3>1, <3>2 DEF t
  <2>3. ASSUME ~ r.base.active, r.next.active,
               Respond(e, make_key(setType(draw(flip(s, i), i, m.serial), i, "Ready"), e, i, m.gx), i)
        PROVE  KeysInv'
    <3> DEFINE u == flip(s, i)
               t == draw(u, i, m.serial)
    <3>1. Changed(s, u, i) /\ u.rec[i].base = r.next /\ u.rec[i].next = NoKey
      BY <1>1, <1>2, FlipRec
    <3> HIDE DEF u
    <3>2. Changed(u, t, i) /\ t.rec[i].base = u.rec[i].base /\ t.rec[i].next = u.rec[i].next
      BY <1>1, <3>1, DrawRec DEF Changed
    <3> HIDE DEF t
    <3>3. ~ NoKey.active
      BY DEF NoKey
    <3>4. Changed(s, t, i)
      BY <3>1, <3>2 DEF Changed
    <3>5. /\ OneInUse(t.rec[i]) /\ InUse(t.rec[i]).serial = InUse(s.rec[i]).serial
          /\ InUse(t.rec[i]).state \in {"Green", "Yellow"}
      BY <1>2, <2>3, <3>1, <3>2, <3>3 DEF GoodRec, OneInUse, StepKeys, Active, InUse
    <3> QED
      BY <1>4, <2>3, <3>4, <3>5 DEF t, u
  <2>4. ASSUME Respond(e, make_key(setType(s, i, "Ready"), e, i, m.gx), i)
        PROVE  KeysInv'
    BY <1>2, <1>4, <2>4 DEF Changed, GoodRec, StepKeys
  <2> QED
    BY <2>1, <2>2, <2>3, <2>4
<1>6. CASE Ready(e, m)
  <2>1. \/ Respond(e, activate_key(make_key(setType(s, i, "Ready"), e, i, m.gx), i), i)
        \/ r.type = "Ready" /\ Respond(e, activate_key(setType(s, i, "Ack"), i), i)
    BY <1>6 DEF Ready, s
  <2>2. LET u == activate_key(make_key(setType(s, i, "Ready"), e, i, m.gx), i) IN
        GoodSet(u) /\ u.rec[i].type = "Ready"
    BY <1>1, <1>2, MadeReady DEF Changed, GoodRec, StepKeys
  <2>3. r.type = "Ready" => LET u == activate_key(setType(s, i, "Ack"), i) IN
                            GoodSet(u) /\ u.rec[i].type = "Ack"
    BY <1>1, <1>2, AckReady
  <2> QED
    BY <1>1, <2>1, <2>2, <2>3, RespondKeeps
<1>7. CASE Ack(e, m)
  <2>1. \/ r.type = "Ready" /\ Respond(e, activate_key(setType(s, i, "Ack"), i), i)
        \/ r.type = "Ack" /\ Reply(e, setType(s, i, "None"), "Ack", i, m.serial)
        \/ Reply(e, s, "Stop", i, m.serial)
    BY <1>7 DEF Ack, s
  <2>2. r.type = "Ready" => LET u == activate_key(setType(s, i, "Ack"), i) IN
                            GoodSet(u) /\ u.rec[i].type = "Ack"
    BY <1>1, <1>2, AckReady
  <2>3. r.type = "Ack" => GoodSet(setType(s, i, "None"))
    BY <1>1, <1>2, NoneAck
  <2> QED
    BY <1>1, <1>2, <2>1, <2>2, <2>3, RespondKeeps, ReplyKeeps
<1>8. CASE Stop(e, m)
  <2>1. r.type = "Ack" /\ Change(e, setType(s, i, "None"))
    BY <1>8 DEF Stop, s
  <2> QED
    BY <1>1, <1>2, <2>1, NoneAck, ChangeKeeps
<1> QED
  BY <1>3, <1>5, <1>6, <1>7, <1>8

LEMMA KeysInvInit == Init => KeysInv
<1> SUFFICES ASSUME Init PROVE KeysInv
  OBVIOUS
<1> DEFINE r(i) == [base |-> FirstKey, next |-> NoKey, type |-> "None", serial |-> 0, draws |-> 0, place |-> i]
           s == [rec  |-> [i \in Index |-> r(i)], list |-> [i \in Index |-> [index |-> i, serial |-> 0]]]
<1>1. DOMAIN ends = End /\ \A e \in End : ends[e] = s
  BY DEF Init
<1>2. FirstKey \in Keys /\ NoKey \in Keys
  BY DEF FirstKey, NoKey, Keys
<1>3. ASSUME NEW i \in Index PROVE r(i) \in Recs /\ GoodRec(r(i)) /\ InUse(r(i)).serial = 0
  <2>1. i \in Int
    BY KeysAssumption DEF Index
  <2>2. /\ FirstKey.active /\ ~ NoKey.active /\ FirstKey.state = "Green" /\ NoKey.state = "Dead"
        /\ FirstKey.serial = 0
    BY DEF FirstKey, NoKey
  <2>3. r(i) \in Recs
    BY <1>2, <2>1 DEF Recs
  <2> QED
    BY <2>2, <2>3 DEF GoodRec, OneInUse, StepKeys, Active, InUse
<1> HIDE DEF r
<1>4. KeySetLen \in Nat /\ Index = 1..KeySetLen
  BY KeysAssumption DEF Index
<1>5. s.list \in Seq(Entries) /\ Len(s.list) = KeySetLen
  BY <1>4 DEF Entries
<1>6. s \in KeySets
  BY <1>3, <1>5 DEF KeySets
<1>7. Listed(s)
  <2>1. \A i \in Index : r(i).place = i
    BY DEF r
  <2> QED
    BY <1>3, <1>4, <1>5, <2>1 DEF Listed, GoodRec, OneInUse
<1>8. GoodSet(s)
  BY <1>3, <1>6, <1>7 DEF GoodSet
<1> QED
  BY <1>1, <1>8 DEF KeysInv, Init

LEMMA KeysInvStep == KeysInv /\ [Next]_vars => KeysInv'
<1>1. ASSUME KeysInv, Next PROVE KeysInv'
  BY <1>1, TickKeeps, InboundKeeps DEF Next, Tick
<1>2. ASSUME KeysInv, UNCHANGED vars PROVE KeysInv'
  BY <1>2 DEF vars, KeysInv
<1> QED
  BY <1>1, <1>2

\* No key in use ever turns Red: a session replaces it in time, however late the
\* packets of the exchange are, and however often they come.
THEOREM KeysStayFresh == Spec => []NoRedInUse
<1>1. KeysInv => NoRedInUse
  BY DEF KeysInv, GoodSet, GoodRec, StepKeys, NoRedInUse
<1> QED
  BY <1>1, KeysInvInit, KeysInvStep, PTL DEF Spec

\* Each index has one key in use, and active_list has it where its place says, with
\* its serial, and nothing else: so whatever an end has to send can be encrypted.
ActiveList ==
  \A e \in End : /\ Listed(ends[e])
                 /\ \A i \in Index : OneInUse(ends[e].rec[i])
                 /\ \A m : \A o \in Encrypt(e, ends[e], m) : o.sent # {}

THEOREM OneKeyInUse == Spec => []ActiveList
<1>1. KeysInv => ActiveList
  BY EncryptSends DEF KeysInv, GoodSet, GoodRec, ActiveList
<1> QED
  BY <1>1, KeysInvInit, KeysInvStep, PTL DEF Spec

-----------------------------------------------------------------------------
\* The window.
BitSets == [R!Units -> SUBSET (0..(UnitBits - 1))]

\* A bit of the window has its unit.
LEMMA UnitOf ==
  ASSUME NEW n \in Nat
  PROVE  /\ n \div UnitBits \in Nat
         /\ n < R!WinLen <=> n \div UnitBits < WinUnits
<1> DEFINE q == n \div UnitBits
<1>2. UnitBits \in Nat \ {0} /\ WinUnits \in Nat /\ R!WinLen = UnitBits * WinUnits
  BY WindowAssumption DEF R!WinLen
<1>1. /\ q \in Int /\ n % UnitBits \in 0..(UnitBits - 1)
      /\ n = UnitBits * q + (n % UnitBits)
  BY <1>2, Division
<1> HIDE DEF q
<1>3. q >= 0
  <2>1. CASE 0 >= q + 1
    <3>1. UnitBits * 0 >= UnitBits * q + UnitBits
      BY <1>1, <1>2, <2>1, Multiples
    <3> QED
      BY <1>1, <1>2, <3>1
  <2> QED
    BY <1>1, <2>1
<1>4. ASSUME n < R!WinLen PROVE q < WinUnits
  <2>1. CASE q >= WinUnits
    <3>1. UnitBits * q >= UnitBits * WinUnits
      BY <1>1, <1>2, <2>1, Multiples
    <3> QED
      BY <1>1, <1>2, <1>4, <3>1
  <2> QED
    BY <1>1, <1>2, <2>1
<1>5. ASSUME q < WinUnits PROVE n < R!WinLen
  <2>1. UnitBits * WinUnits >= UnitBits * q + UnitBits
    BY <1>1, <1>2, <1>5, Multiples
  <2> QED
    BY <1>1, <1>2, <2>1
<1> QED
  BY <1>1, <1>3, <1>4, <1>5 DEF q

\* A bit that is set, and no other.
LEMMA TestSet ==
  ASSUME NEW b \in BitSets, NEW n \in 0..(R!WinLen - 1)
  PROVE  /\ R!Set(b, n) \in BitSets
         /\ \A m \in 0..(R!WinLen - 1) : R!Test(R!Set(b, n), m) <=> m = n \/ R!Test(b, m)
<1> DEFINE c == R!Set(b, n)
<1>1. \A m \in 0..(R!WinLen - 1) :
        /\ m \in Int /\ m \div UnitBits \in R!Units /\ m % UnitBits \in 0..(UnitBits - 1)
        /\ m = UnitBits * (m \div UnitBits) + (m % UnitBits)
  <2> SUFFICES ASSUME NEW m \in 0..(R!WinLen - 1)
               PROVE  /\ m \in Int /\ m \div UnitBits \in R!Units /\ m % UnitBits \in 0..(UnitBits - 1)
                      /\ m = UnitBits * (m \div UnitBits) + (m % UnitBits)
    OBVIOUS
  <2>1. R!WinLen \in Int /\ WinUnits \in Nat /\ UnitBits \in Nat \ {0}
    BY WindowAssumption DEF R!WinLen
  <2>2. m \in Nat /\ m < R!WinLen
    BY <2>1
  <2>3. m % UnitBits \in 0..(UnitBits - 1) /\ m = UnitBits * (m \div UnitBits) + (m % UnitBits)
    BY <2>1, <2>2, Division
  <2>4. m \div UnitBits \in R!Units
    BY <2>1, <2>2, UnitOf DEF R!Units
  <2> QED
    BY <2>2, <2>3, <2>4
<1>2. c \in BitSets /\ c = [b EXCEPT ![n \div UnitBits] = b[n \div UnitBits] \cup {n % UnitBits}]
  BY <1>1 DEF R!Set, BitSets
<1> HIDE DEF c
<1>3. ASSUME NEW m \in 0..(R!WinLen - 1) PROVE R!Test(c, m) <=> m = n \/ R!Test(b, m)
  <2>1. CASE m \div UnitBits = n \div UnitBits
    <3>1. c[m \div UnitBits] = b[m \div UnitBits] \cup {n % UnitBits}
      BY <1>1, <1>2, <2>1 DEF BitSets
    <3>2. m % UnitBits = n % UnitBits <=> m = n
      BY <1>1, <2>1
    <3> QED
      BY <3>1, <3>2 DEF R!Test
  <2>2. CASE m \div UnitBits # n \div UnitBits
    <3>1. c[m \div UnitBits] = b[m \div UnitBits]
      BY <1>1, <1>2, <2>2 DEF BitSets
    <3> QED
      BY <2>2, <3>1 DEF R!Test
  <2> QED
    BY <2>1, <2>2
<1> QED
  BY <1>2, <1>3 DEF c

\* DivisionUnique, of a bit's number.
LEMMA BitUnit ==
  ASSUME NEW k \in Int, NEW q \in Int, NEW r \in 0..(UnitBits - 1), k = UnitBits * q + r
  PROVE  k \div UnitBits = q /\ k % UnitBits = r
<1>1. UnitBits \in Nat \ {0}
  BY WindowAssumption
<1> QED
  BY <1>1, DivisionUnique

\* Both loops of BitFlags::shift: a bit is what the one sh places on was, and the
\* last ones are clear.
LEMMA TestShifted ==
  ASSUME NEW b \in BitSets, NEW sh \in Nat
  PROVE  /\ R!Shifted(b, sh) \in BitSets
         /\ \A m \in 0..(R!WinLen - 1) :
              R!Test(R!Shifted(b, sh), m) <=> m + sh < R!WinLen /\ R!Test(b, m + sh)
<1> DEFINE n     == sh \div UnitBits
           s     == sh % UnitBits
           At(u) == IF u < WinUnits THEN b[u] ELSE {}
           c     == R!Shifted(b, sh)
<1>0. /\ UnitBits \in Nat \ {0} /\ WinUnits \in Nat \ {0}
      /\ R!WinLen = UnitBits * WinUnits /\ R!WinLen \in Nat
  BY WindowAssumption DEF R!WinLen
<1>1. n \in Nat /\ s \in 0..(UnitBits - 1) /\ sh = UnitBits * n + s
  BY <1>0, Division, UnitOf
<1>2. CASE sh >= R!WinLen
  <2>1. c = [u \in R!Units |-> {}]
    BY <1>2 DEF R!Shifted
  <2>2. c \in BitSets
    BY <2>1 DEF BitSets
  <2>3. ASSUME NEW m \in 0..(R!WinLen - 1) PROVE ~ R!Test(c, m) /\ ~ (m + sh < R!WinLen)
    <3>1. m \in Nat /\ m < R!WinLen
      BY <1>0
    <3>2. m \div UnitBits \in R!Units
      BY <1>0, <3>1, UnitOf DEF R!Units
    <3> QED
      BY <1>0, <1>2, <2>1, <3>1, <3>2 DEF R!Test
  <2> QED
    BY <2>2, <2>3
<1>3. CASE ~ (sh >= R!WinLen)
  <2>1. c = [u \in R!Units |-> IF s = 0 THEN At(u + n) ELSE R!Shift(At(u + n + 1), At(u + n), s)]
    BY <1>3 DEF R!Shifted
  <2> HIDE DEF n, s, c
  <2>2. \A u \in Nat : At(u) \in SUBSET (0..(UnitBits - 1))
    BY <1>0 DEF BitSets, R!Units
  <2> HIDE DEF At
  <2>3. ASSUME NEW u \in R!Units
        PROVE  /\ c[u] \in SUBSET (0..(UnitBits - 1))
               /\ \A i \in 0..(UnitBits - 1) :
                    i \in c[u] <=> IF i + s < UnitBits THEN i + s \in At(u + n)
                                                       ELSE i + s - UnitBits \in At(u + n + 1)
    <3>1. u \in Nat /\ u + n \in Nat /\ u + n + 1 \in Nat
      BY <1>0, <1>1 DEF R!Units
    <3>2. At(u + n) \in SUBSET (0..(UnitBits - 1)) /\ At(u + n + 1) \in SUBSET (0..(UnitBits - 1))
      BY <2>2, <3>1
    <3>3. CASE s = 0
      <4>1. c[u] = At(u + n)
        BY <2>1, <3>3
      <4> QED
        BY <1>0, <3>2, <3>3, <4>1
    <3>4. CASE s # 0
      <4> DEFINE lo == At(u + n)
                 hi == At(u + n + 1)
      <4>1. c[u] = R!Shift(hi, lo, s)
        BY <2>1, <3>4
      <4>2. lo \in SUBSET (0..(UnitBits - 1)) /\ hi \in SUBSET (0..(UnitBits - 1))
        BY <3>2
      <4> HIDE DEF lo, hi
      <4>3. c[u] \in SUBSET (0..(UnitBits - 1))
        BY <1>0, <1>1, <3>4, <4>1, <4>2 DEF R!Shift
      <4>4. ASSUME NEW i \in 0..(UnitBits - 1)
            PROVE  i \in c[u] <=> IF i + s < UnitBits THEN i + s \in lo ELSE i + s - UnitBits \in hi
        BY <1>0, <1>1, <3>4, <4>1, <4>2 DEF R!Shift
      <4> QED
        BY <4>3, <4>4 DEF lo, hi
    <3> QED
      BY <3>3, <3>4
  <2>4. c \in BitSets
    BY <2>1, <2>3 DEF BitSets
  <2>5. ASSUME NEW m \in 0..(R!WinLen - 1)
        PROVE  R!Test(c, m) <=> m + sh < R!WinLen /\ R!Test(b, m + sh)
    <3> DEFINE u == m \div UnitBits
               i == m % UnitBits
               k == m + sh
    <3>1. m \in Nat /\ m < R!WinLen /\ k \in Nat
      BY <1>0
    <3>2. u \in R!Units /\ u \in Nat /\ i \in 0..(UnitBits - 1) /\ m = UnitBits * u + i
      <4>1. u \in Nat /\ u < WinUnits
        BY <3>1, UnitOf
      <4>2. i \in 0..(UnitBits - 1) /\ m = UnitBits * u + i
        BY <1>0, <3>1, Division
      <4>3. u \in R!Units
        BY <1>0, <4>1 DEF R!Units
      <4> QED
        BY <4>1, <4>2, <4>3
    <3>3. k < R!WinLen <=> k \div UnitBits < WinUnits
      BY <3>1, UnitOf
    <3> HIDE DEF u, i
    <3>4. CASE i + s < UnitBits
      <4>1. UnitBits * (u + n) = UnitBits * u + UnitBits * n
        BY <1>0, <1>1, <3>2
      <4>2. k \div UnitBits = u + n /\ k % UnitBits = i + s
        <5>1. u + n \in Int /\ i + s \in 0..(UnitBits - 1) /\ k = UnitBits * (u + n) + (i + s)
          BY <1>0, <1>1, <3>2, <3>4, <4>1
        <5>2. k \in Int
          BY <3>1
        <5> HIDE DEF k
        <5> QED
          BY <5>1, <5>2, BitUnit
      <4>3. R!Test(c, m) <=> i + s \in At(u + n)
        BY <2>3, <3>2, <3>4 DEF R!Test, u, i
      <4> QED
        BY <3>3, <4>2, <4>3 DEF R!Test, At
    <3>5. CASE ~ (i + s < UnitBits)
      <4>1. UnitBits * (u + n + 1) = UnitBits * u + UnitBits * n + UnitBits
        BY <1>0, <1>1, <3>2
      <4>2. k \div UnitBits = u + n + 1 /\ k % UnitBits = i + s - UnitBits
        <5>1. /\ u + n + 1 \in Int /\ i + s - UnitBits \in 0..(UnitBits - 1)
              /\ k = UnitBits * (u + n + 1) + (i + s - UnitBits)
          BY <1>0, <1>1, <3>2, <3>5, <4>1
        <5>2. k \in Int
          BY <3>1
        <5> HIDE DEF k
        <5> QED
          BY <5>1, <5>2, BitUnit
      <4>3. R!Test(c, m) <=> i + s - UnitBits \in At(u + n + 1)
        BY <2>3, <3>2, <3>5 DEF R!Test, u, i
      <4> QED
        BY <3>3, <4>2, <4>3 DEF R!Test, At
    <3> QED
      BY <3>4, <3>5
  <2> QED
    BY <2>4, <2>5 DEF c
<1> QED
  BY <1>2, <1>3

\* The packet that has the place o of the window, were the window filled.
Of(o) == o - R!WinLen - lead + 1 + Len(taken)

WindowTypes == /\ base \in 0..(NumMod - 1)
               /\ out_sequence_number \in 0..(NumMod - 1)
               /\ bits \in BitSets
               /\ taken \in Seq(BOOLEAN) /\ Len(taken) <= MaxLate
               /\ lead \in Int /\ -R!WinLen <= lead /\ lead <= MaxLead

\* The sender's number is lead past the end of the window, however often both have
\* wrapped around.
NumbersAgree == \E q \in Int : base + R!WinLen + lead = out_sequence_number + NumMod * q

\* The bit of a packet whose copies may still come tells whether it was taken.
BitsAgree == \A o \in 0..(R!WinLen - 1) :
               Of(o) >= 1 => (R!Test(bits, o) <=> Of(o) <= Len(taken) /\ taken[Of(o)])

\* The window ends at the newest packet that was taken.
NoneAhead == \A k \in R!Sent : R!Position(k) >= 0 => ~ taken[k]

WinInv == WindowTypes /\ NumbersAgree /\ BitsAgree /\ NoneAhead

-----------------------------------------------------------------------------
\* The window's invariant.  Numbers are compared modulo NumMod, so each fact about
\* them is one about integers and a multiple of NumMod.
LEMMA WindowSizes ==
  /\ NumMod \in Nat \ {0} /\ UnitBits \in Nat \ {0} /\ WinUnits \in Nat \ {0}
  /\ R!WinLen \in Nat \ {0} /\ ForeLen \in Nat /\ MaxLead \in Nat /\ MaxLate \in Nat \ {0}
  /\ MaxLate + R!WinLen + ForeLen <= NumMod
  /\ MaxLead + R!WinLen <= NumMod
<1>1. UnitBits \in Nat \ {0} /\ WinUnits \in Nat \ {0} /\ R!WinLen = UnitBits * WinUnits
  BY WindowAssumption DEF R!WinLen
<1>2. UnitBits * WinUnits >= UnitBits * 0 + UnitBits
  BY <1>1, Multiples
<1>3. R!WinLen \in Nat \ {0}
  BY <1>1, <1>2
<1> QED
  BY <1>1, <1>3, WindowAssumption

LEMMA Residue ==
  ASSUME NEW m \in Int
  PROVE  /\ m % NumMod \in 0..(NumMod - 1)
         /\ \E q \in Int : m = NumMod * q + (m % NumMod)
<1>1. /\ m \div NumMod \in Int /\ m % NumMod \in 0..(NumMod - 1)
      /\ m = NumMod * (m \div NumMod) + (m % NumMod)
  BY WindowSizes, Division
<1> QED
  BY <1>1

LEMMA ResidueUnique ==
  ASSUME NEW m \in Int, NEW q \in Int, NEW r \in 0..(NumMod - 1), m = NumMod * q + r
  PROVE  m % NumMod = r
BY WindowSizes, DivisionUnique

LEMMA WinInit == R!Init => WinInv
<1> SUFFICES ASSUME R!Init PROVE WinInv
  OBVIOUS
<1>0. /\ base = 0 /\ out_sequence_number = 0 /\ taken = << >> /\ lead = -R!WinLen
      /\ bits = [u \in R!Units |-> {}]
  BY DEF R!Init
<1>1. WindowTypes
  BY <1>0, WindowSizes DEF WindowTypes, BitSets
<1>2. NumbersAgree
  <2>1. base + R!WinLen + lead = out_sequence_number + NumMod * 0
    BY <1>0, WindowSizes
  <2> QED
    BY <2>1 DEF NumbersAgree
<1>3. BitsAgree
  <2> SUFFICES ASSUME NEW o \in 0..(R!WinLen - 1)
               PROVE  ~ R!Test(bits, o) /\ ~ (Of(o) <= Len(taken))
    BY DEF BitsAgree
  <2>1. o \in Nat /\ o < R!WinLen
    BY WindowSizes
  <2>2. o \div UnitBits \in R!Units
    BY <2>1, UnitOf, WindowSizes DEF R!Units
  <2> QED
    BY <1>0, <2>1, <2>2, WindowSizes DEF R!Test, Of
<1>4. NoneAhead
  BY <1>0 DEF NoneAhead, R!Sent
<1> QED
  BY <1>1, <1>2, <1>3, <1>4 DEF WinInv

\* The offset of a packet's number is its place, unless the packet is older than the
\* window: then it has wrapped around, past everything that is taken.
LEMMA PlaceOf ==
  ASSUME WinInv, NEW k \in R!Sent
  PROVE  /\ k \in 1..Len(taken) /\ taken[k] \in BOOLEAN
         /\ R!Position(k) \in Int /\ R!Position(k) = lead - 1 - Len(taken) + k
         /\ R!Offset(R!Number(k)) \in Int
         /\ R!Position(k) >= -R!WinLen =>
              R!Offset(R!Number(k)) = R!Position(k) + R!WinLen
         /\ R!Position(k) < -R!WinLen =>
              R!Offset(R!Number(k)) >= R!WinLen + ForeLen
<1>0. WindowTypes /\ NumbersAgree
  BY DEF WinInv
<1>1. k \in 1..Len(taken) /\ Len(taken) \in Nat /\ Len(taken) <= MaxLate
  BY <1>0 DEF WindowTypes, R!Sent
<1>2. taken[k] \in BOOLEAN
  BY <1>0, <1>1, ElementOfSeq DEF WindowTypes
<1>3. /\ lead \in Int /\ lead >= -R!WinLen /\ lead <= MaxLead
      /\ base \in Int /\ out_sequence_number \in Int
  BY <1>0, WindowSizes DEF WindowTypes
<1>4. R!Position(k) \in Int /\ R!Position(k) = lead - 1 - Len(taken) + k
  BY <1>1, <1>3 DEF R!Position
<1> DEFINE num   == out_sequence_number - 1 - (Len(taken) - k)
           place == R!Position(k) + R!WinLen
           off   == R!Offset(R!Number(k))
<1>5. place \in Int /\ place >= -MaxLate /\ place <= NumMod - 1
  BY <1>1, <1>3, <1>4, WindowSizes
<1>6. PICK q \in Int : base + R!WinLen + lead = out_sequence_number + NumMod * q
  BY <1>0 DEF NumbersAgree
<1>7. PICK v \in Int : num = NumMod * v + R!Number(k)
  <2>1. num \in Int /\ R!Number(k) = num % NumMod
    BY <1>1, <1>3 DEF R!Number
  <2> HIDE DEF num
  <2> QED
    BY <2>1, Residue
<1>8. R!Number(k) \in Int
  <2>1. num \in Int /\ R!Number(k) = num % NumMod
    BY <1>1, <1>3 DEF R!Number
  <2> HIDE DEF num
  <2> QED
    BY <2>1, Residue, WindowSizes
<1>9. R!Number(k) - base = NumMod * (-q - v) + place
  <2>1. NumMod * (-q - v) = -(NumMod * q) - NumMod * v
    BY WindowSizes
  <2>2. NumMod * q \in Int /\ NumMod * v \in Int
    BY WindowSizes
  <2> QED
    BY <1>1, <1>3, <1>4, <1>6, <1>7, <1>8, <2>1, <2>2, WindowSizes
<1>10. off = (R!Number(k) - base) % NumMod
  BY DEF R!Offset
<1>11. R!Number(k) - base \in Int /\ -q - v \in Int /\ -q - v - 1 \in Int
  BY <1>3, <1>8
<1> HIDE DEF place, off
<1>12. CASE place >= 0
  <2>1. place \in 0..(NumMod - 1)
    BY <1>5, <1>12, WindowSizes
  <2>2. off = place
    BY <1>9, <1>10, <1>11, <2>1, ResidueUnique
  <2> QED
    BY <1>1, <1>2, <1>4, <1>5, <1>12, <2>2, WindowSizes DEF place, off
<1>13. CASE ~ (place >= 0)
  <2>1. place + NumMod \in 0..(NumMod - 1) /\ place + NumMod >= R!WinLen + ForeLen
    BY <1>5, <1>13, WindowSizes
  <2>2. NumMod * (-q - v - 1) = NumMod * (-q - v) - NumMod
    BY <1>11, WindowSizes
  <2>3. R!Number(k) - base = NumMod * (-q - v - 1) + (place + NumMod)
    BY <1>5, <1>9, <1>11, <2>2, WindowSizes
  <2>4. off = place + NumMod
    BY <1>10, <1>11, <2>1, <2>3, ResidueUnique
  <2> QED
    BY <1>1, <1>2, <1>4, <1>5, <1>13, <2>1, <2>4, WindowSizes DEF place, off
<1> QED
  BY <1>12, <1>13

\* The packet whose place is an offset within the window.
LEMMA OfPlace ==
  ASSUME WinInv, NEW k \in R!Sent, R!Position(k) < 0, R!Position(k) >= -R!WinLen
  PROVE  /\ R!Position(k) + R!WinLen \in 0..(R!WinLen - 1)
         /\ Of(R!Position(k) + R!WinLen) = k
         /\ R!Test(bits, R!Position(k) + R!WinLen) <=> taken[k]
<1>1. /\ k \in 1..Len(taken) /\ Len(taken) \in Nat /\ lead \in Int
      /\ R!Position(k) \in Int /\ R!Position(k) = lead - 1 - Len(taken) + k
  BY PlaceOf DEF WinInv, WindowTypes
<1>2. R!Position(k) + R!WinLen \in 0..(R!WinLen - 1)
  BY <1>1, WindowSizes
<1>3. Of(R!Position(k) + R!WinLen) = k
  BY <1>1, WindowSizes DEF Of
<1>4. R!Test(bits, R!Position(k) + R!WinLen) <=> k <= Len(taken) /\ taken[k]
  BY <1>1, <1>2, <1>3 DEF WinInv, BitsAgree
<1> QED
  BY <1>1, <1>2, <1>3, <1>4

LEMMA WindowIsExact == WinInv => WindowExact
<1> SUFFICES ASSUME WinInv, NEW k \in R!Sent
             PROVE  R!testReplay(R!Number(k)) <=> \/ taken[k]
                                                  \/ R!Position(k) < -R!WinLen
                                                  \/ R!Position(k) >= ForeLen
  BY DEF WindowExact, R!WindowExact
<1>1. R!testReplay(R!Number(k)) <=>
        IF R!Offset(R!Number(k)) < R!WinLen THEN R!Test(bits, R!Offset(R!Number(k)))
                                            ELSE R!Offset(R!Number(k)) >= R!WinLen + ForeLen
  BY DEF R!testReplay
<1>2. CASE R!Position(k) < -R!WinLen
  BY <1>1, <1>2, PlaceOf, WindowSizes
<1>3. CASE R!Position(k) >= -R!WinLen /\ R!Position(k) < 0
  <2>1. /\ R!Offset(R!Number(k)) = R!Position(k) + R!WinLen
        /\ R!Position(k) + R!WinLen < R!WinLen /\ ~ (R!Position(k) < -R!WinLen)
        /\ ~ (R!Position(k) >= ForeLen)
    BY <1>3, PlaceOf, WindowSizes
  <2>2. R!Test(bits, R!Position(k) + R!WinLen) <=> taken[k]
    BY <1>3, OfPlace
  <2> QED
    BY <1>1, <2>1, <2>2
<1>4. CASE R!Position(k) >= 0
  <2>1. ~ taken[k]
    BY <1>4 DEF WinInv, NoneAhead
  <2> QED
    BY <1>1, <1>4, <2>1, PlaceOf, WindowSizes
<1>5. R!Position(k) \in Int
  BY PlaceOf
<1> QED
  BY <1>2, <1>3, <1>4, <1>5, WindowSizes

\* What the history is after its two updates.
LEMMA Sends ==
  ASSUME NEW s \in Seq(BOOLEAN), NEW t, t = Append(s, FALSE)
  PROVE  /\ t \in Seq(BOOLEAN) /\ Len(t) = Len(s) + 1
         /\ ~ t[Len(t)]
         /\ \A j \in 1..Len(s) : t[j] = s[j]
<1>1. t \in Seq(BOOLEAN) /\ Len(t) = Len(s) + 1
  OBVIOUS
<1>2. t[Len(s) + 1] = FALSE
  OBVIOUS
<1>3. \A j \in 1..Len(s) : t[j] = s[j]
  OBVIOUS
<1> QED
  BY <1>1, <1>2, <1>3

LEMMA Drops ==
  ASSUME NEW s \in Seq(BOOLEAN), Len(s) >= 1
  PROVE  /\ Tail(s) \in Seq(BOOLEAN) /\ Len(Tail(s)) = Len(s) - 1
         /\ \A j \in 1..(Len(s) - 1) : Tail(s)[j] = s[j + 1]
OBVIOUS

LEMMA Takes ==
  ASSUME NEW s \in Seq(BOOLEAN), NEW k \in 1..Len(s), NEW t, t = [s EXCEPT ![k] = TRUE]
  PROVE  /\ t \in Seq(BOOLEAN) /\ Len(t) = Len(s)
         /\ t[k]
         /\ \A j \in 1..Len(s) : j # k => t[j] = s[j]
<1>1. t \in Seq(BOOLEAN) /\ Len(t) = Len(s)
  OBVIOUS
<1>2. t[k] = TRUE
  OBVIOUS
<1>3. \A j \in 1..Len(s) : j # k => t[j] = s[j]
  OBVIOUS
<1> QED
  BY <1>1, <1>2, <1>3

\* A packet that is sent becomes the newest of those whose copies may come.
LEMMA WinOutbound ==
  ASSUME WinInv, R!Outbound
  PROVE  WinInv'
<1>0. /\ base' = base /\ bits' = bits /\ lead' = lead + 1 /\ lead < MaxLead
      /\ out_sequence_number' = (out_sequence_number + 1) % NumMod
      /\ taken' = IF Len(taken) < MaxLate THEN Append(taken, FALSE) ELSE Append(Tail(taken), FALSE)
  BY DEF R!Outbound
<1>1. /\ base \in 0..(NumMod - 1) /\ out_sequence_number \in 0..(NumMod - 1) /\ bits \in BitSets
      /\ taken \in Seq(BOOLEAN) /\ Len(taken) \in Nat /\ Len(taken) <= MaxLate
      /\ lead \in Int /\ -R!WinLen <= lead /\ lead <= MaxLead
  BY DEF WinInv, WindowTypes
\* The packets move down by d in the history.
<1> DEFINE d == IF Len(taken) < MaxLate THEN 0 ELSE 1
<1>2. /\ d \in 0..1 /\ taken' \in Seq(BOOLEAN)
      /\ Len(taken') = Len(taken) + 1 - d /\ Len(taken') <= MaxLate
      /\ ~ taken'[Len(taken')]
      /\ \A j \in 1..(Len(taken') - 1) : taken'[j] = taken[j + d]
  <2>1. CASE Len(taken) < MaxLate
    <3>1. taken' = Append(taken, FALSE) /\ d = 0
      BY <1>0, <2>1
    <3>2. /\ taken' \in Seq(BOOLEAN) /\ Len(taken') = Len(taken) + 1 /\ ~ taken'[Len(taken')]
          /\ \A j \in 1..Len(taken) : taken'[j] = taken[j]
      BY <1>1, <3>1, Sends
    <3>3. ASSUME NEW j \in 1..(Len(taken') - 1) PROVE taken'[j] = taken[j + d]
      <4>1. j + d = j /\ j \in 1..Len(taken)
        BY <1>1, <3>1, <3>2
      <4> QED
        BY <3>2, <4>1
    <3> QED
      BY <1>1, <2>1, <3>1, <3>2, <3>3, WindowSizes
  <2>2. CASE ~ (Len(taken) < MaxLate)
    <3>1. taken' = Append(Tail(taken), FALSE) /\ d = 1
      BY <1>0, <2>2
    <3>2. /\ Len(taken) >= 1
          /\ Tail(taken) \in Seq(BOOLEAN) /\ Len(Tail(taken)) = Len(taken) - 1
          /\ \A j \in 1..(Len(taken) - 1) : Tail(taken)[j] = taken[j + 1]
      <4>1. Len(taken) >= 1
        BY <1>1, <2>2, WindowSizes
      <4> QED
        BY <1>1, <4>1, Drops
    <3>3. /\ taken' \in Seq(BOOLEAN) /\ Len(taken') = Len(Tail(taken)) + 1 /\ ~ taken'[Len(taken')]
          /\ \A j \in 1..Len(Tail(taken)) : taken'[j] = Tail(taken)[j]
      BY <3>1, <3>2, Sends
    <3>4. ASSUME NEW j \in 1..(Len(taken') - 1) PROVE taken'[j] = taken[j + d]
      <4>1. d = 1 /\ j \in 1..(Len(taken) - 1) /\ j \in 1..Len(Tail(taken))
        BY <1>1, <3>1, <3>2, <3>3
      <4> QED
        BY <3>2, <3>3, <4>1
    <3> QED
      BY <1>1, <2>2, <3>1, <3>2, <3>3, <3>4, WindowSizes
  <2> QED
    BY <2>1, <2>2
<1> HIDE DEF d
<1>3. Len(taken') \in Nat
  BY <1>1, <1>2
<1>4. WindowTypes'
  <2>1. out_sequence_number' \in 0..(NumMod - 1)
    <3> DEFINE m == out_sequence_number + 1
    <3>1. m \in Int /\ out_sequence_number' = m % NumMod
      BY <1>0, <1>1, WindowSizes
    <3> HIDE DEF m
    <3> QED
      BY <3>1, Residue
  <2>2. R!WinLen' = R!WinLen /\ BitSets' = BitSets
    BY DEF R!WinLen, BitSets, R!Units
  <2>3. lead' \in Int /\ -R!WinLen <= lead' /\ lead' <= MaxLead
    BY <1>0, <1>1, WindowSizes
  <2> QED
    BY <1>0, <1>1, <1>2, <2>1, <2>2, <2>3 DEF WindowTypes
<1>5. NumbersAgree'
  <2>1. PICK q \in Int : base + R!WinLen + lead = out_sequence_number + NumMod * q
    BY DEF WinInv, NumbersAgree
  <2>2. PICK v \in Int : out_sequence_number + 1 = NumMod * v + out_sequence_number'
    <3> DEFINE m == out_sequence_number + 1
    <3>1. m \in Int /\ out_sequence_number' = m % NumMod
      BY <1>0, <1>1, WindowSizes
    <3> HIDE DEF m
    <3>2. \E v \in Int : m = NumMod * v + out_sequence_number'
      BY <3>1, Residue
    <3> QED
      BY <3>2 DEF m
  <2>3. NumMod * (q + v) = NumMod * q + NumMod * v /\ NumMod * q \in Int /\ NumMod * v \in Int
    BY WindowSizes
  <2>4. out_sequence_number' \in Int
    BY <1>4, WindowSizes DEF WindowTypes
  <2>5. base' + R!WinLen + lead' = out_sequence_number' + NumMod * (q + v) /\ q + v \in Int
    BY <1>0, <1>1, <2>1, <2>2, <2>3, <2>4, WindowSizes
  <2> QED
    BY <2>5 DEF NumbersAgree, R!WinLen
<1>6. BitsAgree'
  <2> SUFFICES ASSUME NEW o \in 0..(R!WinLen - 1), Of(o)' >= 1
               PROVE  R!Test(bits, o) <=> Of(o)' <= Len(taken') /\ taken'[Of(o)']
    BY <1>0 DEF BitsAgree, R!Test, R!WinLen
  <2>1. Of(o) \in Int /\ Of(o)' \in Int /\ Of(o)' = Of(o) - d
    BY <1>0, <1>1, <1>2, <1>3, WindowSizes DEF Of, R!WinLen
  <2>2. R!Test(bits, o) <=> Of(o) <= Len(taken) /\ taken[Of(o)]
    BY <1>2, <2>1 DEF WinInv, BitsAgree
  <2> DEFINE j == Of(o)'
  <2>3. j \in Int /\ Of(o) = j + d /\ j >= 1
    BY <1>2, <2>1
  <2> HIDE DEF j
  <2>4. R!Test(bits, o) <=> j <= Len(taken') /\ taken'[j]
    <3>1. CASE j > Len(taken')
      BY <1>1, <1>2, <1>3, <2>2, <2>3, <3>1
    <3>2. CASE j = Len(taken')
      BY <1>1, <1>2, <1>3, <2>2, <2>3, <3>2
    <3>3. CASE j < Len(taken')
      <4>1. j + d <= Len(taken) /\ j \in 1..(Len(taken') - 1)
        BY <1>1, <1>2, <1>3, <2>3, <3>3
      <4>2. taken'[j] = taken[j + d]
        BY <1>2, <4>1
      <4> QED
        BY <1>3, <2>2, <2>3, <3>3, <4>1, <4>2
    <3> QED
      BY <1>3, <2>3, <3>1, <3>2, <3>3
  <2> QED
    BY <2>4 DEF j
<1>7. NoneAhead'
  <2> SUFFICES ASSUME NEW j \in 1..Len(taken'), R!Position(j)' >= 0
               PROVE  ~ taken'[j]
    BY <1>2 DEF NoneAhead, R!Sent
  <2>1. CASE j = Len(taken')
    BY <1>2, <2>1
  <2>2. CASE j # Len(taken')
    <3>1. j + d \in 1..Len(taken) /\ taken'[j] = taken[j + d]
      <4>1. j \in 1..(Len(taken') - 1) /\ j + d \in 1..Len(taken)
        BY <1>1, <1>2, <1>3, <2>2
      <4> QED
        BY <1>2, <4>1
    <3>2. R!Position(j)' = R!Position(j + d)
      <4>1. j \in Int /\ d \in Int /\ Len(taken') = Len(taken) + 1 - d /\ lead' = lead + 1
        BY <1>0, <1>2, <1>3
      <4> QED
        BY <1>1, <4>1 DEF R!Position
    <3>3. j + d \in R!Sent
      BY <1>1, <3>1 DEF R!Sent
    <3> QED
      BY <3>1, <3>2, <3>3 DEF WinInv, NoneAhead
  <2> QED
    BY <2>1, <2>2
<1> QED
  BY <1>4, <1>5, <1>6, <1>7 DEF WinInv

\* A packet that is taken within the window sets its bit.
LEMMA WinInside ==
  ASSUME WinInv, NEW k \in R!Sent, R!Inbound(k), R!Offset(R!Number(k)) < R!WinLen
  PROVE  WinInv'
<1> DEFINE off == R!Offset(R!Number(k))
<1>1. /\ base \in 0..(NumMod - 1) /\ out_sequence_number \in 0..(NumMod - 1) /\ bits \in BitSets
      /\ taken \in Seq(BOOLEAN) /\ Len(taken) \in Nat /\ Len(taken) <= MaxLate
      /\ lead \in Int /\ -R!WinLen <= lead /\ lead <= MaxLead
  BY DEF WinInv, WindowTypes
<1>2. /\ k \in 1..Len(taken) /\ R!Position(k) \in Int
      /\ R!Position(k) < 0 /\ R!Position(k) >= -R!WinLen /\ off = R!Position(k) + R!WinLen
  BY PlaceOf, WindowSizes
<1>3. /\ base' = base /\ bits' = R!Set(bits, off) /\ out_sequence_number' = out_sequence_number
      /\ taken' = [taken EXCEPT ![k] = TRUE] /\ lead' = lead
  BY <1>2 DEF R!Inbound
<1>4. off \in 0..(R!WinLen - 1) /\ Of(off) = k
  BY <1>2, OfPlace
<1> HIDE DEF off
<1>5. /\ taken' \in Seq(BOOLEAN) /\ Len(taken') = Len(taken)
      /\ taken'[k]
      /\ \A j \in 1..Len(taken) : j # k => taken'[j] = taken[j]
  BY <1>1, <1>2, <1>3, Takes
<1>6. /\ bits' \in BitSets
      /\ \A o \in 0..(R!WinLen - 1) : R!Test(bits', o) <=> o = off \/ R!Test(bits, o)
  BY <1>1, <1>3, <1>4, TestSet
<1>7. WindowTypes'
  BY <1>1, <1>3, <1>5, <1>6 DEF WindowTypes, R!WinLen, BitSets, R!Units
<1>8. NumbersAgree'
  BY <1>3 DEF WinInv, NumbersAgree, R!WinLen
<1>9. BitsAgree'
  <2> SUFFICES ASSUME NEW o \in 0..(R!WinLen - 1), Of(o) >= 1
               PROVE  R!Test(bits', o) <=> Of(o) <= Len(taken') /\ taken'[Of(o)]
    BY <1>3, <1>5 DEF BitsAgree, Of, R!Test, R!WinLen
  <2>1. R!Test(bits, o) <=> Of(o) <= Len(taken) /\ taken[Of(o)]
    BY DEF WinInv, BitsAgree
  <2>2. Of(o) \in Int /\ (Of(o) = k <=> o = off)
    BY <1>1, <1>4, WindowSizes DEF Of
  <2>3. CASE o = off
    BY <1>2, <1>5, <1>6, <2>2, <2>3
  <2>4. CASE o # off
    <3>1. R!Test(bits', o) <=> R!Test(bits, o)
      BY <1>6, <2>4
    <3>2. ASSUME Of(o) <= Len(taken) PROVE taken'[Of(o)] = taken[Of(o)]
      BY <1>1, <1>5, <2>2, <2>4, <3>2
    <3> QED
      BY <1>5, <2>1, <3>1, <3>2
  <2> QED
    BY <2>3, <2>4
<1>10. NoneAhead'
  <2> SUFFICES ASSUME NEW j \in 1..Len(taken), R!Position(j) >= 0
               PROVE  ~ taken'[j]
    BY <1>3, <1>5 DEF NoneAhead, R!Sent, R!Position
  <2>1. j # k
    BY <1>2
  <2>2. ~ taken[j]
    BY <1>1 DEF WinInv, NoneAhead, R!Sent
  <2> QED
    BY <1>5, <2>1, <2>2
<1> QED
  BY <1>7, <1>8, <1>9, <1>10 DEF WinInv

\* A packet that is taken past its end moves the window up, with it at the end.
LEMMA WinPast ==
  ASSUME WinInv, NEW k \in R!Sent, R!Inbound(k), ~ (R!Offset(R!Number(k)) < R!WinLen)
  PROVE  WinInv'
<1> DEFINE sh == R!Offset(R!Number(k)) - R!WinLen + 1
<1>1. /\ base \in 0..(NumMod - 1) /\ out_sequence_number \in 0..(NumMod - 1) /\ bits \in BitSets
      /\ taken \in Seq(BOOLEAN) /\ Len(taken) \in Nat /\ Len(taken) <= MaxLate
      /\ lead \in Int /\ -R!WinLen <= lead /\ lead <= MaxLead
  BY DEF WinInv, WindowTypes
<1>2. ~ (R!Offset(R!Number(k)) >= R!WinLen + ForeLen)
  BY DEF R!Inbound, R!testReplay
<1>3. /\ k \in 1..Len(taken) /\ R!Position(k) \in Int
      /\ R!Position(k) = lead - 1 - Len(taken) + k
      /\ R!Position(k) >= 0 /\ sh = R!Position(k) + 1
  BY <1>2, PlaceOf, WindowSizes
<1>4. /\ base' = (base + sh) % NumMod /\ bits' = R!Set(R!Shifted(bits, sh), R!WinLen - 1)
      /\ out_sequence_number' = out_sequence_number
      /\ taken' = [taken EXCEPT ![k] = TRUE] /\ lead' = lead - R!Position(k) - 1
  BY <1>3 DEF R!Inbound
<1> HIDE DEF sh
<1>5. sh \in Nat /\ sh >= 1 /\ lead' = lead - sh /\ lead' = Len(taken) - k
  BY <1>1, <1>3, <1>4
<1>6. /\ taken' \in Seq(BOOLEAN) /\ Len(taken') = Len(taken)
      /\ taken'[k]
      /\ \A j \in 1..Len(taken) : j # k => taken'[j] = taken[j]
  BY <1>1, <1>3, <1>4, Takes
<1>7. /\ bits' \in BitSets
      /\ \A o \in 0..(R!WinLen - 1) :
           R!Test(bits', o) <=> o = R!WinLen - 1 \/ (o + sh < R!WinLen /\ R!Test(bits, o + sh))
  <2>1. /\ R!Shifted(bits, sh) \in BitSets
        /\ \A o \in 0..(R!WinLen - 1) :
             R!Test(R!Shifted(bits, sh), o) <=> o + sh < R!WinLen /\ R!Test(bits, o + sh)
    BY <1>1, <1>5, TestShifted
  <2>2. R!WinLen - 1 \in 0..(R!WinLen - 1)
    BY WindowSizes
  <2> QED
    BY <1>4, <2>1, <2>2, TestSet
<1>8. WindowTypes'
  <2>1. base' \in 0..(NumMod - 1)
    <3> DEFINE m == base + sh
    <3>1. m \in Int /\ base' = m % NumMod
      BY <1>1, <1>4, <1>5, WindowSizes
    <3> HIDE DEF m
    <3> QED
      BY <3>1, Residue
  <2>2. lead' \in Int /\ -R!WinLen <= lead' /\ lead' <= MaxLead
    BY <1>1, <1>3, <1>5, WindowSizes
  <2> QED
    BY <1>1, <1>4, <1>6, <1>7, <2>1, <2>2 DEF WindowTypes, R!WinLen, BitSets, R!Units
<1>9. NumbersAgree'
  <2>1. PICK q \in Int : base + R!WinLen + lead = out_sequence_number + NumMod * q
    BY DEF WinInv, NumbersAgree
  <2>2. PICK v \in Int : base + sh = NumMod * v + base'
    <3> DEFINE m == base + sh
    <3>1. m \in Int /\ base' = m % NumMod
      BY <1>1, <1>4, <1>5, WindowSizes
    <3> HIDE DEF m
    <3>2. \E v \in Int : m = NumMod * v + base'
      BY <3>1, Residue
    <3> QED
      BY <3>2 DEF m
  <2>3. NumMod * (q - v) = NumMod * q - NumMod * v /\ NumMod * q \in Int /\ NumMod * v \in Int
    BY WindowSizes
  <2>4. PICK b \in Int : b = base'
    BY <1>8, WindowSizes DEF WindowTypes
  <2>5. base + sh = NumMod * v + b
    BY <2>2, <2>4
  <2>6. b + R!WinLen + (lead - sh) = out_sequence_number + NumMod * (q - v)
    <3>1. base \in Int /\ R!WinLen \in Int /\ out_sequence_number \in Int /\ lead \in Int /\ sh \in Int
      BY <1>1, <1>5, WindowSizes
    <3> QED
      BY <2>1, <2>3, <2>4, <2>5, <3>1
  <2>7. base' + R!WinLen + lead' = out_sequence_number' + NumMod * (q - v) /\ q - v \in Int
    BY <1>4, <1>5, <2>4, <2>6
  <2> QED
    BY <2>7 DEF NumbersAgree, R!WinLen
<1>10. BitsAgree'
  <2> SUFFICES ASSUME NEW o \in 0..(R!WinLen - 1), Of(o)' >= 1
               PROVE  R!Test(bits', o) <=> Of(o)' <= Len(taken') /\ taken'[Of(o)']
    BY DEF BitsAgree, R!Test, R!WinLen
  <2>1. Of(o)' \in Int /\ Of(o)' = o - R!WinLen - lead + sh + 1 + Len(taken)
    BY <1>1, <1>5, <1>6, WindowSizes DEF Of, R!WinLen
  <2> DEFINE j == Of(o)'
  <2>2. j \in Int /\ j >= 1 /\ j = o - R!WinLen - lead + sh + 1 + Len(taken)
    BY <2>1
  <2>3. j = k <=> o = R!WinLen - 1
    BY <1>1, <1>3, <1>5, <2>2, WindowSizes
  <2> HIDE DEF j
  <2>4. R!Test(bits', o) <=> j <= Len(taken') /\ taken'[j]
    <3>1. CASE o = R!WinLen - 1
      BY <1>3, <1>6, <1>7, <2>3, <3>1
    <3>2. CASE o # R!WinLen - 1 /\ o + sh < R!WinLen
      <4>1. o + sh \in 0..(R!WinLen - 1) /\ Of(o + sh) = j
        BY <1>1, <1>5, <2>2, <3>2, WindowSizes DEF Of
      <4>2. R!Test(bits, o + sh) <=> j <= Len(taken) /\ taken[j]
        BY <2>2, <4>1 DEF WinInv, BitsAgree
      <4>3. R!Test(bits', o) <=> R!Test(bits, o + sh)
        BY <1>7, <3>2
      <4>4. ASSUME j <= Len(taken) PROVE taken'[j] = taken[j]
        BY <1>1, <1>6, <2>2, <2>3, <3>2, <4>4
      <4> QED
        BY <1>6, <4>2, <4>3, <4>4
    <3>3. CASE o # R!WinLen - 1 /\ ~ (o + sh < R!WinLen)
      <4>1. ~ R!Test(bits', o)
        BY <1>7, <3>3
      <4>2. ASSUME j <= Len(taken) PROVE ~ taken'[j]
        <5>1. j \in 1..Len(taken) /\ j # k
          BY <1>1, <2>2, <2>3, <3>3, <4>2
        <5>2. R!Position(j) >= 0
          BY <1>1, <1>5, <2>2, <3>3, WindowSizes DEF R!Position
        <5>3. ~ taken[j]
          BY <1>1, <5>1, <5>2 DEF WinInv, NoneAhead, R!Sent
        <5> QED
          BY <1>6, <5>1, <5>3
      <4> QED
        BY <1>6, <4>1, <4>2
    <3> QED
      BY <3>1, <3>2, <3>3
  <2> QED
    BY <2>4 DEF j
<1>11. NoneAhead'
  <2> SUFFICES ASSUME NEW j \in 1..Len(taken), R!Position(j)' >= 0
               PROVE  ~ taken'[j]
    BY <1>6 DEF NoneAhead, R!Sent
  <2>1. R!Position(j) >= sh /\ R!Position(j) \in Int
    BY <1>1, <1>5, <1>6 DEF R!Position
  <2>2. j # k
    BY <1>3, <2>1
  <2>3. ~ taken[j]
    BY <1>1, <1>5, <2>1 DEF WinInv, NoneAhead, R!Sent
  <2> QED
    BY <1>6, <2>2, <2>3
<1> QED
  BY <1>8, <1>9, <1>10, <1>11 DEF WinInv

\* AntiReplay!WindowExact, of any window, any lead and any wrap-around the assumption
\* allows: testReplay and add take each packet once, and refuse one only for being
\* taken already, too old or too far ahead.
THEOREM EachPacketOnce == R!Spec => []WindowExact
<1>1. R!Init => WinInv
  BY WinInit
<1>2. WinInv /\ [R!Next]_(R!vars) => WinInv'
  <2> SUFFICES ASSUME WinInv, [R!Next]_(R!vars) PROVE WinInv'
    OBVIOUS
  <2>1. CASE R!Outbound
    BY <2>1, WinOutbound
  <2>2. CASE \E k \in R!Sent : R!Inbound(k)
    BY <2>2, WinInside, WinPast
  <2>3. CASE UNCHANGED R!vars
    BY <2>3 DEF R!vars, WinInv, WindowTypes, NumbersAgree, BitsAgree, NoneAhead, Of,
                R!Test, R!WinLen, R!Sent, R!Position, BitSets, R!Units
  <2> QED
    BY <2>1, <2>2, <2>3 DEF R!Next
<1>3. WinInv => WindowExact
  BY WindowIsExact
<1> QED
  BY <1>1, <1>2, <1>3, PTL DEF R!Spec
-----------------------------------------------------------------------------
\* The handshake.
States   == {"Started", "Done", "ClientError", "ServerError", "Timeout"}
Clients  == [state : States, step : Nat, cn : Nat, key : {None} \cup H!Pairs, cur_count : Nat,
             skey : Seq(H!Pairs), send : H!Packets, retry : Int]
Openings == [key : H!Pairs, skey : Seq(H!Pairs)]

\* The session key when the part of count n is the last that there is: one part of
\* each count, the server's and the client's together.
Parts(n) == [j \in 1..(MaxCount - n) |-> <<MaxCount + 1 - j, MaxCount + 1 - j>>]

HandshakeTypes ==
  /\ runs \in Nat /\ draws \in Nat
  /\ client \in Clients /\ proc \in {None} \cup H!Procs
  /\ toServer \subseteq H!Packets /\ toClient \subseteq H!Packets
  /\ opened \in Seq(Openings)

\* A client keeps the key that it has made with the first nonce it got, and has
\* a session key of all parts when it waits for Done.
ClientNow ==
  /\ client.cn = runs /\ client.send \in toServer
  /\ client.step \in {2, 4, 6, 8, 10, 11}
  /\ client.step # 2 => client.key \in H!Pairs /\ client.key[1] = client.cn /\ client.key[2] <= draws
  /\ client.step < 10 => client.skey = << >>
  /\ client.step >= 10 => client.cur_count <= MaxCount /\ client.skey = Parts(client.cur_count)
  /\ client.step = 10 => client.cur_count > 0
  /\ client.step = 11 => client.cur_count = 0
  /\ client.state = "Done" => \E i \in DOMAIN opened : opened[i] = [key |-> client.key, skey |-> client.skey]

\* The Proc is the one of the last draw, with which nothing is opened before its
\* last step.
ServerNow ==
  proc # None =>
    /\ proc.sn = draws /\ proc.send \in toClient /\ proc.step \in {3, 5, 7, 9, 12}
    /\ proc.step # 3 => proc.key \in H!Pairs /\ proc.key[2] = draws
    /\ proc.step \in {7, 9} => proc.final = None
    /\ proc.step = 9 => proc.cur_count \in 1..MaxCount /\ proc.skey = Parts(proc.cur_count)
    /\ proc.step # 12 => \A i \in DOMAIN opened : opened[i].key[2] < draws
    /\ proc.final # None => proc.final \in toClient /\ proc.final.key \in H!Pairs /\ proc.final = H!Done(proc.final.key)

\* A client uses one key only, in all that it ever sends.
ToServerSays ==
  \A m \in toServer : m.key \in H!Pairs =>
    /\ m.key[1] <= runs /\ m.key[2] <= draws
    /\ m.key[1] = client.cn => client.step # 2 /\ m.key = client.key
    /\ \A o \in toServer : o.key \in H!Pairs /\ o.key[1] = m.key[1] => o.key = m.key

ToClientSays ==
  \A m \in toClient :
    /\ m.type = "ServerNonce" => m.n <= draws
    /\ m.type = "FirstServerSKey" => m.n = MaxCount
    /\ m.type = "Done" => \E i \in DOMAIN opened : opened[i] = [key |-> m.key, skey |-> Parts(0)]

\* A draw opens one endpoint at most, for a client that has asked for it.
OpenedOnce ==
  \A i \in DOMAIN opened :
    /\ opened[i].key[2] <= draws
    /\ \E m \in toServer : m.key = opened[i].key
    /\ \A j \in DOMAIN opened : j # i => opened[j].key[2] # opened[i].key[2]

\* When the endpoint of the present client was opened, the draw of its key was the
\* last one; the clients before it have none that is newer.
OldClients ==
  \A i \in DOMAIN opened, m \in toServer :
    opened[i].key[1] = client.cn /\ m.key \in H!Pairs /\ m.key[1] # client.cn
      => m.key[2] <= opened[i].key[2]

DoneKept ==
  \A i \in DOMAIN opened :
    opened[i].key[1] = client.cn
      => opened[i].key \in forgotten \/ (proc # None /\ proc.final = H!Done(opened[i].key))

HandshakeInv == /\ HandshakeTypes /\ ClientNow /\ ServerNow /\ ToServerSays /\ ToClientSays
                /\ OpenedOnce /\ OldClients /\ DoneKept

LEMMA ClearPacket ==
  ASSUME NEW type \in H!PacketTypes, NEW n \in Nat
  PROVE  /\ H!Clear(type, n) \in H!Packets
         /\ H!Clear(type, n).type = type /\ H!Clear(type, n).key \notin H!Pairs /\ H!Clear(type, n).n = n
BY HandshakeAssumption DEF H!Clear, H!Packets

LEMMA SecretPacket ==
  ASSUME NEW type \in H!PacketTypes, NEW key \in H!Pairs, NEW n \in Nat
  PROVE  /\ H!Secret(type, key, n) \in H!Packets /\ H!Secret(type, key, n) # None
         /\ H!Secret(type, key, n).type = type /\ H!Secret(type, key, n).key = key
         /\ H!Secret(type, key, n).n = n
BY HandshakeAssumption DEF H!Secret, H!Packets

\* Each part is of the count that was asked for.
LEMMA PartsGrow ==
  ASSUME NEW n \in 1..MaxCount
  PROVE  /\ Parts(n) \in Seq(H!Pairs) /\ Append(Parts(n), <<n, n>>) = Parts(n - 1)
         /\ Parts(n - 1) \in Seq(H!Pairs) /\ Parts(MaxCount) = << >>
<1>0. MaxCount \in Nat \ {0}
  BY HandshakeAssumption
<1>1. Parts(n) \in Seq(H!Pairs) /\ Len(Parts(n)) = MaxCount - n
  BY <1>0 DEF Parts, H!Pairs
<1>2. Parts(n - 1) \in Seq(H!Pairs) /\ Len(Parts(n - 1)) = MaxCount - n + 1
  BY <1>0 DEF Parts, H!Pairs
<1>3. <<n, n>> \in H!Pairs
  BY <1>0 DEF H!Pairs
<1>4. ASSUME NEW j \in 1..(MaxCount - n + 1) PROVE Append(Parts(n), <<n, n>>)[j] = Parts(n - 1)[j]
  <2>1. CASE j = MaxCount - n + 1
    BY <1>0, <1>1, <1>3, <2>1 DEF Parts
  <2>2. CASE j < MaxCount - n + 1
    BY <1>0, <1>1, <1>3, <2>2 DEF Parts
  <2>3. j = MaxCount - n + 1 \/ j < MaxCount - n + 1
    BY <1>0
  <2> QED
    BY <2>1, <2>2, <2>3
<1>5. Append(Parts(n), <<n, n>>) \in Seq(H!Pairs) /\ Len(Append(Parts(n), <<n, n>>)) = MaxCount - n + 1
  BY <1>0, <1>1, <1>3
<1>6. Append(Parts(n), <<n, n>>) = Parts(n - 1)
  BY <1>0, <1>2, <1>4, <1>5, SeqEqual
<1>7. Parts(MaxCount) = << >>
  BY <1>0 DEF Parts
<1> QED
  BY <1>1, <1>2, <1>6, <1>7

\* The client's record after a step.
LEMMA SendsClient ==
  ASSUME NEW c \in Clients, NEW step \in Nat, NEW m \in H!Packets, NEW d, d = H!Sends(c, step, m)
  PROVE  /\ d \in Clients /\ d.state = c.state /\ d.step = step /\ d.cn = c.cn /\ d.key = c.key
         /\ d.cur_count = c.cur_count /\ d.skey = c.skey /\ d.send = m
<1>1. d = [state |-> c.state, step |-> step, cn |-> c.cn, key |-> c.key, cur_count |-> c.cur_count,
           skey |-> c.skey, send |-> m, retry |-> MaxRetry]
  BY DEF Clients, H!Sends
<1> QED
  BY <1>1, HandshakeAssumption DEF Clients

LEMMA EndedClient ==
  ASSUME NEW c \in Clients, NEW state \in States, NEW d, d = H!Ended(c, state)
  PROVE  /\ d \in Clients /\ d.state = state /\ d.step = c.step /\ d.cn = c.cn /\ d.key = c.key
         /\ d.cur_count = c.cur_count /\ d.skey = c.skey /\ d.send = c.send
<1>1. d = [state |-> state, step |-> c.step, cn |-> c.cn, key |-> c.key, cur_count |-> c.cur_count,
           skey |-> c.skey, send |-> c.send, retry |-> 0]
  BY DEF Clients, H!Ended
<1> QED
  BY <1>1 DEF Clients

\* The Proc after an answer, and with another part of the session key.
Answered(p, step, m) == [p EXCEPT !.step = step, !.send = m, !.retry = MaxRetry]
WithParts(p, n, y)   == [p EXCEPT !.cur_count = n, !.skey = y]

LEMMA AnswersProc ==
  ASSUME NEW p \in H!Procs, NEW step \in Nat, NEW m \in H!Packets, NEW q,
         q = Answered(p, step, m)
  PROVE  /\ q \in H!Procs /\ q # None /\ q.step = step /\ q.sn = p.sn /\ q.key = p.key
         /\ q.cur_count = p.cur_count /\ q.skey = p.skey /\ q.send = m /\ q.final = p.final
<1>1. q = [step |-> step, sn |-> p.sn, key |-> p.key, cur_count |-> p.cur_count, skey |-> p.skey,
           send |-> m, final |-> p.final, retry |-> MaxRetry]
  BY DEF H!Procs, Answered
<1>2. q \in H!Procs
  BY <1>1, HandshakeAssumption DEF H!Procs
<1> QED
  BY <1>1, <1>2, HandshakeAssumption

LEMMA PartsProc ==
  ASSUME NEW p \in H!Procs, NEW n \in Nat, NEW y \in Seq(H!Pairs), NEW q,
         q = WithParts(p, n, y)
  PROVE  /\ q \in H!Procs /\ q.step = p.step /\ q.sn = p.sn /\ q.key = p.key
         /\ q.cur_count = n /\ q.skey = y /\ q.send = p.send /\ q.final = p.final
<1>1. q = [step |-> p.step, sn |-> p.sn, key |-> p.key, cur_count |-> n, skey |-> y,
           send |-> p.send, final |-> p.final, retry |-> p.retry]
  BY DEF H!Procs, WithParts
<1> QED
  BY <1>1 DEF H!Procs

\* What a packet may make of the client c.
Turns(c, d) ==
  /\ d \in Clients /\ d.cn = c.cn
  /\ d.step \in {2, 4, 6, 8, 10, 11}
  /\ c.step # 2 => d.step # 2 /\ d.key = c.key
  /\ d.step # 2 => d.key \in H!Pairs /\ d.key[1] = d.cn /\ d.key[2] <= draws
  /\ d.step < 10 => d.skey = << >>
  /\ d.step >= 10 => d.cur_count <= MaxCount /\ d.skey = Parts(d.cur_count)
  /\ d.step = 10 => d.cur_count > 0
  /\ d.step = 11 => d.cur_count = 0
  /\ d.state = "Done" => \E i \in DOMAIN opened : opened[i] = [key |-> d.key, skey |-> d.skey]
  /\ d.state \in {"Started", "ClientError"} =>
       d.send \in H!Packets /\ (d.send.key \in H!Pairs => c.step # 2 /\ d.send.key = c.key)
  /\ d.state \notin {"Started", "ClientError"} => d.send = c.send

LEMMA EndedTurns ==
  ASSUME HandshakeInv, client.state = "Started", NEW state \in {"ServerError", "Timeout"}
  PROVE  Turns(client, H!Ended(client, state))
<1> DEFINE d == H!Ended(client, state)
<1>1. client \in Clients /\ ClientNow
  BY DEF HandshakeInv, HandshakeTypes
<1>2. /\ d \in Clients /\ d.state = state /\ d.step = client.step /\ d.cn = client.cn /\ d.key = client.key
      /\ d.cur_count = client.cur_count /\ d.skey = client.skey /\ d.send = client.send
  BY <1>1, EndedClient DEF States
<1> HIDE DEF d
<1>3. Turns(client, d)
  BY <1>1, <1>2 DEF Turns, ClientNow
<1> QED
  BY <1>3 DEF d

LEMMA FailedTurns ==
  ASSUME HandshakeInv, client.state = "Started", NEW m \in H!Packets,
         m.key \in H!Pairs => client.step # 2 /\ m.key = client.key
  PROVE  Turns(client, H!Failed(client, m))
<1> DEFINE c == H!Ended(client, "ClientError")
           d == H!Failed(client, m)
<1>1. client \in Clients /\ ClientNow
  BY DEF HandshakeInv, HandshakeTypes
<1>2. /\ c \in Clients /\ c.state = "ClientError" /\ c.step = client.step /\ c.cn = client.cn
      /\ c.key = client.key /\ c.cur_count = client.cur_count /\ c.skey = client.skey
  BY <1>1, EndedClient DEF States
<1>3. d = [c EXCEPT !.send = m]
  BY DEF H!Failed
<1> HIDE DEF c, d
<1>4. /\ d \in Clients /\ d.state = c.state /\ d.step = c.step /\ d.cn = c.cn /\ d.key = c.key
      /\ d.cur_count = c.cur_count /\ d.skey = c.skey /\ d.send = m
  BY <1>2, <1>3 DEF Clients
<1>5. Turns(client, d)
  BY <1>1, <1>2, <1>4 DEF Turns, ClientNow
<1> QED
  BY <1>5 DEF d

\* A step that is answered with the client's key, the parts of the session key excepted.
LEMMA SendsTurns ==
  ASSUME HandshakeInv, client.state = "Started", client.step \in {4, 6}, NEW step \in {6, 8},
         NEW m \in H!Packets, m.key = client.key
  PROVE  Turns(client, H!Sends(client, step, m))
<1> DEFINE d == H!Sends(client, step, m)
<1>1. client \in Clients /\ ClientNow
  BY DEF HandshakeInv, HandshakeTypes
<1>2. /\ d \in Clients /\ d.state = client.state /\ d.step = step /\ d.cn = client.cn /\ d.key = client.key
      /\ d.cur_count = client.cur_count /\ d.skey = client.skey /\ d.send = m
  BY <1>1, SendsClient
<1> HIDE DEF d
<1>3. Turns(client, d)
  BY <1>1, <1>2 DEF Turns, ClientNow
<1> QED
  BY <1>3 DEF d

LEMMA SKeyTurns ==
  ASSUME HandshakeInv, client.state = "Started", NEW n \in 1..MaxCount,
         \/ client.step = 8 /\ n = MaxCount
         \/ client.step = 10 /\ n = client.cur_count
  PROVE  Turns(client, H!SendSKey(client, n, n))
<1>0. MaxCount \in Nat \ {0} /\ n \in Nat /\ n >= 1 /\ n <= MaxCount
  BY HandshakeAssumption
<1>1. client \in Clients /\ ClientNow
  BY DEF HandshakeInv, HandshakeTypes
<1> DEFINE step == IF n = 1 THEN 11 ELSE 10
           m == H!Secret("ClientSKey", client.key, n)
           c == H!Sends(client, step, m)
           d == H!SendSKey(client, n, n)
<1>2. client.key \in H!Pairs /\ client.key[1] = client.cn /\ client.key[2] <= draws
  BY <1>1 DEF ClientNow
<1>3. m \in H!Packets /\ m.key = client.key
  BY <1>0, <1>2, SecretPacket DEF H!PacketTypes
<1>4. client.skey = Parts(n)
  <2>1. CASE client.step = 8 /\ n = MaxCount
    <3>1. client.skey = << >>
      BY <1>1, <2>1 DEF ClientNow
    <3> QED
      BY <2>1, <3>1, PartsGrow
  <2>2. CASE client.step = 10 /\ n = client.cur_count
    BY <1>1, <2>2 DEF ClientNow
  <2> QED
    BY <2>1, <2>2
<1>5. d = [c EXCEPT !.cur_count = n - 1, !.skey = Append(@, <<n, n>>)]
  BY DEF H!SendSKey
<1>6. step \in Nat /\ step = IF n = 1 THEN 11 ELSE 10
  BY <1>0
<1> HIDE DEF step, m, d
<1>7. /\ c \in Clients /\ c.state = client.state /\ c.step = step /\ c.cn = client.cn /\ c.key = client.key
      /\ c.skey = client.skey /\ c.send = m
  BY <1>1, <1>3, <1>6, SendsClient
<1> HIDE DEF c
<1>8. Append(c.skey, <<n, n>>) = Parts(n - 1) /\ Parts(n - 1) \in Seq(H!Pairs)
  BY <1>4, <1>7, PartsGrow
<1>9. d = [state |-> c.state, step |-> c.step, cn |-> c.cn, key |-> c.key, cur_count |-> n - 1,
           skey |-> Parts(n - 1), send |-> c.send, retry |-> c.retry]
  BY <1>5, <1>7, <1>8 DEF Clients
<1>10. /\ d \in Clients /\ d.state = "Started" /\ d.step = step /\ d.cn = client.cn /\ d.key = client.key
       /\ d.cur_count = n - 1 /\ d.skey = Parts(n - 1) /\ d.send = m
  BY <1>0, <1>7, <1>8, <1>9 DEF Clients
<1>11. Turns(client, d)
  BY <1>0, <1>1, <1>2, <1>3, <1>6, <1>10 DEF Turns, ClientNow
<1> QED
  BY <1>11 DEF d

LEMMA Process2Turns ==
  ASSUME HandshakeInv, client.state = "Started", client.step = 2,
         NEW m \in toClient, NEW d \in H!Process2(client, m)
  PROVE  Turns(client, d)
<1>1. client \in Clients /\ ClientNow /\ m \in H!Packets
  BY DEF HandshakeInv, HandshakeTypes
<1>2. CASE m.type \in {"Exhausted", "NoAlgo"}
  <2>1. d = H!Ended(client, "ServerError")
    BY <1>2 DEF H!Process2
  <2> QED
    BY <2>1, EndedTurns
<1>3. CASE m.type = "ServerNonce" /\ d = H!Failed(client, H!Clear("Failed", 0))
  <2>1. H!Clear("Failed", 0) \in H!Packets /\ H!Clear("Failed", 0).key \notin H!Pairs
    BY ClearPacket DEF H!PacketTypes
  <2> QED
    BY <1>3, <2>1, FailedTurns
<1>4. CASE /\ m.type = "ServerNonce"
           /\ d = H!Sends([client EXCEPT !.key = H!Key(client.cn, m.n)], 4, H!Clear("ClientNonce", client.cn))
  <2> DEFINE c == [client EXCEPT !.key = H!Key(client.cn, m.n)]
             o == H!Clear("ClientNonce", client.cn)
  <2>1. m.n \in Nat /\ m.n <= draws
    BY <1>1, <1>4 DEF H!Packets, HandshakeInv, ToClientSays
  <2>2. H!Key(client.cn, m.n) \in H!Pairs /\ H!Key(client.cn, m.n)[1] = client.cn /\ H!Key(client.cn, m.n)[2] = m.n
    BY <1>1, <2>1 DEF H!Key, H!Pairs, Clients
  <2>3. /\ c \in Clients /\ c.state = client.state /\ c.cn = client.cn /\ c.key = H!Key(client.cn, m.n)
        /\ c.skey = client.skey
    BY <1>1, <2>2 DEF Clients
  <2>4. o \in H!Packets /\ o.key \notin H!Pairs
    BY <1>1, ClearPacket DEF Clients, H!PacketTypes
  <2>5. d = H!Sends(c, 4, o)
    BY <1>4
  <2> HIDE DEF c, o
  <2>6. /\ d \in Clients /\ d.state = c.state /\ d.step = 4 /\ d.cn = c.cn /\ d.key = c.key
        /\ d.skey = c.skey /\ d.send = o
    <3>1. c \in Clients /\ o \in H!Packets /\ 4 \in Nat
      BY <2>3, <2>4
    <3> QED
      BY <2>5, <3>1, SendsClient
  <2> QED
    BY <1>1, <2>1, <2>2, <2>3, <2>4, <2>6 DEF Turns, ClientNow
<1> QED
  BY <1>2, <1>3, <1>4 DEF H!Process2

LEMMA ProcessTurns ==
  ASSUME HandshakeInv, client.state = "Started", client.step # 2,
         NEW m \in toClient, m.key = client.key, NEW d \in H!Process(client, m)
  PROVE  Turns(client, d)
<1>1. client \in Clients /\ ClientNow /\ m \in H!Packets /\ client.key \in H!Pairs
  BY DEF HandshakeInv, HandshakeTypes, ClientNow
<1>2. ASSUME NEW type \in H!PacketTypes
      PROVE  H!Secret(type, client.key, 0) \in H!Packets /\ H!Secret(type, client.key, 0).key = client.key
  BY <1>1, SecretPacket
<1>3. CASE client.step = 4 /\ m.type = "ServerAck"
  <2>1. d = H!Sends(client, 6, H!Secret("ClientAck", client.key, 0))
    BY <1>3 DEF H!Process
  <2> QED
    BY <1>2, <1>3, <2>1, SendsTurns DEF H!PacketTypes
<1>4. CASE client.step = 6 /\ m.type = "ServerParam"
  <2>1. d = H!Sends(client, 8, H!Secret("ClientParam", client.key, 0))
    BY <1>4 DEF H!Process
  <2> QED
    BY <1>2, <1>4, <2>1, SendsTurns DEF H!PacketTypes
<1>5. CASE client.step = 8 /\ m.type = "FirstServerSKey"
  <2>1. d \in {H!SendSKey(client, m.n, m.n), H!Failed(client, H!Secret("ClientError", client.key, 0))}
    BY <1>5 DEF H!Process
  <2>2. m.n = MaxCount /\ m.n \in 1..MaxCount
    BY <1>5, HandshakeAssumption DEF HandshakeInv, ToClientSays
  <2>3. Turns(client, H!SendSKey(client, m.n, m.n))
    BY <1>5, <2>2, SKeyTurns
  <2>4. Turns(client, H!Failed(client, H!Secret("ClientError", client.key, 0)))
    BY <1>2, <1>5, FailedTurns DEF H!PacketTypes
  <2> QED
    BY <2>1, <2>3, <2>4
<1>6. CASE client.step = 10 /\ m.type = "ServerSKey" /\ m.n = client.cur_count
  <2>1. d = H!SendSKey(client, m.n, m.n)
    BY <1>6 DEF H!Process
  <2>2. m.n \in 1..MaxCount
    BY <1>1, <1>6, HandshakeAssumption DEF ClientNow, Clients
  <2> QED
    BY <1>6, <2>1, <2>2, SKeyTurns
<1>7. CASE client.step = 11 /\ m.type = "Done"
  <2>1. d = H!Ended(client, "Done")
    BY <1>7 DEF H!Process
  <2>2. /\ d \in Clients /\ d.state = "Done" /\ d.step = client.step /\ d.cn = client.cn /\ d.key = client.key
        /\ d.cur_count = client.cur_count /\ d.skey = client.skey /\ d.send = client.send
    BY <1>1, <2>1, EndedClient DEF States
  <2>3. \E i \in DOMAIN opened : opened[i] = [key |-> client.key, skey |-> Parts(0)]
    BY <1>7 DEF HandshakeInv, ToClientSays
  <2>4. client.skey = Parts(0)
    BY <1>1, <1>7 DEF ClientNow
  <2> QED
    BY <1>1, <1>7, <2>2, <2>3, <2>4 DEF Turns, ClientNow
<1>8. CASE client.step \in {8, 11} /\ m.type = "ServerError"
  <2>1. d = H!Ended(client, "ServerError")
    BY <1>8 DEF H!Process
  <2> QED
    BY <2>1, EndedTurns
<1> QED
  BY <1>3, <1>4, <1>5, <1>6, <1>7, <1>8 DEF H!Process

\* A step of the client: it says nothing new with an old key, and nothing with
\* another key than its own.
LEMMA ClientKeeps ==
  ASSUME HandshakeInv, Turns(client, client'),
         toServer' = IF client'.state \in {"Started", "ClientError"} THEN toServer \cup {client'.send} ELSE toServer,
         UNCHANGED <<runs, proc, draws, toClient, opened, forgotten>>
  PROVE  HandshakeInv'
<1>1. /\ HandshakeTypes /\ ClientNow /\ ServerNow /\ ToServerSays /\ ToClientSays
      /\ OpenedOnce /\ OldClients /\ DoneKept
  BY DEF HandshakeInv
<1>2. /\ client \in Clients /\ client' \in Clients /\ client'.cn = client.cn /\ client.cn = runs
      /\ client.step # 2 => client'.step # 2 /\ client'.key = client.key
  BY <1>1 DEF Turns, HandshakeTypes, ClientNow
<1>3. /\ toServer \subseteq toServer' /\ toServer' \subseteq H!Packets /\ client'.send \in toServer'
      /\ \A m \in toServer' : m \notin toServer /\ m.key \in H!Pairs => client.step # 2 /\ m.key = client.key
  BY <1>1 DEF HandshakeTypes, ClientNow, Turns
<1>4. client.step # 2 => client.key \in H!Pairs /\ client.key[1] = client.cn /\ client.key[2] <= draws
  BY <1>1 DEF ClientNow
<1>5. runs' = runs /\ proc' = proc /\ draws' = draws /\ toClient' = toClient /\ opened' = opened /\ forgotten' = forgotten
  OBVIOUS
<1>6. HandshakeTypes'
  BY <1>1, <1>2, <1>3, <1>5 DEF HandshakeTypes, Clients, Openings, H!Packets, H!Procs, H!Pairs
<1>7. ClientNow'
  BY <1>2, <1>3, <1>5 DEF ClientNow, Turns, Parts, H!Pairs
<1>8. ServerNow'
  BY <1>1, <1>5 DEF ServerNow, Parts, H!Pairs, H!Done, H!Secret
<1>9. ToServerSays'
  <2> SUFFICES ASSUME NEW m \in toServer', m.key \in H!Pairs
               PROVE  /\ m.key[1] <= runs /\ m.key[2] <= draws
                      /\ m.key[1] = client'.cn => client'.step # 2 /\ m.key = client'.key
                      /\ \A o \in toServer' : o.key \in H!Pairs /\ o.key[1] = m.key[1] => o.key = m.key
    BY <1>5 DEF ToServerSays, H!Pairs
  <2>1. ASSUME NEW o \in toServer', o.key \in H!Pairs, o \notin toServer
        PROVE  client.step # 2 /\ o.key = client.key /\ o.key[1] = client.cn
    BY <1>3, <1>4, <2>1
  <2>2. ASSUME NEW o \in toServer, o.key \in H!Pairs, o.key[1] = client.cn
        PROVE  client.step # 2 /\ o.key = client.key
    BY <1>1, <2>2 DEF ToServerSays
  <2>3. CASE m \notin toServer
    <3>1. m.key = client.key /\ client.step # 2 /\ m.key[1] = client.cn /\ m.key[2] <= draws
      BY <1>4, <2>1, <2>3
    <3>2. m.key[1] <= runs
      BY <1>1, <1>2, <3>1 DEF HandshakeTypes
    <3>3. ASSUME NEW o \in toServer', o.key \in H!Pairs, o.key[1] = m.key[1] PROVE o.key = m.key
      BY <2>1, <2>2, <3>1, <3>3
    <3> QED
      BY <1>2, <3>1, <3>2, <3>3
  <2>4. CASE m \in toServer
    <3>1. /\ m.key[1] <= runs /\ m.key[2] <= draws
          /\ m.key[1] = client.cn => client.step # 2 /\ m.key = client.key
          /\ \A o \in toServer : o.key \in H!Pairs /\ o.key[1] = m.key[1] => o.key = m.key
      BY <1>1, <2>4 DEF ToServerSays
    <3>2. ASSUME NEW o \in toServer', o.key \in H!Pairs, o.key[1] = m.key[1] PROVE o.key = m.key
      BY <2>1, <3>1, <3>2
    <3> QED
      BY <1>2, <3>1, <3>2
  <2> QED
    BY <2>3, <2>4
<1>10. ToClientSays'
  BY <1>1, <1>5 DEF ToClientSays, Parts
<1>11. OpenedOnce'
  BY <1>1, <1>3, <1>5 DEF OpenedOnce
<1>12. OldClients'
  <2> SUFFICES ASSUME NEW i \in DOMAIN opened, NEW m \in toServer', opened[i].key[1] = client.cn,
                      m.key \in H!Pairs, m.key[1] # client.cn
               PROVE  m.key[2] <= opened[i].key[2]
    BY <1>2, <1>5 DEF OldClients, H!Pairs
  <2>1. m \in toServer
    BY <1>3, <1>4
  <2> QED
    BY <1>1, <2>1 DEF OldClients
<1>13. DoneKept'
  BY <1>1, <1>2, <1>5 DEF DoneKept, H!Done, H!Secret
<1> QED
  BY <1>6, <1>7, <1>8, <1>9, <1>10, <1>11, <1>12, <1>13 DEF HandshakeInv

LEMMA ClientInboundKeeps ==
  ASSUME HandshakeInv, H!ClientInbound
  PROVE  HandshakeInv'
<1>1. client.state = "Started"
  BY DEF H!ClientInbound
<1>2. PICK m \in toClient :
        client' \in IF client.step = 2 THEN H!Process2(client, m)
                    ELSE IF m.key = client.key THEN H!Process(client, m) ELSE {}
  BY DEF H!ClientInbound
<1>3. Turns(client, client')
  <2>1. CASE client.step = 2
    BY <1>1, <1>2, <2>1, Process2Turns
  <2>2. CASE client.step # 2
    <3>1. m.key = client.key /\ client' \in H!Process(client, m)
      BY <1>2, <2>2
    <3> QED
      BY <1>1, <2>2, <3>1, ProcessTurns
  <2> QED
    BY <2>1, <2>2
<1> QED
  BY <1>3, ClientKeeps DEF H!ClientInbound

LEMMA ClientTickKeeps ==
  ASSUME HandshakeInv, H!ClientTick
  PROVE  HandshakeInv'
<1>1. CASE H!ClientTimeout
  <2>1. Turns(client, client') /\ client'.state = "Timeout"
    <3>1. client.state = "Started" /\ client' = H!Ended(client, "Timeout")
      BY <1>1 DEF H!ClientTimeout
    <3>2. Turns(client, H!Ended(client, "Timeout"))
      BY <3>1, EndedTurns
    <3>3. client'.state = "Timeout"
      BY <3>1, EndedClient DEF HandshakeInv, HandshakeTypes, States
    <3> QED
      BY <3>1, <3>2, <3>3
  <2> QED
    BY <1>1, <2>1, ClientKeeps DEF H!ClientTimeout
<1>2. CASE H!ClientRetry
  <2>1. /\ client \in Clients /\ client.send \in toServer
        /\ client' = [client EXCEPT !.retry = @ - 1]
        /\ toServer' = toServer \cup {client.send}
        /\ UNCHANGED <<runs, proc, draws, toClient, opened, forgotten>>
    BY <1>2 DEF H!ClientRetry, HandshakeInv, HandshakeTypes, ClientNow
  <2>2. /\ client' \in Clients /\ client'.state = client.state /\ client'.step = client.step
        /\ client'.cn = client.cn /\ client'.key = client.key /\ client'.cur_count = client.cur_count
        /\ client'.skey = client.skey /\ client'.send = client.send
    BY <2>1 DEF Clients
  <2>3. toServer' = toServer
    BY <2>1
  <2>4. /\ HandshakeTypes /\ ClientNow /\ ServerNow /\ ToServerSays /\ ToClientSays
        /\ OpenedOnce /\ OldClients /\ DoneKept
    BY DEF HandshakeInv
  <2>5. HandshakeTypes'
    BY <2>1, <2>2, <2>3, <2>4 DEF HandshakeTypes, Clients, Openings, H!Packets, H!Procs, H!Pairs
  <2>6. ClientNow'
    BY <2>1, <2>2, <2>3, <2>4 DEF ClientNow, Parts, H!Pairs
  <2>7. ServerNow' /\ ToClientSays'
    BY <2>1, <2>4 DEF ServerNow, ToClientSays, Parts, H!Pairs, H!Done, H!Secret
  <2>8. ToServerSays' /\ OpenedOnce' /\ OldClients'
    BY <2>1, <2>2, <2>3, <2>4 DEF ToServerSays, OpenedOnce, OldClients, H!Pairs
  <2>9. DoneKept'
    BY <2>1, <2>2, <2>4 DEF DoneKept, H!Done, H!Secret
  <2> QED
    BY <2>5, <2>6, <2>7, <2>8, <2>9 DEF HandshakeInv
<1> QED
  BY <1>1, <1>2 DEF H!ClientTick

LEMMA OpenedKeys ==
  ASSUME HandshakeTypes, NEW i \in DOMAIN opened
  PROVE  i \in 1..Len(opened) /\ opened[i] \in Openings /\ opened[i].key \in H!Pairs
<1>1. i \in 1..Len(opened) /\ opened \in Seq(Openings)
  BY DEF HandshakeTypes
<1>2. opened[i] \in Openings
  BY <1>1, ElementOfSeq
<1> QED
  BY <1>1, <1>2 DEF Openings

\* A new client has sent nothing in secret, and has no endpoint: its number is new.
LEMMA NewClientKeeps ==
  ASSUME HandshakeInv, H!NewClient
  PROVE  HandshakeInv'
<1>1. /\ HandshakeTypes /\ ClientNow /\ ServerNow /\ ToServerSays /\ ToClientSays
      /\ OpenedOnce /\ OldClients /\ DoneKept
  BY DEF HandshakeInv
<1>2. /\ runs' = runs + 1 /\ client' = H!Started(runs + 1)
      /\ toServer' = toServer \cup {H!Hello}
      /\ UNCHANGED <<proc, draws, toClient, opened, forgotten>>
  BY DEF H!NewClient
<1>3. runs \in Nat /\ runs + 1 \in Nat
  BY <1>1 DEF HandshakeTypes
<1>4. H!Hello \in H!Packets /\ H!Hello.key \notin H!Pairs
  BY ClearPacket DEF H!Hello, H!PacketTypes
<1>5. /\ client' \in Clients /\ client'.state = "Started" /\ client'.step = 2 /\ client'.cn = runs + 1
      /\ client'.skey = << >> /\ client'.send = H!Hello
  BY <1>2, <1>3, <1>4, HandshakeAssumption DEF H!Started, Clients, States
<1>6. \A m \in toServer' : m.key \in H!Pairs => m \in toServer /\ m.key[1] # runs + 1
  <2> SUFFICES ASSUME NEW m \in toServer', m.key \in H!Pairs PROVE m \in toServer /\ m.key[1] # runs + 1
    OBVIOUS
  <2>1. m \in toServer
    BY <1>2, <1>4
  <2>2. m.key[1] <= runs /\ m.key[1] \in Nat
    BY <1>1, <2>1 DEF ToServerSays, H!Pairs
  <2> QED
    BY <1>3, <2>1, <2>2
<1>7. \A i \in DOMAIN opened : opened[i].key[1] # runs + 1
  <2> SUFFICES ASSUME NEW i \in DOMAIN opened PROVE opened[i].key[1] # runs + 1
    OBVIOUS
  <2>1. PICK m \in toServer : m.key = opened[i].key
    BY <1>1 DEF OpenedOnce
  <2>2. opened[i].key \in H!Pairs
    BY <1>1, OpenedKeys
  <2> QED
    BY <1>2, <1>6, <2>1, <2>2
<1>8. HandshakeTypes'
  BY <1>1, <1>2, <1>3, <1>4, <1>5 DEF HandshakeTypes, Clients, Openings, H!Packets, H!Procs, H!Pairs
<1>9. ClientNow'
  BY <1>2, <1>5 DEF ClientNow
<1>10. ServerNow' /\ ToClientSays'
  BY <1>1, <1>2 DEF ServerNow, ToClientSays, Parts, H!Pairs, H!Done, H!Secret
<1>11. ToServerSays'
  <2> SUFFICES ASSUME NEW m \in toServer', m.key \in H!Pairs
               PROVE  /\ m.key[1] <= runs' /\ m.key[2] <= draws
                      /\ m.key[1] # client'.cn
                      /\ \A o \in toServer' : o.key \in H!Pairs /\ o.key[1] = m.key[1] => o.key = m.key
    BY <1>2 DEF ToServerSays, H!Pairs
  <2>1. m \in toServer /\ m.key[1] # client'.cn
    BY <1>5, <1>6
  <2>2. m.key[1] <= runs /\ m.key[1] \in Nat /\ m.key[2] <= draws
    BY <1>1, <2>1 DEF ToServerSays, H!Pairs
  <2>3. \A o \in toServer' : o.key \in H!Pairs /\ o.key[1] = m.key[1] => o.key = m.key
    BY <1>1, <1>6, <2>1 DEF ToServerSays
  <2> QED
    BY <1>2, <1>3, <2>1, <2>2, <2>3
<1>12. OpenedOnce'
  BY <1>1, <1>2 DEF OpenedOnce
<1>13. OldClients' /\ DoneKept'
  BY <1>2, <1>5, <1>7 DEF OldClients, DoneKept
<1> QED
  BY <1>8, <1>9, <1>10, <1>11, <1>12, <1>13 DEF HandshakeInv

\* A step of the server that opens no endpoint: what it says is no lie, and a last
\* packet that goes is remembered as forgotten.
LEMMA ServerKeeps ==
  ASSUME HandshakeInv, UNCHANGED <<client, runs, toServer, opened>>,
         draws' \in Nat, draws' >= draws, proc' \in {None} \cup H!Procs,
         ServerNow', DoneKept',
         NEW X \in SUBSET H!Packets, toClient' = toClient \cup X,
         \A m \in X : /\ m.type = "ServerNonce" => m.n <= draws'
                      /\ m.type = "FirstServerSKey" => m.n = MaxCount
                      /\ m.type = "Done" => m \in toClient
  PROVE  HandshakeInv'
<1>1. /\ HandshakeTypes /\ ClientNow /\ ToServerSays /\ ToClientSays /\ OpenedOnce /\ OldClients
  BY DEF HandshakeInv
<1>2. client' = client /\ runs' = runs /\ toServer' = toServer /\ opened' = opened
  OBVIOUS
<1>3. draws \in Nat
  BY <1>1 DEF HandshakeTypes
<1>4. HandshakeTypes'
  BY <1>1, <1>2 DEF HandshakeTypes, Clients, Openings, H!Packets, H!Procs, H!Pairs
<1>5. ClientNow'
  <2>1. client.step # 2 => client.key[2] <= draws'
    BY <1>1, <1>3 DEF ClientNow, H!Pairs
  <2> QED
    BY <1>1, <1>2, <2>1 DEF ClientNow, Parts, H!Pairs
<1>6. ToServerSays'
  <2> SUFFICES ASSUME NEW m \in toServer, m.key \in H!Pairs
               PROVE  /\ m.key[1] <= runs /\ m.key[2] <= draws'
                      /\ m.key[1] = client.cn => client.step # 2 /\ m.key = client.key
                      /\ \A o \in toServer : o.key \in H!Pairs /\ o.key[1] = m.key[1] => o.key = m.key
    BY <1>2 DEF ToServerSays, H!Pairs
  <2>1. /\ m.key[1] <= runs /\ m.key[2] <= draws
        /\ m.key[1] = client.cn => client.step # 2 /\ m.key = client.key
        /\ \A o \in toServer : o.key \in H!Pairs /\ o.key[1] = m.key[1] => o.key = m.key
    BY <1>1 DEF ToServerSays
  <2>2. m.key[2] <= draws'
    BY <1>3, <2>1 DEF H!Pairs
  <2> QED
    BY <2>1, <2>2
<1>7. ToClientSays'
  <2> SUFFICES ASSUME NEW m \in toClient'
               PROVE  /\ m.type = "ServerNonce" => m.n <= draws'
                      /\ m.type = "FirstServerSKey" => m.n = MaxCount
                      /\ m.type = "Done" => \E i \in DOMAIN opened : opened[i] = [key |-> m.key, skey |-> Parts(0)]
    BY <1>2 DEF ToClientSays, Parts
  <2>1. CASE m \in toClient
    <3>1. /\ m.type = "ServerNonce" => m.n <= draws
          /\ m.type = "FirstServerSKey" => m.n = MaxCount
          /\ m.type = "Done" => \E i \in DOMAIN opened : opened[i] = [key |-> m.key, skey |-> Parts(0)]
      BY <1>1, <2>1 DEF ToClientSays
    <3>2. m.n \in Nat
      BY <1>1, <2>1 DEF HandshakeTypes, H!Packets
    <3>3. m.type = "ServerNonce" => m.n <= draws'
      BY <1>3, <3>1, <3>2
    <3> QED
      BY <3>1, <3>3
  <2>2. CASE m \in X
    <3>1. m.type = "Done" => \E i \in DOMAIN opened : opened[i] = [key |-> m.key, skey |-> Parts(0)]
      BY <1>1, <2>2 DEF ToClientSays
    <3> QED
      BY <2>2, <3>1
  <2> QED
    BY <2>1, <2>2
<1>8. OpenedOnce'
  <2>1. ASSUME NEW i \in DOMAIN opened PROVE opened[i].key[2] <= draws'
    <3>1. opened[i].key[2] <= draws /\ opened[i].key \in H!Pairs
      BY <1>1, OpenedKeys DEF OpenedOnce
    <3> QED
      BY <1>3, <3>1 DEF H!Pairs
  <2> QED
    BY <1>1, <1>2, <2>1 DEF OpenedOnce
<1>9. OldClients'
  BY <1>1, <1>2 DEF OldClients, H!Pairs
<1> QED
  BY <1>4, <1>5, <1>6, <1>7, <1>8, <1>9 DEF HandshakeInv

LEMMA DeletedKeeps ==
  ASSUME HandshakeInv, NEW X \in SUBSET H!Packets, H!Deleted(X), opened' = opened,
         \A m \in X : m.type \in {"Exhausted", "NoAlgo", "ServerError"}
  PROVE  HandshakeInv'
<1>1. /\ HandshakeTypes /\ ServerNow /\ DoneKept
  BY DEF HandshakeInv
<1>2. /\ proc' = None /\ toClient' = toClient \cup X /\ UNCHANGED <<client, runs, draws, toServer>>
      /\ forgotten' = IF H!Present.final = None THEN forgotten ELSE forgotten \cup {proc.final.key}
  BY DEF H!Deleted
<1>3. draws' \in Nat /\ draws' >= draws
  BY <1>1, <1>2 DEF HandshakeTypes
<1>4. ServerNow'
  BY <1>2 DEF ServerNow
<1>5. DoneKept'
  <2> SUFFICES ASSUME NEW i \in DOMAIN opened, opened[i].key[1] = client.cn
               PROVE  opened[i].key \in forgotten'
    BY <1>2 DEF DoneKept
  <2>1. opened[i].key \in H!Pairs
    BY <1>1, OpenedKeys
  <2>2. opened[i].key \in forgotten \/ (proc # None /\ proc.final = H!Done(opened[i].key))
    BY <1>1 DEF DoneKept
  <2>3. H!Done(opened[i].key) # None /\ H!Done(opened[i].key).key = opened[i].key
    BY <2>1, SecretPacket DEF H!Done, H!PacketTypes
  <2> QED
    BY <1>2, <2>2, <2>3 DEF H!Present
<1> QED
  BY <1>2, <1>3, <1>4, <1>5, ServerKeeps

LEMMA DoneIsPacket ==
  ASSUME HandshakeTypes, NEW i \in DOMAIN opened
  PROVE  /\ H!Done(opened[i].key) \in H!Packets /\ H!Done(opened[i].key) # None
         /\ H!Done(opened[i].key).key = opened[i].key
BY OpenedKeys, SecretPacket DEF H!Done, H!PacketTypes

\* Of the Proc's steps before the last: nothing is opened with its draw, and
\* the answer leaves it as it should be.
LEMMA ProcFacts ==
  ASSUME HandshakeInv, proc # None
  PROVE  /\ proc \in H!Procs /\ proc.sn = draws /\ draws \in Nat /\ toServer \subseteq H!Packets
         /\ proc.step \in {3, 5, 7, 9, 12}
         /\ proc.step # 3 => proc.key \in H!Pairs /\ proc.key[2] = draws
         /\ proc.step # 12 => \A i \in DOMAIN opened : opened[i].key[2] < draws
         /\ proc.final # None => proc.final \in toClient /\ proc.final.key \in H!Pairs /\ proc.final = H!Done(proc.final.key)
BY DEF HandshakeInv, HandshakeTypes, ServerNow

LEMMA AnswersKeeps ==
  ASSUME HandshakeInv, NEW p \in H!Procs, NEW step \in {3, 5, 7, 9}, NEW m \in H!Packets,
         H!Answers(p, step, m), opened' = opened, forgotten' = forgotten,
         draws' \in Nat, draws' >= draws, p.sn = draws',
         step # 3 => p.key \in H!Pairs /\ p.key[2] = draws',
         step \in {7, 9} => p.final = None,
         step = 9 => p.cur_count \in 1..MaxCount /\ p.skey = Parts(p.cur_count),
         \A i \in DOMAIN opened : opened[i].key[2] < draws',
         p.final = None => \A i \in DOMAIN opened : opened[i].key[1] = client.cn =>
                             ~ (proc # None /\ proc.final = H!Done(opened[i].key)),
         p.final # None => proc # None /\ p.final = proc.final,
         m.type = "ServerNonce" => m.n <= draws',
         m.type = "FirstServerSKey" => m.n = MaxCount,
         m.type # "Done"
  PROVE  HandshakeInv'
<1>1. /\ HandshakeTypes /\ ServerNow /\ DoneKept
  BY DEF HandshakeInv
<1>2. /\ proc' = [p EXCEPT !.step = step, !.send = m, !.retry = MaxRetry]
      /\ toClient' = toClient \cup {m} /\ UNCHANGED <<client, runs, toServer>>
  BY DEF H!Answers
<1>3. /\ proc' \in H!Procs /\ proc' # None /\ proc'.step = step /\ proc'.sn = p.sn /\ proc'.key = p.key
      /\ proc'.cur_count = p.cur_count /\ proc'.skey = p.skey /\ proc'.send = m /\ proc'.final = p.final
  <2>1. step \in Nat
    OBVIOUS
  <2> DEFINE q == proc'
  <2>2. q = Answered(p, step, m)
    BY <1>2 DEF Answered
  <2> HIDE DEF q
  <2>3. /\ q \in H!Procs /\ q # None /\ q.step = step /\ q.sn = p.sn /\ q.key = p.key
        /\ q.cur_count = p.cur_count /\ q.skey = p.skey /\ q.send = m /\ q.final = p.final
    BY <2>1, <2>2, AnswersProc
  <2> QED
    BY <2>3 DEF q
<1>4. ServerNow'
  <2>1. p.final # None => p.final \in toClient /\ p.final.key \in H!Pairs /\ p.final = H!Done(p.final.key)
    BY ProcFacts
  <2> QED
    BY <1>2, <1>3, <2>1 DEF ServerNow, Parts, H!Pairs, H!Done, H!Secret
<1>5. DoneKept'
  <2> SUFFICES ASSUME NEW i \in DOMAIN opened, opened[i].key[1] = client.cn
               PROVE  opened[i].key \in forgotten \/ proc'.final = H!Done(opened[i].key)
    BY <1>2, <1>3 DEF DoneKept, H!Done, H!Secret
  <2>1. opened[i].key \in forgotten \/ (proc # None /\ proc.final = H!Done(opened[i].key))
    BY <1>1 DEF DoneKept
  <2> QED
    BY <1>3, <2>1
<1> DEFINE X == {m}
<1>6. /\ X \in SUBSET H!Packets /\ toClient' = toClient \cup X
      /\ \A o \in X : /\ o.type = "ServerNonce" => o.n <= draws'
                      /\ o.type = "FirstServerSKey" => o.n = MaxCount
                      /\ o.type = "Done" => o \in toClient
  BY <1>2
<1>7. proc' \in {None} \cup H!Procs
  BY <1>3
<1> HIDE DEF X
<1> QED
  BY <1>2, <1>4, <1>5, <1>6, <1>7, ServerKeeps

\* find_or_add, and process1: the Proc has the next draw.
LEMMA AcceptKeeps ==
  ASSUME HandshakeInv, NEW o \in toServer, H!Accept(o)
  PROVE  HandshakeInv'
<1> DEFINE p == [H!Present EXCEPT !.sn = draws + 1, !.key = None]
           m == H!Clear("ServerNonce", draws + 1)
<1>1. /\ HandshakeTypes /\ ServerNow /\ OpenedOnce /\ DoneKept
  BY DEF HandshakeInv
<1>2. /\ draws' = draws + 1 /\ H!Answers(p, 3, m) /\ opened' = opened /\ forgotten' = forgotten
  BY DEF H!Accept
<1>3. draws \in Nat /\ draws + 1 \in Nat /\ draws' \in Nat /\ draws' >= draws
  BY <1>1, <1>2 DEF HandshakeTypes
<1>4. H!Present \in H!Procs
  <2>1. H!Blank \in H!Procs
    BY DEF H!Blank, H!Procs
  <2> QED
    BY <1>1, <2>1 DEF HandshakeTypes, H!Present
<1>5. p \in H!Procs /\ p.sn = draws + 1 /\ p.final = H!Present.final
  BY <1>3, <1>4 DEF H!Procs
<1>6. m \in H!Packets /\ m.type = "ServerNonce" /\ m.n = draws + 1
  BY <1>3, ClearPacket DEF H!PacketTypes
<1>7. H!Present.final # None => proc # None /\ H!Present.final = proc.final
  BY DEF H!Present, H!Blank
<1>8. \A i \in DOMAIN opened : opened[i].key[2] < draws'
  <2> SUFFICES ASSUME NEW i \in DOMAIN opened PROVE opened[i].key[2] < draws'
    OBVIOUS
  <2>1. opened[i].key[2] <= draws /\ opened[i].key \in H!Pairs
    BY <1>1, OpenedKeys DEF OpenedOnce
  <2> QED
    BY <1>2, <1>3, <2>1 DEF H!Pairs
<1>9. ASSUME H!Present.final = None, NEW i \in DOMAIN opened
      PROVE  ~ (proc # None /\ proc.final = H!Done(opened[i].key))
  <2>1. H!Done(opened[i].key) # None
    BY <1>1, DoneIsPacket
  <2> QED
    BY <1>9, <2>1 DEF H!Present
<1> HIDE DEF p, m
<1> QED
  BY <1>2, <1>3, <1>5, <1>6, <1>7, <1>8, <1>9, AnswersKeeps

LEMMA RefuseKeeps ==
  ASSUME HandshakeInv, NEW o \in toServer, H!Refuse(o)
  PROVE  HandshakeInv'
<1>1. /\ {H!Clear("Exhausted", 0)} \in SUBSET H!Packets /\ H!Clear("Exhausted", 0).type = "Exhausted"
      /\ {H!Clear("NoAlgo", 0)} \in SUBSET H!Packets /\ H!Clear("NoAlgo", 0).type = "NoAlgo"
  BY ClearPacket DEF H!PacketTypes
<1>2. opened' = opened /\ (H!Deleted({H!Clear("Exhausted", 0)}) \/ H!Deleted({H!Clear("NoAlgo", 0)}))
  BY DEF H!Refuse
<1>3. CASE H!Deleted({H!Clear("Exhausted", 0)})
  BY <1>1, <1>2, <1>3, DeletedKeeps
<1>4. CASE H!Deleted({H!Clear("NoAlgo", 0)})
  BY <1>1, <1>2, <1>4, DeletedKeeps
<1> QED
  BY <1>2, <1>3, <1>4

\* process3
LEMMA Inbound3Keeps ==
  ASSUME HandshakeInv, proc # None, NEW o \in toServer, H!Inbound3(o)
  PROVE  HandshakeInv'
<1> DEFINE key == H!Key(o.n, proc.sn)
           p   == [proc EXCEPT !.key = key]
           m   == H!Secret("ServerAck", key, 0)
<1>1. /\ proc \in H!Procs /\ proc.sn = draws /\ draws \in Nat /\ o \in H!Packets
      /\ \A i \in DOMAIN opened : opened[i].key[2] < draws
  BY ProcFacts DEF H!Inbound3
<1>2. /\ H!Answers(p, 5, m) /\ draws' = draws /\ opened' = opened /\ forgotten' = forgotten
  BY DEF H!Inbound3
<1>3. key \in H!Pairs /\ key[2] = draws
  BY <1>1 DEF H!Key, H!Pairs, H!Packets
<1>4. m \in H!Packets /\ m.type = "ServerAck"
  BY <1>3, SecretPacket DEF H!PacketTypes
<1> HIDE DEF key, m
<1>5. p \in H!Procs /\ p.sn = draws /\ p.key = key /\ p.final = proc.final
  BY <1>1, <1>3 DEF H!Procs
<1> HIDE DEF p
<1>6. ASSUME p.final = None, NEW i \in DOMAIN opened
      PROVE  ~ (proc # None /\ proc.final = H!Done(opened[i].key))
  BY <1>5, <1>6, DoneIsPacket DEF HandshakeInv
<1> QED
  BY <1>1, <1>2, <1>3, <1>4, <1>5, <1>6, AnswersKeeps

\* process5: the last packet of the handshake before is not kept any longer.  It was
\* for a client that is no more: the present one has sent nothing with a newer
\* draw than its endpoint's, and those before it have none.
LEMMA Inbound5Keeps ==
  ASSUME HandshakeInv, proc # None, NEW o \in toServer, H!Inbound5(o)
  PROVE  HandshakeInv'
<1> DEFINE p == [proc EXCEPT !.final = None]
           m == H!Secret("ServerParam", proc.key, 0)
<1>1. /\ proc \in H!Procs /\ proc.sn = draws /\ draws \in Nat /\ proc.step = 5
      /\ proc.key \in H!Pairs /\ proc.key[2] = draws
      /\ \A i \in DOMAIN opened : opened[i].key[2] < draws
  BY ProcFacts DEF H!Inbound5
<1>2. /\ H!Answers(p, 7, m) /\ draws' = draws /\ opened' = opened /\ forgotten' = forgotten
      /\ o.key = proc.key
  BY DEF H!Inbound5, H!Reads
<1>3. m \in H!Packets /\ m.type = "ServerParam"
  BY <1>1, SecretPacket DEF H!PacketTypes
<1> HIDE DEF m
<1>4. p \in H!Procs /\ p.sn = draws /\ p.key = proc.key /\ p.final = None
  BY <1>1 DEF H!Procs
<1> HIDE DEF p
<1>5. \A i \in DOMAIN opened : opened[i].key[1] # client.cn
  <2> SUFFICES ASSUME NEW i \in DOMAIN opened, opened[i].key[1] = client.cn PROVE FALSE
    OBVIOUS
  <2>1. opened[i].key \in H!Pairs /\ opened[i].key[2] < draws
    BY <1>1, OpenedKeys DEF HandshakeInv
  <2>2. PICK w \in toServer : w.key = opened[i].key
    BY DEF HandshakeInv, OpenedOnce
  <2>3. CASE o.key[1] = client.cn
    <3>1. o.key = client.key /\ w.key = client.key
      BY <1>1, <1>2, <2>1, <2>2, <2>3 DEF HandshakeInv, ToServerSays
    <3> QED
      BY <1>1, <1>2, <2>1, <2>2, <3>1
  <2>4. CASE o.key[1] # client.cn
    <3>1. o.key[2] <= opened[i].key[2]
      BY <1>1, <1>2, <2>4 DEF HandshakeInv, OldClients
    <3> QED
      BY <1>1, <1>2, <2>1, <3>1 DEF H!Pairs
  <2> QED
    BY <2>3, <2>4
<1> QED
  BY <1>1, <1>2, <1>3, <1>4, <1>5, AnswersKeeps

\* process7
LEMMA Inbound7Keeps ==
  ASSUME HandshakeInv, proc # None, NEW o \in toServer, H!Inbound7(o)
  PROVE  HandshakeInv'
<1> DEFINE m == H!Secret("FirstServerSKey", proc.key, MaxCount)
<1>1. /\ proc \in H!Procs /\ proc.sn = draws /\ draws \in Nat /\ proc.step = 7 /\ proc.final = None
      /\ proc.key \in H!Pairs /\ proc.key[2] = draws
      /\ \A i \in DOMAIN opened : opened[i].key[2] < draws
  BY ProcFacts DEF H!Inbound7, HandshakeInv, ServerNow
<1>2. MaxCount \in Nat /\ MaxCount \in 1..MaxCount
  BY HandshakeAssumption
<1>3. Parts(MaxCount) \in Seq(H!Pairs)
  BY <1>2, PartsGrow
<1>4. PICK p : p = WithParts(proc, MaxCount, Parts(MaxCount)) /\ H!Answers(p, 9, m)
  BY <1>2, PartsGrow DEF H!Inbound7, WithParts
<1>5. draws' = draws /\ opened' = opened /\ forgotten' = forgotten
  BY DEF H!Inbound7
<1>6. m \in H!Packets /\ m.type = "FirstServerSKey" /\ m.n = MaxCount
  BY <1>1, <1>2, SecretPacket DEF H!PacketTypes
<1> HIDE DEF m
<1>7. /\ p \in H!Procs /\ p.sn = draws /\ p.key = proc.key /\ p.final = None
      /\ p.cur_count = MaxCount /\ p.skey = Parts(MaxCount)
  <2>1. proc \in H!Procs /\ MaxCount \in Nat
    BY <1>1, <1>2
  <2>2. /\ p \in H!Procs /\ p.sn = proc.sn /\ p.key = proc.key /\ p.final = proc.final
        /\ p.cur_count = MaxCount /\ p.skey = Parts(MaxCount)
    BY <1>3, <1>4, <2>1, PartsProc
  <2> QED
    BY <1>1, <2>2
<1>8. ASSUME NEW i \in DOMAIN opened
      PROVE  ~ (proc # None /\ proc.final = H!Done(opened[i].key))
  BY <1>1, DoneIsPacket DEF HandshakeInv
<1> QED
  BY <1>1, <1>2, <1>4, <1>5, <1>6, <1>7, <1>8, AnswersKeeps

\* process9: another part
LEMMA Inbound9Keeps ==
  ASSUME HandshakeInv, proc # None, NEW o \in toServer, H!Inbound9(o)
  PROVE  HandshakeInv'
<1> DEFINE m == H!Secret("ServerSKey", proc.key, proc.cur_count - 1)
<1>1. /\ proc \in H!Procs /\ proc.sn = draws /\ draws \in Nat /\ proc.step = 9 /\ proc.final = None
      /\ proc.key \in H!Pairs /\ proc.key[2] = draws
      /\ proc.cur_count \in 1..MaxCount /\ proc.skey = Parts(proc.cur_count)
      /\ \A i \in DOMAIN opened : opened[i].key[2] < draws
  BY ProcFacts DEF H!Inbound9, H!Part, HandshakeInv, ServerNow
<1>2. /\ draws' = draws /\ opened' = opened /\ forgotten' = forgotten
      /\ o.n = proc.cur_count /\ proc.cur_count > 1
  BY DEF H!Inbound9, H!Part
<1>3. proc.cur_count - 1 \in Nat /\ proc.cur_count - 1 \in 1..MaxCount
  BY <1>1, <1>2, HandshakeAssumption
<1>4. m \in H!Packets /\ m.type = "ServerSKey"
  BY <1>1, <1>3, SecretPacket DEF H!PacketTypes
<1>5. PICK n \in Nat : n = proc.cur_count - 1
  BY <1>3
<1>6. H!Grown(o.n) = Parts(n) /\ Parts(n) \in Seq(H!Pairs)
  BY <1>1, <1>2, <1>5, PartsGrow DEF H!Grown
<1>7. PICK p : p = WithParts(proc, n, Parts(n)) /\ H!Answers(p, 9, m)
  BY <1>5, <1>6 DEF H!Inbound9, WithParts
<1> HIDE DEF m
<1>8. /\ p \in H!Procs /\ p.sn = draws /\ p.key = proc.key /\ p.final = None
      /\ p.cur_count = n /\ p.skey = Parts(n)
  <2>1. proc \in H!Procs /\ Parts(n) \in Seq(H!Pairs)
    BY <1>1, <1>6
  <2>2. /\ p \in H!Procs /\ p.sn = proc.sn /\ p.key = proc.key /\ p.final = proc.final
        /\ p.cur_count = n /\ p.skey = Parts(n)
    BY <1>7, <2>1, PartsProc
  <2> QED
    BY <1>1, <2>2
<1>9. ASSUME NEW i \in DOMAIN opened
      PROVE  ~ (proc # None /\ proc.final = H!Done(opened[i].key))
  BY <1>1, DoneIsPacket DEF HandshakeInv
<1>10. n \in 1..MaxCount
  BY <1>3, <1>5
<1> QED
  BY <1>1, <1>2, <1>4, <1>7, <1>8, <1>9, <1>10, AnswersKeeps

LEMMA AppendElements ==
  ASSUME NEW S, NEW s \in Seq(S), NEW e \in S, NEW t, t = Append(s, e)
  PROVE  /\ t \in Seq(S)
         /\ \A i \in DOMAIN s : i \in DOMAIN t /\ t[i] = s[i]
         /\ \E i \in DOMAIN t : t[i] = e
         /\ \A i \in DOMAIN t : (i \in DOMAIN s /\ t[i] = s[i]) \/ (i = Len(s) + 1 /\ t[i] = e)
<1>1. /\ t \in Seq(S) /\ Len(t) = Len(s) + 1 /\ Len(s) \in Nat
      /\ DOMAIN s = 1..Len(s) /\ DOMAIN t = 1..(Len(s) + 1)
  OBVIOUS
<1>2. t[Len(s) + 1] = e /\ \A i \in 1..Len(s) : t[i] = s[i]
  OBVIOUS
<1>3. Len(s) + 1 \in DOMAIN t /\ \A i \in DOMAIN s : i \in DOMAIN t
  BY <1>1
<1>4. \A i \in DOMAIN t : i \in DOMAIN s \/ i = Len(s) + 1
  BY <1>1
<1> QED
  BY <1>1, <1>2, <1>3, <1>4

\* process9: the endpoint is opened, the first one with this draw
LEMMA Inbound9LastKeeps ==
  ASSUME HandshakeInv, proc # None, NEW o \in toServer, H!Inbound9Last(o)
  PROVE  HandshakeInv'
<1>1. /\ HandshakeTypes /\ ClientNow /\ ServerNow /\ ToServerSays /\ ToClientSays
      /\ OpenedOnce /\ OldClients /\ DoneKept
  BY DEF HandshakeInv
<1>2. /\ proc \in H!Procs /\ proc.sn = draws /\ draws \in Nat /\ proc.step = 9 /\ proc.final = None
      /\ proc.key \in H!Pairs /\ proc.key[2] = draws /\ proc.send \in toClient
      /\ proc.cur_count = 1 /\ proc.skey = Parts(1)
      /\ \A i \in DOMAIN opened : opened[i].key[2] < draws
  BY ProcFacts DEF H!Inbound9Last, H!Part, HandshakeInv, ServerNow
<1>3. 1 \in 1..MaxCount /\ o.n = 1 /\ o.key = proc.key
  BY HandshakeAssumption, <1>2 DEF H!Inbound9Last, H!Part, H!Reads
<1>4. H!Grown(o.n) = Parts(0) /\ Parts(0) \in Seq(H!Pairs)
  BY <1>2, <1>3, PartsGrow DEF H!Grown
<1> DEFINE e == [key |-> proc.key, skey |-> Parts(0)]
<1>5. e \in Openings /\ e.key = proc.key
  BY <1>2, <1>4 DEF Openings
<1>6. /\ opened' = Append(opened, e) /\ toClient' = toClient \cup {H!Done(proc.key)}
      /\ UNCHANGED <<client, runs, draws, toServer, forgotten>>
  BY <1>4 DEF H!Inbound9Last
<1>7. H!Done(proc.key) \in H!Packets /\ H!Done(proc.key) # None /\ H!Done(proc.key).key = proc.key
      /\ H!Done(proc.key).type = "Done"
  BY <1>2, SecretPacket DEF H!Done, H!PacketTypes
<1>8. PICK y \in Seq(H!Pairs) :
        proc' = [proc EXCEPT !.step = 12, !.cur_count = 0, !.skey = y, !.final = H!Done(proc.key), !.retry = 1]
  BY <1>4 DEF H!Inbound9Last
<1>9. /\ proc' \in H!Procs /\ proc' # None /\ proc'.step = 12 /\ proc'.sn = draws /\ proc'.key = proc.key
      /\ proc'.send = proc.send /\ proc'.final = H!Done(proc.key)
  <2>1. proc' = [step |-> 12, sn |-> proc.sn, key |-> proc.key, cur_count |-> 0, skey |-> y,
                 send |-> proc.send, final |-> H!Done(proc.key), retry |-> 1]
    BY <1>2, <1>8 DEF H!Procs
  <2>2. proc' \in H!Procs
    BY <1>2, <1>7, <2>1 DEF H!Procs
  <2> QED
    BY <1>2, <2>1, <2>2, HandshakeAssumption
<1> HIDE DEF e
<1>10. /\ opened' \in Seq(Openings)
       /\ \A i \in DOMAIN opened : i \in DOMAIN opened' /\ opened'[i] = opened[i]
       /\ \E i \in DOMAIN opened' : opened'[i] = e
       /\ \A i \in DOMAIN opened' : (i \in DOMAIN opened /\ opened'[i] = opened[i]) \/ (i = Len(opened) + 1 /\ opened'[i] = e)
  <2>1. opened \in Seq(Openings)
    BY <1>1 DEF HandshakeTypes
  <2> QED
    BY <1>5, <1>6, <2>1, AppendElements
<1>11. HandshakeTypes'
  <2>1. toClient' \subseteq H!Packets
    BY <1>1, <1>6, <1>7 DEF HandshakeTypes
  <2> QED
    BY <1>1, <1>6, <1>9, <1>10, <2>1 DEF HandshakeTypes, Clients, Openings, H!Packets, H!Procs, H!Pairs
<1>12. ClientNow'
  <2>1. ASSUME client.state = "Done"
        PROVE  \E i \in DOMAIN opened' : opened'[i] = [key |-> client.key, skey |-> client.skey]
    <3>1. PICK i \in DOMAIN opened : opened[i] = [key |-> client.key, skey |-> client.skey]
      BY <1>1, <2>1 DEF ClientNow
    <3> QED
      BY <1>10, <3>1
  <2> QED
    BY <1>1, <1>6, <2>1 DEF ClientNow, Parts, H!Pairs
<1>13. ServerNow'
  <2>1. proc'.send \in toClient' /\ H!Done(proc.key) \in toClient'
    BY <1>2, <1>6, <1>9
  <2> QED
    BY <1>2, <1>6, <1>7, <1>9, <2>1 DEF ServerNow, Parts, H!Pairs, H!Done, H!Secret
<1>14. ToServerSays'
  BY <1>1, <1>6 DEF ToServerSays, H!Pairs
<1>15. ToClientSays'
  <2> SUFFICES ASSUME NEW m \in toClient'
               PROVE  /\ m.type = "ServerNonce" => m.n <= draws
                      /\ m.type = "FirstServerSKey" => m.n = MaxCount
                      /\ m.type = "Done" => \E i \in DOMAIN opened' : opened'[i] = [key |-> m.key, skey |-> Parts(0)]
    BY <1>6 DEF ToClientSays, Parts
  <2>1. CASE m \in toClient
    <3>1. /\ m.type = "ServerNonce" => m.n <= draws
          /\ m.type = "FirstServerSKey" => m.n = MaxCount
          /\ m.type = "Done" => \E i \in DOMAIN opened : opened[i] = [key |-> m.key, skey |-> Parts(0)]
      BY <1>1, <2>1 DEF ToClientSays
    <3> QED
      BY <1>10, <3>1
  <2>2. CASE m = H!Done(proc.key)
    BY <1>7, <1>10, <2>2 DEF e
  <2> QED
    BY <1>6, <2>1, <2>2
<1>16. OpenedOnce'
  <2> SUFFICES ASSUME NEW i \in DOMAIN opened'
               PROVE  /\ opened'[i].key[2] <= draws
                      /\ \E m \in toServer : m.key = opened'[i].key
                      /\ \A j \in DOMAIN opened' : j # i => opened'[j].key[2] # opened'[i].key[2]
    BY <1>6 DEF OpenedOnce
  <2>1. \A k \in DOMAIN opened : opened[k].key[2] \in Nat /\ opened[k].key[2] < draws
    BY <1>1, <1>2, OpenedKeys DEF H!Pairs
  <2>2. \/ i \in DOMAIN opened /\ opened'[i] = opened[i]
        \/ i = Len(opened) + 1 /\ opened'[i] = e
    BY <1>10
  <2>3. opened'[i].key[2] <= draws
    BY <1>2, <1>5, <2>1, <2>2
  <2>4. \E m \in toServer : m.key = opened'[i].key
    BY <1>1, <1>3, <1>5, <2>2 DEF OpenedOnce
  <2>5. ASSUME NEW j \in DOMAIN opened', j # i PROVE opened'[j].key[2] # opened'[i].key[2]
    <3>1. \/ j \in DOMAIN opened /\ opened'[j] = opened[j]
          \/ j = Len(opened) + 1 /\ opened'[j] = e
      BY <1>10
    <3>2. CASE i \in DOMAIN opened /\ j \in DOMAIN opened /\ opened'[i] = opened[i] /\ opened'[j] = opened[j]
      BY <1>1, <2>5, <3>2 DEF OpenedOnce
    <3>3. CASE i \in DOMAIN opened /\ opened'[i] = opened[i] /\ opened'[j] = e
      BY <1>2, <1>5, <2>1, <3>3
    <3>4. CASE j \in DOMAIN opened /\ opened'[j] = opened[j] /\ opened'[i] = e
      BY <1>2, <1>5, <2>1, <3>4
    <3> QED
      BY <2>2, <2>5, <3>1, <3>2, <3>3, <3>4
  <2> QED
    BY <2>3, <2>4, <2>5
<1>17. OldClients'
  <2> SUFFICES ASSUME NEW i \in DOMAIN opened', NEW m \in toServer,
                      opened'[i].key[1] = client.cn, m.key \in H!Pairs, m.key[1] # client.cn
               PROVE  m.key[2] <= opened'[i].key[2]
    BY <1>6 DEF OldClients, H!Pairs
  <2>1. CASE i \in DOMAIN opened /\ opened'[i] = opened[i]
    BY <1>1, <2>1 DEF OldClients
  <2>2. CASE opened'[i] = e
    BY <1>1, <1>2, <1>5, <2>2 DEF ToServerSays
  <2> QED
    BY <1>10, <2>1, <2>2
<1>18. DoneKept'
  <2> SUFFICES ASSUME NEW i \in DOMAIN opened', opened'[i].key[1] = client.cn
               PROVE  opened'[i].key \in forgotten \/ proc'.final = H!Done(opened'[i].key)
    BY <1>6, <1>9 DEF DoneKept, H!Done, H!Secret
  <2>1. CASE i \in DOMAIN opened /\ opened'[i] = opened[i]
    BY <1>1, <1>2, <2>1, DoneIsPacket DEF DoneKept
  <2>2. CASE opened'[i] = e
    BY <1>5, <1>9, <2>2
  <2> QED
    BY <1>10, <2>1, <2>2
<1> QED
  BY <1>11, <1>12, <1>13, <1>14, <1>15, <1>16, <1>17, <1>18 DEF HandshakeInv

\* process7, process9: the Proc goes with an error, its own or the client's.
LEMMA InboundErrorKeeps ==
  ASSUME HandshakeInv, proc # None, NEW o \in toServer, H!InboundFails(o) \/ H!InboundError(o)
  PROVE  HandshakeInv'
<1>1. CASE H!InboundFails(o)
  <2> DEFINE X == {H!Secret("ServerError", proc.key, 0)}
  <2>1. H!Deleted(X) /\ opened' = opened /\ proc.step \in {7, 9}
    BY <1>1 DEF H!InboundFails, H!Part
  <2>2. proc.key \in H!Pairs
    BY <2>1, ProcFacts
  <2>3. X \in SUBSET H!Packets /\ \A m \in X : m.type \in {"Exhausted", "NoAlgo", "ServerError"}
    BY <2>2, SecretPacket DEF H!PacketTypes
  <2> HIDE DEF X
  <2> QED
    BY <2>1, <2>3, DeletedKeeps
<1>2. CASE H!InboundError(o)
  BY <1>2, DeletedKeeps DEF H!InboundError
<1> QED
  BY <1>1, <1>2

\* InboundDrop, InboundFinal, and the tick: what was sent before is sent again.
LEMMA RepeatsKeep ==
  ASSUME HandshakeInv, proc # None, H!ServerRetry \/ \E o \in toServer : H!Drop(o)
  PROVE  HandshakeInv'
<1> DEFINE X == {}
<1>1. /\ HandshakeTypes /\ ServerNow /\ DoneKept
  BY DEF HandshakeInv
<1>2. proc \in H!Procs /\ draws \in Nat
  BY ProcFacts
<1>3. toClient' = toClient \cup X /\ UNCHANGED <<client, runs, toServer, opened, forgotten, draws>>
  BY <1>1 DEF ServerNow, H!ServerRetry, H!Drop
<1>4. /\ proc' \in H!Procs /\ proc' # None /\ proc'.step = proc.step /\ proc'.sn = proc.sn
      /\ proc'.key = proc.key /\ proc'.cur_count = proc.cur_count /\ proc'.skey = proc.skey
      /\ proc'.send = proc.send /\ proc'.final = proc.final
  <2>1. CASE H!ServerRetry
    <3>1. proc' = [step |-> proc.step, sn |-> proc.sn, key |-> proc.key, cur_count |-> proc.cur_count,
                   skey |-> proc.skey, send |-> proc.send, final |-> proc.final, retry |-> proc.retry - 1]
      BY <1>2, <2>1 DEF H!ServerRetry, H!Procs
    <3>2. proc' \in H!Procs
      BY <1>2, <3>1 DEF H!Procs
    <3> QED
      BY <3>1, <3>2, HandshakeAssumption
  <2>2. CASE \E o \in toServer : H!Drop(o)
    BY <1>2, <2>2 DEF H!Drop
  <2> QED
    BY <2>1, <2>2
<1>5. ServerNow'
  BY <1>1, <1>3, <1>4 DEF ServerNow, Parts, H!Pairs, H!Done, H!Secret
<1>6. DoneKept'
  BY <1>1, <1>3, <1>4 DEF DoneKept, H!Done, H!Secret
<1>7. /\ X \in SUBSET H!Packets /\ draws' \in Nat /\ draws' >= draws
      /\ proc' \in {None} \cup H!Procs
  BY <1>2, <1>3, <1>4
<1>8. \A m \in X : /\ m.type = "ServerNonce" => m.n <= draws'
                   /\ m.type = "FirstServerSKey" => m.n = MaxCount
                   /\ m.type = "Done" => m \in toClient
  OBVIOUS
<1> HIDE DEF X
<1> QED
  BY <1>3, <1>5, <1>6, <1>7, <1>8, ServerKeeps

LEMMA HandshakeStart == H!Init => HandshakeInv
<1> SUFFICES ASSUME H!Init PROVE HandshakeInv
  OBVIOUS
<1>1. /\ client = H!Started(1) /\ runs = 1 /\ proc = None /\ draws = 0
      /\ toServer = {H!Hello} /\ toClient = {} /\ opened = << >> /\ forgotten = {}
  BY DEF H!Init
<1>2. H!Hello \in H!Packets /\ H!Hello.key \notin H!Pairs
  BY ClearPacket DEF H!Hello, H!PacketTypes
<1>3. /\ client \in Clients /\ client.state = "Started" /\ client.step = 2 /\ client.cn = 1
      /\ client.skey = << >> /\ client.send = H!Hello
  BY <1>1, <1>2, HandshakeAssumption DEF H!Started, Clients, States
<1>4. HandshakeTypes
  BY <1>1, <1>2, <1>3 DEF HandshakeTypes
<1>5. ClientNow /\ ServerNow
  BY <1>1, <1>3 DEF ClientNow, ServerNow
<1>6. ToServerSays /\ ToClientSays
  BY <1>1, <1>2 DEF ToServerSays, ToClientSays
<1>7. OpenedOnce /\ OldClients /\ DoneKept
  BY <1>1 DEF OpenedOnce, OldClients, DoneKept
<1> QED
  BY <1>4, <1>5, <1>6, <1>7 DEF HandshakeInv

\* PKE!Next keeps the invariant.
LEMMA HandshakeStep ==
  ASSUME HandshakeInv, [H!Next]_handshakeVars
  PROVE  HandshakeInv'
<1>1. CASE H!NewClient
  BY <1>1, NewClientKeeps
<1>2. CASE H!ClientInbound
  BY <1>2, ClientInboundKeeps
<1>3. CASE H!ClientTick
  BY <1>3, ClientTickKeeps
<1>4. CASE H!ServerInbound
  <2>1. PICK o \in toServer :
          \/ H!Accept(o) \/ H!Refuse(o)
          \/ /\ proc # None
             /\ \/ H!Inbound3(o) \/ H!Inbound5(o) \/ H!Inbound7(o) \/ H!Inbound9(o) \/ H!Inbound9Last(o)
                \/ H!InboundFails(o) \/ H!InboundError(o) \/ H!Drop(o)
    BY <1>4 DEF H!ServerInbound
  <2>2. CASE H!Accept(o) \/ H!Refuse(o)
    BY <2>2, AcceptKeeps, RefuseKeeps
  <2>3. CASE proc # None /\ H!Inbound3(o)
    BY <2>3, Inbound3Keeps
  <2>4. CASE proc # None /\ H!Inbound5(o)
    BY <2>4, Inbound5Keeps
  <2>5. CASE proc # None /\ H!Inbound7(o)
    BY <2>5, Inbound7Keeps
  <2>6. CASE proc # None /\ H!Inbound9(o)
    BY <2>6, Inbound9Keeps
  <2>7. CASE proc # None /\ H!Inbound9Last(o)
    BY <2>7, Inbound9LastKeeps
  <2>8. CASE proc # None /\ (H!InboundFails(o) \/ H!InboundError(o))
    BY <2>8, InboundErrorKeeps
  <2>9. CASE proc # None /\ H!Drop(o)
    BY <2>9, RepeatsKeep
  <2> QED
    BY <2>1, <2>2, <2>3, <2>4, <2>5, <2>6, <2>7, <2>8, <2>9
<1>5. CASE H!ServerTick
  <2>1. CASE H!ServerRetry
    BY <2>1, RepeatsKeep DEF H!ServerRetry
  <2>2. CASE H!ServerTimeout
    BY <2>2, DeletedKeeps DEF H!ServerTimeout
  <2> QED
    BY <1>5, <2>1, <2>2 DEF H!ServerTick
<1>6. CASE UNCHANGED handshakeVars
  <2>1. /\ client' = client /\ runs' = runs /\ proc' = proc /\ draws' = draws /\ toServer' = toServer
        /\ toClient' = toClient /\ opened' = opened /\ forgotten' = forgotten
    BY <1>6 DEF handshakeVars
  <2>2. HandshakeTypes' /\ ClientNow' /\ ServerNow'
    BY <2>1 DEF HandshakeInv, HandshakeTypes, ClientNow, ServerNow, Clients, Openings, Parts,
                H!Packets, H!Procs, H!Pairs, H!Done, H!Secret
  <2>3. ToServerSays' /\ ToClientSays' /\ OpenedOnce' /\ OldClients' /\ DoneKept'
    BY <2>1 DEF HandshakeInv, ToServerSays, ToClientSays, OpenedOnce, OldClients, DoneKept, Parts,
                H!Pairs, H!Done, H!Secret
  <2> QED
    BY <2>2, <2>3 DEF HandshakeInv
<1> QED
  BY <1>1, <1>2, <1>3, <1>4, <1>5, <1>6 DEF H!Next

LEMMA SessionsAgreeNow == HandshakeInv => HandshakeKept
<1> SUFFICES ASSUME HandshakeInv PROVE HandshakeKept
  OBVIOUS
<1>1. /\ HandshakeTypes /\ ClientNow /\ ServerNow /\ ToServerSays /\ ToClientSays
      /\ OpenedOnce /\ OldClients /\ DoneKept
  BY DEF HandshakeInv
<1>2. ASSUME NEW i \in DOMAIN opened, NEW j \in DOMAIN opened, i # j
      PROVE  opened[i].key[1] # opened[j].key[1]
  <2>1. opened[i].key \in H!Pairs /\ opened[j].key \in H!Pairs
    BY <1>1, OpenedKeys
  <2>2. PICK m \in toServer, o \in toServer : m.key = opened[i].key /\ o.key = opened[j].key
    BY <1>1 DEF OpenedOnce
  <2>3. opened[i].key[2] # opened[j].key[2]
    BY <1>1, <1>2 DEF OpenedOnce
  <2> QED
    BY <1>1, <2>1, <2>2, <2>3 DEF ToServerSays
<1>3. H!SameSession
  BY <1>1, <1>2 DEF H!SameSession, ClientNow
<1>4. H!DoneIsRepeated
  <2> SUFFICES ASSUME NEW i \in DOMAIN opened, client.step = 11, opened[i].key = client.key
               PROVE  opened[i].key \in forgotten \/ (proc # None /\ proc.final = H!Done(client.key))
    BY DEF H!DoneIsRepeated
  <2>1. opened[i].key[1] = client.cn
    BY <1>1 DEF ClientNow
  <2> QED
    BY <1>1, <2>1 DEF DoneKept
<1> QED
  BY <1>3, <1>4 DEF HandshakeKept

\* ClientNegotiant and ServerNegotiant : a client that is done has an endpoint with
\* its session key at the server, and one only, whatever is lost, repeated or late;
\* and until it knows, the server has the packet to tell it.
THEOREM SessionsAgree == H!Spec => []HandshakeKept
<1>1. H!Init => HandshakeInv
  BY HandshakeStart
<1>2. HandshakeInv /\ [H!Next]_H!vars => HandshakeInv'
  BY HandshakeStep DEF handshakeVars, H!vars
<1>3. HandshakeInv => HandshakeKept
  BY SessionsAgreeNow
<1> QED
  BY <1>1, <1>2, <1>3, PTL DEF H!Spec
=============================================================================
