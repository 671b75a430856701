------------------------------ MODULE PSecKeys ------------------------------
(***************************************************************************)
(* PSec::KeySet at the two ends of a connection.  Each index has a key in  *)
(* use; the end that first finds it half used up alerts the other, the two *)
(* exchange powers and go over to the next key together, by packets that   *)
(* are encrypted with the keys themselves and are lost, late and repeated. *)
(* A packet that was sent once may have been repeated, so net keeps what   *)
(* was ever sent; no copy is taken twice (module AntiReplay).              *)
(***************************************************************************)
EXTENDS Integers, Sequences, SequencesExt, FiniteSets

CONSTANTS End,        \* the two ends
          KeySetLen,  \* the keys of a set
          MaxDraws    \* bound: secrets drawn by one end for one index

ASSUME KeysAssumption == /\ IsFiniteSet(End) /\ Cardinality(End) = 2
                         /\ KeySetLen \in Nat \ {0} /\ MaxDraws \in Nat

Index == 1..KeySetLen

VARIABLES ends,    \* for each end rec, the records of key_set, and list, active_list
          net,     \* the control packets sent
          strayed  \* history: an end alerted the other for a key not in use

vars == <<ends, net, strayed>>

Peer(e) == CHOOSE p \in End : p # e

\* life is what LifeLim leaves: 3 at least half of it, 2 and 1 less than half
\* and a quarter, 0 nothing.  The values of a key that is not alive are read
\* no more.  A key is the set of the two secrets it was made from.
NoKey    == [key |-> {}, serial |-> 0, life |-> 0, state |-> "Dead", active |-> FALSE]
FirstKey == [key |-> {}, serial |-> 0, life |-> 3, state |-> "Green", active |-> TRUE]

NextSerial(n) == (n + 1) % 4

Alive(k)      == k.state # "Dead"
testSerial(k, n) == Alive(k) /\ k.serial = n

\* The fields of ControlResponse and of the packet made from it; gx is the
\* secret whose power is sent, and only its owner's draw tells secrets apart.
Message(type, i, n, gx) == [type |-> type, index |-> i, serial |-> n, gx |-> gx]

NoSecret == << >>

Secret(s, e, i) == <<e, s.rec[i].draws>>

Init == /\ ends = [e \in End |->
                    [rec  |-> [i \in Index |-> [base |-> FirstKey, next |-> NoKey, type |-> "None",
                                                serial |-> 0, draws |-> 0, place |-> i]],
                     list |-> [i \in Index |-> [index |-> i, serial |-> 0]]]]
        /\ net = {}
        /\ strayed = FALSE

-----------------------------------------------------------------------------
\* The functions below take s, the key set of an end, and return it changed.

activate_next(s, i) ==
  [rec  |-> [s.rec EXCEPT ![i].next.active = TRUE, ![i].place = Len(s.list) + 1],
   list |-> Append(s.list, [index |-> i, serial |-> s.rec[i].next.serial])]

\* The last entry of the list takes the place of the one that goes.
deactivate(s, i) ==
  LET p    == s.rec[i].place
      last == Last(s.list)
      off  == [s.rec EXCEPT ![i].base.active = FALSE, ![i].next.active = FALSE] IN
  IF p < Len(s.list)
  THEN [rec |-> [off EXCEPT ![last.index].place = p], list |-> [Front(s.list) EXCEPT ![p] = last]]
  ELSE [rec |-> off, list |-> Front(s.list)]

flip(s, i) == [s EXCEPT !.rec[i].base = s.rec[i].next, !.rec[i].next = NoKey]

make_key(s, e, i, gy) ==
  [s EXCEPT !.rec[i].next = [key    |-> {Secret(s, e, i), gy},
                             serial |-> NextSerial(s.rec[i].base.serial),
                             life   |-> 3,
                             state  |-> "Green",
                             active |-> @.active]]

activate_key(s, i) ==
  IF s.rec[i].next.active THEN s
  ELSE activate_next(IF s.rec[i].base.active THEN deactivate(s, i) ELSE s, i)

\* alert(rec,key_index) : a session begins, with a new secret
draw(s, i, n) == [s EXCEPT !.rec[i].type = "Alert", !.rec[i].serial = n, !.rec[i].draws = @ + 1]

setType(s, i, type) == [s EXCEPT !.rec[i].type = type]

\* makeResponse : the message that is repeated until the session goes on
makeResponse(s, e, i) ==
  LET r == s.rec[i] IN
  Message(r.type, i, r.serial, IF r.type = "Ack" THEN NoSecret ELSE Secret(s, e, i))

\* The key that is active at an index, if one is.
InUse(r) == IF r.base.active THEN r.base ELSE r.next

\* selectEncryptKey : a key of the list that is Red goes out of use and the
\* packet is not sent, as when the list is empty.
Encrypt(e, s, m) ==
  IF s.list = << >> THEN {[set |-> s, sent |-> {}]}
  ELSE {LET r == s.rec[k.index] IN
          IF InUse(r).state \in {"Green", "Yellow"}
          THEN [set |-> s, sent |-> {[to |-> Peer(e), msg |-> m, index |-> k.index,
                                      serial |-> k.serial, key |-> InUse(r).key]}]
          ELSE [set |-> deactivate(s, k.index), sent |-> {}]
        : k \in ToSet(s.list)}

\* The handler's changes, and its response sent.
Respond(e, s, i) ==
  \E o \in Encrypt(e, s, makeResponse(s, e, i)) :
    /\ ends' = [ends EXCEPT ![e] = o.set]
    /\ net' = net \cup o.sent

Reply(e, s, type, i, n) ==
  \E o \in Encrypt(e, s, Message(type, i, n, NoSecret)) :
    /\ ends' = [ends EXCEPT ![e] = o.set]
    /\ net' = net \cup o.sent

Change(e, s) == ends' = [ends EXCEPT ![e] = s] /\ UNCHANGED net

-----------------------------------------------------------------------------
\* tick

\* updateState : one state a tick, by what is left of the life
Older(k) ==
  CASE k.state = "Green"  /\ k.life < 3 -> [k EXCEPT !.state = "Yellow"]
    [] k.state = "Yellow" /\ k.life < 2 -> [k EXCEPT !.state = "Red"]
    [] k.state = "Red"    /\ k.life < 1 -> [k EXCEPT !.state = "Dead"]
    [] OTHER -> k

\* What could be wrong in the code, to show that the properties see it: here
\* and below, the operators between two such comments.
TurnsYellowNever(k) == k.state = "Green" /\ k.life < 0   \* updateState returns false

\* What the code does.
TurnsYellow(k) == k.state = "Green" /\ k.life < 3

\* The time that has passed and the packets encrypted since the last tick take
\* a part of the life or nothing; more of it would only be seen a tick later.
Worn(k) == {k} \cup (IF k = Older(k) /\ Alive(k) THEN {[k EXCEPT !.life = @ - 1]} ELSE {})

Aged(s, i) == {[s EXCEPT !.rec[i].base = k[1], !.rec[i].next = k[2]] :
                 k \in Worn(s.rec[i].base) \X Worn(s.rec[i].next)}

\* tick : no session, and the base key turns Yellow; it may be out of use, when
\* it was the other end that alerted
TickBase(e, i) ==
  \E s \in Aged(ends[e], i) :
    LET r == s.rec[i] IN
    /\ r.type = "None" /\ TurnsYellow(r.base) /\ r.draws < MaxDraws
    /\ Respond(e, draw([s EXCEPT !.rec[i].base = Older(@)], i, r.base.serial), i)
    /\ strayed' = (strayed \/ ~r.base.active)

\* tick : the next key, in use since the last session, turns Yellow
TickNext(e, i) ==
  \E s \in Aged(ends[e], i) :
    LET r == s.rec[i]
        t == [s EXCEPT !.rec[i].base = Older(@), !.rec[i].next = Older(@)]
        u == flip(IF t.rec[i].base.active THEN deactivate(t, i) ELSE t, i) IN
    /\ r.type = "None" /\ ~TurnsYellow(r.base) /\ TurnsYellow(r.next) /\ r.draws < MaxDraws
    /\ Respond(e, draw(u, i, u.rec[i].base.serial), i)
    /\ UNCHANGED strayed

\* tick : the keys grow older, and nothing else; in a session they keep their state
TickAge(e, i) ==
  \E s \in Aged(ends[e], i) :
    LET r == s.rec[i] IN
    /\ \/ r.type = "None" /\ ~TurnsYellow(r.base) /\ ~TurnsYellow(r.next)
          /\ Change(e, [s EXCEPT !.rec[i].base = Older(@), !.rec[i].next = Older(@)])
       \/ r.type # "None" /\ Change(e, s)
    /\ UNCHANGED strayed

\* tick : RepeatTimeout has run out
TickRepeat(e, i) ==
  \E s \in Aged(ends[e], i) :
    /\ s.rec[i].type # "None"
    /\ Respond(e, s, i)
    /\ UNCHANGED strayed

Tick(e) == \E i \in Index : TickBase(e, i) \/ TickNext(e, i) \/ TickAge(e, i) \/ TickRepeat(e, i)

-----------------------------------------------------------------------------
\* inbound

\* selectDecryptKey : the key that decrypts, by its serial; NoKey is none
DecryptKey(r, n) ==
  CASE testSerial(r.base, n) -> r.base
    [] testSerial(r.next, n) -> r.next
    [] OTHER -> NoKey

\* A packet whose hash comes out right has been encrypted with that very key.
Readable(s, p) ==
  LET k == DecryptKey(s.rec[p.index], p.serial) IN Alive(k) /\ k.key = p.key

\* What could be wrong in the code, to show that the properties see it.
AlertActivates(e, m) ==   \* the new key is used before the other end has made it
  LET s == ends[e]
      i == m.index
      r == s.rec[i] IN
  /\ r.type = "None" /\ r.base.active /\ r.base.serial = m.serial /\ r.draws < MaxDraws
  /\ Respond(e, activate_key(make_key(setType(draw(s, i, m.serial), i, "Ready"), e, i, m.gx), i), i)

AlertOnce(e, m) ==        \* two ends that alert each other do not answer
  LET s == ends[e]
      i == m.index
      r == s.rec[i] IN
  /\ r.type \in {"Ack", "None"} /\ r.base.active
  /\ r.base.serial = m.serial /\ r.draws < MaxDraws
  /\ Respond(e, make_key(setType(draw(s, i, m.serial), i, "Ready"), e, i, m.gx), i)

\* What the code does.
\* alert
Alert(e, m) ==
  LET s == ends[e]
      i == m.index
      r == s.rec[i]
      Answer(t) == Respond(e, make_key(setType(t, i, "Ready"), e, i, m.gx), i) IN
  \/ /\ r.type \in {"Ack", "None"} /\ r.base.active
     /\ r.base.serial = m.serial /\ r.draws < MaxDraws
     /\ Answer(draw(s, i, m.serial))
  \/ /\ r.type \in {"Ack", "None"} /\ ~r.base.active /\ r.next.active
     /\ r.next.serial = m.serial /\ r.draws < MaxDraws
     /\ Answer(draw(flip(s, i), i, m.serial))
  \/ /\ r.type = "Alert" /\ r.serial = m.serial
     /\ Answer(s)

\* ready
Ready(e, m) ==
  LET s == ends[e]
      i == m.index
      r == s.rec[i] IN
  \/ /\ r.type = "Alert" /\ r.serial = m.serial
     /\ Respond(e, activate_key(make_key(setType(s, i, "Ready"), e, i, m.gx), i), i)
  \/ /\ r.type = "Ready" /\ r.serial = m.serial
     /\ Respond(e, activate_key(setType(s, i, "Ack"), i), i)

\* ack
Ack(e, m) ==
  LET s == ends[e]
      i == m.index
      r == s.rec[i] IN
  \/ /\ r.type = "Ready" /\ r.serial = m.serial
     /\ Respond(e, activate_key(setType(s, i, "Ack"), i), i)
  \/ /\ r.type = "Ack" /\ r.serial = m.serial
     /\ Reply(e, setType(s, i, "None"), "Ack", i, m.serial)
  \/ /\ r.type = "None"
     /\ Reply(e, s, "Stop", i, m.serial)

\* stop
Stop(e, m) ==
  LET r == ends[e].rec[m.index] IN
  /\ r.type = "Ack" /\ r.serial = m.serial
  /\ Change(e, setType(ends[e], m.index, "None"))

\* PacketProcessor::inbound, consume
Inbound(e, p) ==
  /\ p.to = e /\ Readable(ends[e], p)
  /\ CASE p.msg.type = "Alert" -> Alert(e, p.msg)
       [] p.msg.type = "Ready" -> Ready(e, p.msg)
       [] p.msg.type = "Ack"   -> Ack(e, p.msg)
       [] p.msg.type = "Stop"  -> Stop(e, p.msg)
  /\ UNCHANGED strayed

Next == \E e \in End : Tick(e) \/ \E p \in net : Inbound(e, p)

Spec == Init /\ [][Next]_vars

\* Time passes; and what an end repeats until it is answered, and the answers,
\* are not lost for ever.
Fairness ==
  \A e \in End : /\ WF_vars(\E p \in net : Inbound(e, p))
                 /\ \A i \in Index : /\ WF_vars(TickBase(e, i) \/ TickNext(e, i) \/ TickAge(e, i))
                                     /\ WF_vars(TickRepeat(e, i))

FairSpec == Spec /\ Fairness

-----------------------------------------------------------------------------
\* What an end encrypts now, the other can read: it has the same key under the
\* same serial.  Each end goes over to the next key on what the other sends,
\* not when the other does; the keys agree as long as no end has alerted the
\* other for a key that is not in use.
PeerCanRead ==
  ~strayed => \A e \in End, i \in Index :
    LET k == InUse(ends[e].rec[i])
        r == DecryptKey(ends[Peer(e)].rec[i], k.serial) IN
    k.active => Alive(r) /\ r.key = k.key

\* A key in use never turns Red, so selectEncryptKey's way out for Red keys is
\* never taken: a session begins as the key turns Yellow, and in a session no
\* key changes its state.
NoRedInUse == \A e \in End, i \in Index : InUse(ends[e].rec[i]).active => InUse(ends[e].rec[i]).state \in {"Green", "Yellow"}

\* Every session ends at both ends, whatever is lost: each step is repeated
\* until the other end answers, and the last Ack of one is answered by the
\* Stop of the other.  It fails after an alert for a key that is not in use.
RekeyEnds == \A e \in End, i \in Index : ends[e].rec[i].type # "None" ~> ends[e].rec[i].type = "None" \/ strayed

\* ttl and utl limit the life of a key: one with less than a quarter of it left
\* does not stay in use.  (The code's session for the old key of the end that
\* did not alert, which never ends, keeps the key in use for ever.)
LifeEnds ==
  \A e \in End, i \in Index :
    LET spent == InUse(ends[e].rec[i]).active /\ InUse(ends[e].rec[i]).life < 2 IN spent ~> ~spent
=============================================================================
