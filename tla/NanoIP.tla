------------------------------- MODULE NanoIP -------------------------------
(***************************************************************************)
(* The way of a packet out of a NanoIPDevice: tasks put it on the list of  *)
(* TxPrepareList; the device's task looks its host up in ARPTable, and     *)
(* puts it in the ring of TxSendList or, until the host has answered, on   *)
(* the list of the host's entry in ARPending.  Ticks give up what waits    *)
(* too long, and forget hosts.  Cancellers may take a packet off a list at *)
(* any time.  The calls of EthProc come one after the other; what they do  *)
(* with the lists is one step up to the next look at a packet's canceller. *)
(* Packets that the device makes for itself are left out.                  *)
(***************************************************************************)
EXTENDS Integers, Sequences, SequencesExt, FiniteSets

CONSTANTS Out,                               \* the packets, numbers in the order they are put
          Host, NoHost,
          LifeTime, AlertTime, AlertPeriod,  \* of an entry of ARPTable, in ticks
          PendingLife, SendLife              \* of one of ARPending, and of the ring

Slots == 0..(SendLife - 1)

\* The lists
Prepare    == <<"prepare", 0>>
Pending(h) == <<"pending", h>>
Slot(i)    == <<"send", i>>
NoPlace    == <<"none", 0>>
Place      == {Prepare} \cup {Pending(h) : h \in Host} \cup {Slot(i) : i \in Slots}

VARIABLES dst,           \* of each packet that was put
          list,          \* the packets on each list
          cancel_state,  \* of each packet: "None", "Has" (a cancel function), "Cancelled"
          ext,           \* of each packet: the list that its canceller finds it on
          calling,       \* the packets whose cancel function is called
          completed,     \* history: how often each packet was completed, or sent
          arp_table,     \* hosts and their ticks, in the order of the list
          arp_pending,
          put_ind, get_ind,
          enable_flag,
          state,         \* of the device: "stopped", "running", "disabled", "stopping"
          temp, arp_ip,  \* the PacketList in the device's hands; whose answer they have waited for
          asked,         \* history: how often each host was asked since it has answered
          newest         \* history: the last packet to each host that was sent

packetVars == <<dst, list, cancel_state, ext, calling, completed, newest>>
arpVars    == <<arp_table, arp_pending, asked>>
handVars   == <<temp, arp_ip>>
ringVars   == <<put_ind, get_ind>>
stateVars  == <<enable_flag, state>>
vars == <<packetVars, arpVars, handVars, ringVars, stateVars>>

Init == /\ dst = [p \in Out |-> NoHost]
        /\ list = [l \in Place |-> << >>]
        /\ cancel_state = [p \in Out |-> "None"] /\ ext = [p \in Out |-> NoPlace]
        /\ calling = {}
        /\ completed = [p \in Out |-> 0]
        /\ arp_table = << >> /\ arp_pending = << >>
        /\ put_ind = 0 /\ get_ind = 0
        /\ enable_flag = FALSE /\ state = "stopped"
        /\ temp = << >> /\ arp_ip = NoHost
        /\ asked = [h \in Host |-> 0] /\ newest = [h \in Host |-> 0]

Hosts(entries) == {entries[i].ip : i \in DOMAIN entries}

Known == Hosts(arp_table)

Completed(S) == [p \in Out |-> completed[p] + IF p \in S THEN 1 ELSE 0]

\* What could be wrong in the code, to show that the properties see it: here
\* and below, the operators between two such comments.
HadAll(S) == S    \* get() does not look for a canceller

\* What the code does.
\* Of those that get() looks at, the packets that it has; the others are their
\* cancellers' now.
Had(S) == {p \in S : cancel_state[p] # "Cancelled"}

Got(place) == SelectSeq(list[place], LAMBDA p : p \in Had(Out))

\* TxPrepareList::get, CancelPacketList::get
Get(S) == /\ list' = [l \in Place |-> SelectSeq(list[l], LAMBDA p : p \notin S)]
          /\ ext' = [p \in Out |-> IF p \in S THEN NoPlace ELSE ext[p]]
          /\ cancel_state' = [p \in Out |-> IF p \in Had(S) THEN "None" ELSE cancel_state[p]]

GetList(place) == Get(ToSet(list[place])) /\ temp' = Got(place)

\* CancelPacketList::complete
DropAll(places) == LET S == UNION {ToSet(list[l]) : l \in places}
                   IN Get(S) /\ completed' = Completed(Had(S))

\* CancelPacketList::put : a packet that was cancelled is completed
PutOn(place, p) ==
  IF cancel_state[p] = "None"
    THEN /\ cancel_state' = [cancel_state EXCEPT ![p] = "Has"]
         /\ ext' = [ext EXCEPT ![p] = place]
         /\ list' = [list EXCEPT ![place] = Append(@, p)]
         /\ UNCHANGED completed
    ELSE completed' = Completed({p}) /\ UNCHANGED <<cancel_state, ext, list>>

-----------------------------------------------------------------------------
\* Users and cancellers

\* send, send_udp : TxPrepareList::put, or complete()
Put(p, h) ==
  /\ dst[p] = NoHost /\ \A q \in 1..(p - 1) : dst[q] # NoHost
  /\ dst' = [dst EXCEPT ![p] = h]
  /\ IF enable_flag
       THEN PutOn(Prepare, p)
       ELSE completed' = Completed({p}) /\ UNCHANGED <<cancel_state, ext, list>>
  /\ UNCHANGED <<calling, newest, arpVars, handVars, ringVars, stateVars>>

\* PacketHeader::cancel : who finds a cancel function will call it
Cancel(p) ==
  /\ completed[p] = 0 /\ cancel_state[p] # "Cancelled"
  /\ cancel_state' = [cancel_state EXCEPT ![p] = "Cancelled"]
  /\ calling' = IF cancel_state[p] = "Has" THEN calling \cup {p} ELSE calling
  /\ UNCHANGED <<dst, list, ext, completed, newest, arpVars, handVars, ringVars, stateVars>>

\* TxPrepareList::cancel, CancelPacketList::cancel
CancelCall(p) ==
  /\ p \in calling /\ calling' = calling \ {p}
  /\ list' = IF ext[p] = NoPlace THEN list ELSE [list EXCEPT ![ext[p]] = Remove(@, p)]
  /\ ext' = [ext EXCEPT ![p] = NoPlace]
  /\ completed' = Completed({p})
  /\ UNCHANGED <<dst, cancel_state, newest, arpVars, handVars, ringVars, stateVars>>

-----------------------------------------------------------------------------
\* The calls of EthProc

Serves == state = "running" /\ temp = << >>

\* prepareOutbound : TxPrepareList::get
PrepareOutbound ==
  /\ Serves /\ list[Prepare] # << >>
  /\ GetList(Prepare) /\ arp_ip' = NoHost
  /\ UNCHANGED <<dst, calling, completed, newest, arpVars, ringVars, stateVars>>

\* prepare_ip, of a packet whose host is known
PrepareSend ==
  /\ temp # << >> /\ arp_ip = NoHost /\ dst[Head(temp)] \in Known
  /\ PutOn(Slot(put_ind), Head(temp))
  /\ temp' = Tail(temp)
  /\ UNCHANGED <<dst, calling, newest, arpVars, arp_ip, ringVars, stateVars>>

\* prepare_ip : ARPending::add, and if the entry is new the host is asked
PreparePend ==
  /\ temp # << >> /\ arp_ip = NoHost /\ dst[Head(temp)] \notin Known
  /\ LET h == dst[Head(temp)] IN
     /\ PutOn(Pending(h), Head(temp))
     /\ arp_pending' = IF h \in Hosts(arp_pending) THEN arp_pending
                       ELSE <<[ip |-> h, ticks |-> PendingLife]>> \o arp_pending
  /\ temp' = Tail(temp)
  /\ UNCHANGED <<dst, calling, newest, arp_table, asked, arp_ip, ringVars, stateVars>>

\* prepare_ip, prepare_udp : a bad length, a host of another net, or no memory for an entry
PrepareDrop ==
  /\ temp # << >> /\ arp_ip = NoHost
  /\ completed' = Completed({Head(temp)})
  /\ temp' = Tail(temp)
  /\ UNCHANGED <<dst, list, cancel_state, ext, calling, newest, arpVars, arp_ip, ringVars, stateVars>>

\* ARPTable::add : a new entry is first in the list, if there is memory
Refreshed(h) == LET new == [ip |-> h, ticks |-> LifeTime] IN
                IF h \in Known THEN [i \in DOMAIN arp_table |-> IF arp_table[i].ip = h THEN new ELSE arp_table[i]]
                ELSE <<new>> \o arp_table

\* What could be wrong in the code, to show that the properties see it.
ArpDoneKeeps(h) ==    \* the packets that wait for the host are left there
  /\ Serves
  /\ arp_table' = Refreshed(h)
  /\ asked' = [asked EXCEPT ![h] = 0]
  /\ UNCHANGED <<packetVars, arp_pending, handVars, ringVars, stateVars>>

\* What the code does.
\* arp_done : the packets that wait for the host are taken from their entry
ArpDone(h) ==
  /\ Serves
  /\ arp_table' = Refreshed(h) \/ (h \notin Known /\ UNCHANGED arp_table)
  /\ asked' = [asked EXCEPT ![h] = 0]
  /\ arp_pending' = SelectSeq(arp_pending, LAMBDA e : e.ip # h)
  /\ GetList(Pending(h)) /\ arp_ip' = h
  /\ UNCHANGED <<dst, calling, completed, newest, ringVars, stateVars>>

\* arp_done : and sent
ArpSend ==
  /\ temp # << >> /\ arp_ip # NoHost
  /\ PutOn(Slot(put_ind), Head(temp))
  /\ temp' = Tail(temp)
  /\ UNCHANGED <<dst, calling, newest, arpVars, arp_ip, ringVars, stateVars>>

NextInd(i) == (i + 1) % SendLife

\* From get_ind to put_ind
Filled == [n \in 1..((((put_ind - get_ind + SendLife) % SendLife) + 1)) |-> (get_ind + n - 1) % SendLife]

\* outbound : TxSendList::get moves get_ind to the first packet that has no canceller
Outbound ==
  /\ Serves
  /\ LET waiting == FlattenSeq([n \in DOMAIN Filled |-> list[Slot(Filled[n])]])
         gone == {waiting[n] : n \in {n \in DOMAIN waiting : \A m \in 1..(n - 1) : waiting[m] \notin Had(Out)}}
     IN /\ Get(gone)
        /\ completed' = Completed(Had(gone))
        /\ newest' = [h \in Host |-> IF \E p \in Had(gone) : dst[p] = h THEN CHOOSE p \in Had(gone) : TRUE ELSE newest[h]]
        /\ get_ind' = IF Had(gone) = {} THEN put_ind ELSE CHOOSE i \in Slots : \E p \in Had(gone) : ext[p] = Slot(i)
  /\ UNCHANGED <<dst, calling, arpVars, handVars, put_ind, stateVars>>

\* ARPTable::TimeGuard::tick : when an entry is old its host is asked, but one host
\* in a tick; the others wait for their turn
Due(ticks) == ticks < AlertTime /\ ticks % AlertPeriod = 0

Older(e) == [e EXCEPT !.ticks = @ - 1]

\* What could be wrong in the code, to show that the properties see it.
AgedAll(t, e) ==    \* who has no turn is not asked
  CASE e.ticks = 0                     -> t
    [] e.ticks > 0 /\ Due(e.ticks)     -> [table |-> Append(t.table, Older(e)), ask |-> IF t.ask = {} THEN {e.ip} ELSE t.ask]
    [] e.ticks > 0 /\ ~Due(e.ticks)    -> [t EXCEPT !.table = Append(@, Older(e))]

\* What the code does.
Aged(t, e) ==
  CASE e.ticks = 0                                 -> t
    [] e.ticks > 0 /\ Due(e.ticks) /\ t.ask = {}   -> [table |-> Append(t.table, Older(e)), ask |-> {e.ip}]
    [] e.ticks > 0 /\ Due(e.ticks) /\ t.ask # {}   -> [t EXCEPT !.table = Append(@, e)]
    [] e.ticks > 0 /\ ~Due(e.ticks)                -> [t EXCEPT !.table = Append(@, Older(e))]

\* ARPTable::tick
TableTick == LET t == FoldLeft(Aged, [table |-> << >>, ask |-> {}], arp_table)
             IN /\ arp_table' = t.table
                /\ asked' = [h \in Host |-> IF h \notin Hosts(t.table) THEN 0
                                            ELSE asked[h] + IF h \in t.ask THEN 1 ELSE 0]

\* What could be wrong in the code, to show that the properties see it.
PendingAsks(places) ==    \* a host is asked for ever
  places = {} /\ arp_pending' = IF arp_pending = << >> THEN << >> ELSE Append(Tail(arp_pending), Head(arp_pending))

\* What the code does.
\* ARPending::tick : the lists it gives up
PendingTick(places) ==
  \/ arp_pending = << >> /\ places = {} /\ UNCHANGED arp_pending
  \/ /\ arp_pending # << >>
     /\ LET e == Head(arp_pending) IN
        IF e.ticks > 0 THEN arp_pending' = Append(Tail(arp_pending), Older(e)) /\ places = {}
        ELSE arp_pending' = Tail(arp_pending) /\ places = {Pending(e.ip)}

\* What could be wrong in the code, to show that the properties see it.
SendTickKeeps(places) ==    \* get_ind stays, though the slot is given up
  /\ put_ind' = NextInd(put_ind)
  /\ UNCHANGED get_ind
  /\ places = IF put_ind' = get_ind THEN {Slot(get_ind)} ELSE {}

\* What the code does.
\* TxSendList::tick : the next slot is given up, if it is still filled
SendTick(places) ==
  /\ put_ind' = NextInd(put_ind)
  /\ IF put_ind' = get_ind THEN get_ind' = NextInd(get_ind) /\ places = {Slot(get_ind)}
     ELSE UNCHANGED get_ind /\ places = {}

Tick ==
  /\ Serves
  /\ \E late \in {{}} \cup {{Slot(i)} : i \in Slots}, dead \in {{}} \cup {{Pending(h)} : h \in Host} :
        SendTick(late) /\ PendingTick(dead) /\ DropAll(late \cup dead)
  /\ TableTick
  /\ UNCHANGED <<dst, calling, newest, handVars, stateVars>>

Start ==
  /\ state = "stopped" /\ state' = "running"
  /\ arp_table' = << >> /\ asked' = [h \in Host |-> 0]
  /\ enable_flag' = TRUE
  /\ UNCHANGED <<packetVars, arp_pending, handVars, ringVars>>

\* stop : prepare_list.disable()
Stop ==
  /\ Serves /\ state' = "disabled"
  /\ enable_flag' = FALSE
  /\ UNCHANGED <<packetVars, arpVars, handVars, ringVars>>

\* stop : prepare_list.prepare()
StopPrepare ==
  /\ state = "disabled" /\ state' = "stopping"
  /\ GetList(Prepare) /\ arp_ip' = NoHost
  /\ UNCHANGED <<dst, calling, completed, newest, arpVars, ringVars, enable_flag>>

\* stop : send_list.clear(), arp_pending.clear()
StopClear ==
  /\ state = "stopping" /\ temp = << >> /\ state' = "stopped"
  /\ DropAll({Slot(i) : i \in Slots} \cup {Pending(h) : h \in Hosts(arp_pending)})
  /\ arp_pending' = << >>
  /\ put_ind' = 0 /\ get_ind' = 0
  /\ UNCHANGED <<dst, calling, newest, arp_table, asked, handVars, enable_flag>>

Hand == PrepareSend \/ PreparePend \/ PrepareDrop \/ ArpSend

Stops == StopPrepare \/ StopClear

Next ==
  \/ \E p \in Out : (\E h \in Host : Put(p, h)) \/ Cancel(p) \/ CancelCall(p)
  \/ PrepareOutbound \/ Hand \/ (\E h \in Host : ArpDone(h)) \/ Outbound \/ Tick
  \/ Start \/ Stop \/ Stops

Spec == Init /\ [][Next]_vars

\* The device's task runs, prepares what it was signalled for, and ticks; and who
\* has taken a cancel function calls it.  No host answers, and nothing has to be sent.
Fairness == /\ WF_vars(Hand \/ Stops) /\ WF_vars(PrepareOutbound) /\ WF_vars(Tick)
            /\ \A p \in Out : WF_vars(CancelCall(p))

-----------------------------------------------------------------------------
TypeOK == /\ dst \in [Out -> Host \cup {NoHost}]
          /\ list \in [Place -> Seq(Out)] /\ temp \in Seq(Out)
          /\ cancel_state \in [Out -> {"None", "Has", "Cancelled"}]
          /\ ext \in [Out -> Place \cup {NoPlace}]
          /\ calling \subseteq Out
          /\ {put_ind, get_ind} \subseteq Slots
          /\ state \in {"stopped", "running", "disabled", "stopping"}

\* Each packet put is on one list, or in the device's hands, or its canceller's,
\* until it is sent or completed, once; and its canceller finds it where it is.
OneCompletes ==
  TypeOK /\ \A p \in Out :
    LET Times(s) == Len(SelectSeq(s, LAMBDA q : q = p))
        places == Times(temp) + Cardinality({l \in Place : Times(list[l]) = 1})
    IN /\ \A l \in Place : Times(list[l]) = IF l = ext[p] THEN 1 ELSE 0
       /\ IF dst[p] = NoHost \/ completed[p] = 1 THEN completed[p] <= 1 /\ places = 0 /\ p \notin calling
          ELSE completed[p] = 0 /\ places + (IF p \in calling /\ ext[p] = NoPlace THEN 1 ELSE 0) = 1

\* No packet is on a list that nobody will look at: in a slot of the ring that is
\* not between get_ind and put_ind, with a host that has no entry or has answered,
\* or anywhere when the device has stopped.
ListsMatch ==
  /\ \A i \in Slots : list[Slot(i)] # << >> => i \in ToSet(Filled)
  /\ \A h \in Host : list[Pending(h)] # << >> => h \in Hosts(arp_pending)
  /\ Hosts(arp_pending) \cap Known = {}
  /\ state = "stopped" => \A l \in Place : list[l] = << >>

\* The packets to one host are sent in the order they were put, also when some
\* had to wait for it: none that is still on its way is older than one sent.
OrderKept == \A p \in Out : ext[p] # NoPlace \/ p \in ToSet(temp) => p > newest[dst[p]]

\* No host is forgotten that was not asked at each time its entry was due, though
\* one only is asked in a tick.
AskedWhenDue ==
  \A i \in DOMAIN arp_table :
    asked[arp_table[i].ip] = Cardinality({t \in (arp_table[i].ticks + 1)..LifeTime : Due(t)})

\* Each packet put is sent or completed, whether its host answers or not.
AllComplete == <>[]\A p \in Out : dst[p] # NoHost => completed[p] = 1
=============================================================================
