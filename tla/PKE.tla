-------------------------------- MODULE PKE --------------------------------
(***************************************************************************)
(* ClientNegotiant and ServerNegotiant : the handshake that makes the      *)
(* session key of a secure connection.  One point of the network, where    *)
(* clients start one after the other; the server keeps a Proc for it while *)
(* a handshake goes on, and for some time after it has opened the endpoint *)
(* to repeat its last packet.  Packets are lost, repeated and late.  A     *)
(* random number, with the gx that is sent along, is the number of its     *)
(* draw; an encrypted packet is read with its own key only.                *)
(***************************************************************************)
EXTENDS Integers, Sequences

CONSTANTS MaxRetry,  \* 100 in the code
          MaxCount,  \* of setCounts() : the packets that carry parts of the session key
          MaxRuns,   \* bound: the clients of the point
          MaxDraws,  \* bound: how often the server accepts a first packet
          None

VARIABLES client,    \* Engine and Proc of the present client
          runs,      \* the clients so far
          proc,      \* the Proc of the point in the server's map, or None
          draws,     \* the first packets that the server has accepted
          toServer, toClient,  \* the packets sent so far
          opened,    \* history: what epman.open() was called with
          forgotten  \* history: the keys whose last packet was deleted with its Proc

vars == <<client, runs, proc, draws, toServer, toClient, opened, forgotten>>

\* keyGen, of client_nonce and server_nonce
Key(cn, sn) == <<cn, sn>>

\* The packets: in clear, and encrypted by start() and finish().  n is a random
\* number, or the count of a part of the session key.
Clear(type, n)       == [type |-> type, key |-> None, n |-> n]
Secret(type, key, n) == [type |-> type, key |-> key, n |-> n]

\* The types of the packets and of the Procs of the server: None is neither.
Pairs   == Nat \X Nat
PacketTypes == {"Hello", "ServerNonce", "ClientNonce", "ServerAck", "ClientAck", "ServerParam", "ClientParam",
                "FirstServerSKey", "ServerSKey", "ClientSKey", "Done",
                "Exhausted", "NoAlgo", "Failed", "ServerError", "ClientError"}
Packets == [type : PacketTypes, key : {None} \cup Pairs, n : Nat]
Procs   == [step : Nat, sn : Nat, key : {None} \cup Pairs, cur_count : Nat, skey : Seq(Pairs),
            send : {None} \cup Packets, final : {None} \cup Packets, retry : Int]

Hello     == Clear("Hello", 0)           \* build1
Done(key) == Secret("Done", key, 0)      \* build11

-----------------------------------------------------------------------------
\* The client

\* prepare, start
Started(n) == [state |-> "Started", step |-> 2, cn |-> n, key |-> None, cur_count |-> 0, skey |-> << >>,
               send |-> Hello, retry |-> MaxRetry]

\* A client starts when the one before it is done, or gone.
NewClient ==
  /\ runs < MaxRuns
  /\ runs' = runs + 1
  /\ client' = Started(runs + 1)
  /\ toServer' = toServer \cup {Hello}
  /\ UNCHANGED <<proc, draws, toClient, opened, forgotten>>

\* Engine::inbound : the step after c, with the packet m and a new timer
Sends(c, step, m) == [c EXCEPT !.step = step, !.send = m, !.retry = MaxRetry]

Ended(c, state) == [c EXCEPT !.state = state, !.retry = 0]

\* build_error, build_encrypted_error
Failed(c, m) == [Ended(c, "ClientError") EXCEPT !.send = m]

\* process2
Process2(c, m) ==
  CASE m.type \in {"Exhausted", "NoAlgo"} -> {Ended(c, "ServerError")}
    [] m.type = "ServerNonce" -> {Sends([c EXCEPT !.key = Key(c.cn, m.n)], 4, Clear("ClientNonce", c.cn)),
                                  Failed(c, Clear("Failed", 0))}
    [] OTHER -> {}

\* build9 : the client's part of the session key goes with the server's part sn
SendSKey(c, sn, count) ==
  LET next == Sends(c, IF count = 1 THEN 11 ELSE 10, Secret("ClientSKey", c.key, count)) IN
  [next EXCEPT !.cur_count = count - 1, !.skey = Append(@, <<sn, count>>)]

\* process4 to process11 : what becomes of the client with a packet that it can
\* read; nothing, if it drops it
Process(c, m) ==
  CASE c.step = 4 /\ m.type = "ServerAck"   -> {Sends(c, 6, Secret("ClientAck", c.key, 0))}
    [] c.step = 6 /\ m.type = "ServerParam" -> {Sends(c, 8, Secret("ClientParam", c.key, 0))}
    [] c.step = 8 /\ m.type = "FirstServerSKey" -> {SendSKey(c, m.n, m.n), Failed(c, Secret("ClientError", c.key, 0))}
    [] c.step = 10 /\ m.type = "ServerSKey" /\ m.n = c.cur_count -> {SendSKey(c, m.n, m.n)}
    [] c.step = 11 /\ m.type = "Done" -> {Ended(c, "Done")}
    [] c.step \in {8, 11} /\ m.type = "ServerError" -> {Ended(c, "ServerError")}
    [] OTHER -> {}

ClientInbound ==
  /\ client.state = "Started"
  /\ \E m \in toClient :
       client' \in IF client.step = 2 THEN Process2(client, m)
                   ELSE IF m.key = client.key THEN Process(client, m) ELSE {}
  /\ toServer' = IF client'.state \in {"Started", "ClientError"} THEN toServer \cup {client'.send} ELSE toServer
  /\ UNCHANGED <<runs, proc, draws, toClient, opened, forgotten>>

\* Engine::tick : the last packet leaves once more; its ticks are left out
ClientRetry ==
  /\ client.retry > 0
  /\ client' = [client EXCEPT !.retry = @ - 1]
  /\ toServer' = toServer \cup {client.send}
  /\ UNCHANGED <<runs, proc, draws, toClient, opened, forgotten>>

\* Engine::tick : the first tick after the last repetition
ClientTimeout ==
  /\ client.retry = 0 /\ client.state = "Started"
  /\ client' = Ended(client, "Timeout")
  /\ UNCHANGED <<runs, proc, draws, toServer, toClient, opened, forgotten>>

ClientTick == ClientRetry \/ ClientTimeout

-----------------------------------------------------------------------------
\* The server

\* inbound : a packet is answered, and the timer starts again
Answers(p, step, m) ==
  /\ proc' = [p EXCEPT !.step = step, !.send = m, !.retry = MaxRetry]
  /\ toClient' = toClient \cup {m}
  /\ UNCHANGED <<client, runs, toServer>>

Blank == [step |-> 1, sn |-> 0, key |-> None, cur_count |-> 0, skey |-> << >>,
          send |-> None, final |-> None, retry |-> 0]

\* find_or_add
Present == IF proc = None THEN Blank ELSE proc

\* The Proc is deleted, with a last packet or none.
Deleted(packets) ==
  /\ proc' = None
  /\ forgotten' = IF Present.final = None THEN forgotten ELSE forgotten \cup {proc.final.key}
  /\ toClient' = toClient \cup packets
  /\ UNCHANGED <<client, runs, draws, toServer>>

\* The packet goes to process1: the Proc is new, or in process_final.
Expected == Present.step \in {1, 12}

\* What could be wrong in the code, to show that the properties see it: here
\* and below, the operators between two such comments.
AcceptForgets(m) ==    \* the last packet of the handshake before is not kept
  /\ Expected /\ m = Hello /\ draws < MaxDraws
  /\ draws' = draws + 1
  /\ Answers([Present EXCEPT !.sn = draws + 1, !.key = None, !.final = None], 3, Clear("ServerNonce", draws + 1))
  /\ UNCHANGED <<opened, forgotten>>

\* What the code does.
\* process1 : the machines are made anew, and have no key; what process_final repeats is kept
Accept(m) ==
  /\ Expected /\ m = Hello /\ draws < MaxDraws
  /\ draws' = draws + 1
  /\ Answers([Present EXCEPT !.sn = draws + 1, !.key = None], 3, Clear("ServerNonce", draws + 1))
  /\ UNCHANGED <<opened, forgotten>>

\* process1, prepare_error : no memory, or too many clients; and any other packet
\* may look like a first one, of an unknown client with no algorithm
Refuse(m) ==
  /\ Expected
  /\ \/ Deleted({Clear("Exhausted", 0)}) /\ (m = Hello \/ proc = None)
     \/ Deleted({Clear("NoAlgo", 0)}) /\ m # Hello
  /\ UNCHANGED opened

\* process3
Inbound3(m) ==
  /\ proc.step = 3 /\ m.type = "ClientNonce"
  /\ LET key == Key(m.n, proc.sn) IN Answers([proc EXCEPT !.key = key], 5, Secret("ServerAck", key, 0))
  /\ UNCHANGED <<draws, opened, forgotten>>

\* The server reads the packet.
Reads(m, type) == m.type = type /\ m.key = proc.key

\* process5
Inbound5(m) ==
  /\ proc.step = 5 /\ Reads(m, "ClientAck")
  /\ Answers([proc EXCEPT !.final = None], 7, Secret("ServerParam", proc.key, 0))
  /\ UNCHANGED <<draws, opened, forgotten>>

\* process7
Inbound7(m) ==
  /\ proc.step = 7 /\ Reads(m, "ClientParam")
  /\ Answers([proc EXCEPT !.cur_count = MaxCount, !.skey = << >>], 9, Secret("FirstServerSKey", proc.key, MaxCount))
  /\ UNCHANGED <<draws, opened, forgotten>>

\* process9 : the session key with the client's part of count n
Grown(n) == Append(proc.skey, <<proc.cur_count, n>>)

\* What could be wrong in the code, to show that the properties see it.
PartAny(m) == proc.step = 9 /\ Reads(m, "ClientSKey")    \* the count is not compared

\* What the code does.
Part(m) == proc.step = 9 /\ Reads(m, "ClientSKey") /\ m.n = proc.cur_count

\* process9 : another part is asked for
Inbound9(m) ==
  /\ Part(m) /\ proc.cur_count > 1
  /\ Answers([proc EXCEPT !.cur_count = @ - 1, !.skey = Grown(m.n)], 9,
             Secret("ServerSKey", proc.key, proc.cur_count - 1))
  /\ UNCHANGED <<draws, opened, forgotten>>

\* process9 : the endpoint is opened
Inbound9Last(m) ==
  /\ Part(m) /\ proc.cur_count = 1
  /\ opened' = Append(opened, [key |-> proc.key, skey |-> Grown(m.n)])
  /\ proc' = [proc EXCEPT !.step = 12, !.cur_count = 0, !.skey = Grown(m.n), !.final = Done(proc.key), !.retry = 1]
  /\ toClient' = toClient \cup {Done(proc.key)}
  /\ UNCHANGED <<client, runs, draws, toServer, forgotten>>

\* process7, process9 : no memory, or epman.open() fails
InboundFails(m) ==
  /\ \/ proc.step = 7 /\ Reads(m, "ClientParam")
     \/ Part(m) /\ proc.cur_count = 1
  /\ Deleted({Secret("ServerError", proc.key, 0)})
  /\ UNCHANGED opened

\* process3, process9 : process_error
InboundError(m) ==
  /\ \/ proc.step = 3 /\ m.type = "Failed"
     \/ proc.step = 9 /\ Reads(m, "ClientError")
  /\ Deleted({})
  /\ UNCHANGED opened

Used(m) == CASE proc.step = 3 -> m.type \in {"ClientNonce", "Failed"}
             [] proc.step = 5 -> Reads(m, "ClientAck")
             [] proc.step = 7 -> Reads(m, "ClientParam")
             [] proc.step = 9 -> Part(m) \/ Reads(m, "ClientError")
             [] proc.step = 12 -> m = Hello

\* What could be wrong in the code, to show that the properties see it.
DropKeepsAlive(m) ==   \* the timer starts again
  /\ ~Used(m)
  /\ proc' = [proc EXCEPT !.retry = MaxRetry]
  /\ UNCHANGED <<client, runs, draws, toServer, toClient, opened, forgotten>>

\* What the code does.
\* InboundDrop, InboundFinal : the last packet is repeated
Drop(m) ==
  /\ ~Used(m) /\ proc.final # None
  /\ toClient' = toClient \cup {proc.final}
  /\ UNCHANGED <<client, runs, proc, draws, toServer, opened, forgotten>>

ServerInbound ==
  \E m \in toServer :
    \/ Accept(m) \/ Refuse(m)
    \/ /\ proc # None
       /\ \/ Inbound3(m) \/ Inbound5(m) \/ Inbound7(m) \/ Inbound9(m) \/ Inbound9Last(m)
          \/ InboundFails(m) \/ InboundError(m) \/ Drop(m)

\* Proc::tick : the packet is repeated
ServerRetry ==
  /\ proc # None /\ proc.retry > 1
  /\ proc' = [proc EXCEPT !.retry = @ - 1]
  /\ toClient' = toClient \cup {proc.send}
  /\ UNCHANGED <<client, runs, draws, toServer, opened, forgotten>>

\* Proc::tick : the Proc has repeated it often enough
ServerTimeout == proc # None /\ proc.retry = 1 /\ Deleted({}) /\ UNCHANGED opened

ServerTick == ServerRetry \/ ServerTimeout

-----------------------------------------------------------------------------
Init == /\ client = Started(1) /\ runs = 1
        /\ proc = None /\ draws = 0
        /\ toServer = {Hello} /\ toClient = {}
        /\ opened = << >> /\ forgotten = {}

Next == NewClient \/ ClientInbound \/ ClientTick \/ ServerInbound \/ ServerTick

Spec == Init /\ [][Next]_vars

\* The devices of both sides give ticks.
Fairness == WF_vars(ClientTick) /\ WF_vars(ServerTick)

FairSpec == Spec /\ Fairness

-----------------------------------------------------------------------------
\* A client that is done has an endpoint at the server with its session key, and
\* every client has one at most: parts of the key that are late, repeated, or of
\* another handshake never make another key, nor open it again.
SameSession ==
  /\ client.state = "Done" => \E i \in DOMAIN opened : opened[i] = [key |-> client.key, skey |-> client.skey]
  /\ \A i, j \in DOMAIN opened : i # j => opened[i].key[1] # opened[j].key[1]

\* While a client waits to hear that its endpoint is open, the server has kept
\* the packet that says so, and repeats it, in whatever step it is by then: it
\* loses it only with its Proc, which the timer deletes, or a packet that looks
\* like a first one.
DoneIsRepeated ==
  \A i \in DOMAIN opened :
    client.state = "Started" /\ client.step = 11 /\ opened[i].key = client.key
      => opened[i].key \in forgotten \/ (proc # None /\ proc.final = Done(client.key))

\* Every handshake ends on both sides, however long its packets go on to come.
HandshakeOver == client.state # "Started" /\ proc = None
HandshakeEnds == <>[]HandshakeOver

\* The server answers "No algo" to no client whose algorithm it has accepted,
\* and whose endpoint it has opened.
NoAlgoMeansNone ==
  [][client.step = 11 /\ Clear("NoAlgo", 0) \in toClient' \ toClient
       => \A i \in DOMAIN opened : opened[i].key # client.key]_vars
=============================================================================
