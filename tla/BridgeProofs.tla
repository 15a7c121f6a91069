---------------------------- MODULE BridgeProofs ----------------------------
(***************************************************************************)
(* Theorems about Bridge.                                                  *)
(***************************************************************************)
EXTENDS Bridge, SequenceTheorems, TLAPS

-----------------------------------------------------------------------------
(* What holds even when the framing is lost.                               *)

CountInv ==
    /\ Len(data) = IF cpc # "idle" /\ req.write THEN req.size ELSE 0
    /\ cpc = "idle" => sent = 0
    /\ cpc = "send" => sent <= Len(data)
    /\ cpc \in {"header", "data"} => sent = Len(data) + 1

PlaceInv ==
    /\ pc \notin {"payload", "data", "stopped"} => done = 0
    /\ pc = "refuse" => msg.size > Limit
    /\ pc \in {"payload", "serve", "reply", "data"} => msg.size <= Limit
    /\ pc = "payload" => msg.write
    /\ pc = "data" => ~msg.write
    /\ pc = "stopped" => ~open

GeneralInv == TypeOK /\ CountInv /\ PlaceInv /\ BufferInBounds

-----------------------------------------------------------------------------
(* What holds until a write beyond Limit: which units are in the stream.    *)

\* The units of the request, and how many the server has taken.
Asked(k) == IF k = 0 THEN req ELSE data[k]
Taken == sent - Len(toServer)

RequestInv ==
    /\ req.write => req.size <= Limit
    /\ Len(toServer) <= sent
    /\ \A i \in 1 .. Len(toServer) : toServer[i] = Asked(Taken + i - 1)

\* The server has the header, or all of the request.
HoldsInv ==
    /\ pc = "header" => Taken \in {0, Len(data) + 1}
    /\ pc # "stopped" /\ Taken > 0 => msg = req
    /\ pc = "payload" => Taken = done + 1 /\ \A i \in 1 .. done : payload[i] = data[i]
    /\ pc \in {"serve", "reply", "refuse", "data"} =>
         Taken = Len(data) + 1 /\ cpc \in {"header", "data"}
    /\ pc = "serve" => \A i \in 1 .. Len(data) : payload[i] = data[i]

\* The units of the reply; how many the server has put into the stream, and how
\* many the device has taken out.
Replied(k) == IF k = 0 THEN status ELSE payload[k]
ReplyLen == IF req.write \/ req.size > Limit THEN 0 ELSE req.size
Put ==
    IF pc \in {"payload", "serve", "reply", "refuse"} \/ Taken = 0 THEN 0
    ELSE IF pc = "data" THEN done + 1 ELSE ReplyLen + 1
Gotten == IF cpc = "data" THEN Len(got.data) + 1 ELSE 0

ReplyInv ==
    /\ cpc = "idle" => toClient = <<>>
    /\ cpc = "data" => Len(got.data) < ReplyLen
    /\ cpc # "data" => got = None
    /\ pc # "stopped" =>
         /\ Len(toClient) = Put - Gotten
         /\ \A i \in 1 .. Len(toClient) : toClient[i] = Replied(Gotten + i - 1)
         /\ cpc = "data" => got.status = status
         /\ cpc = "data" => \A i \in 1 .. Len(got.data) : got.data[i] = payload[i]

SyncInv == ~overran => RequestInv /\ HoldsInv /\ ReplyInv
-----------------------------------------------------------------------------
LEMMA AsRange ==
    ASSUME NEW S, NEW u
    PROVE  As(S, u) \subseteq S /\ (u \in S => As(S, u) = {u})
BY DEF As

LEMMA RequestSizes ==
    ASSUME NEW r \in Request
    PROVE  /\ r \in bridge_msg /\ r.size \in Nat /\ r.write \in BOOLEAN /\ r.dma \in BOOLEAN
           /\ r.addr \in Nat /\ r.size <= Limit + 1
           /\ ~r.dma => r.size = 1
<1>1. Limit \in Nat \ {0} /\ Words \in Nat
  BY BridgeAssumption
<1>2. CASE r \in [write : BOOLEAN, dma : {FALSE}, addr : Register .. Outside, size : {1}]
  <2>1. r.write \in BOOLEAN /\ r.dma = FALSE /\ r.addr \in 0 .. Words + 1 /\ r.size = 1
    BY <1>2 DEF Register, Outside
  <2>2. r = [write |-> r.write, dma |-> r.dma, addr |-> r.addr, size |-> r.size]
    BY <1>2
  <2>3. r.size \in 0 .. Limit + 1 /\ r.addr \in Register .. Outside
    BY <1>1, <2>1 DEF Register, Outside
  <2>4. r \in bridge_msg
    BY <2>1, <2>2, <2>3 DEF bridge_msg
  <2>5. r.size \in Nat /\ r.addr \in Nat /\ r.size <= Limit + 1
    BY <1>1, <2>1
  <2>6. QED
    BY <2>1, <2>4, <2>5
<1>3. CASE r \in [write : BOOLEAN, dma : {TRUE}, addr : 1 .. Outside, size : 0 .. Limit + 1]
  <2>1. /\ r.write \in BOOLEAN /\ r.dma = TRUE /\ r.addr \in 1 .. Words + 1
        /\ r.size \in 0 .. Limit + 1
    BY <1>3 DEF Outside
  <2>2. r = [write |-> r.write, dma |-> r.dma, addr |-> r.addr, size |-> r.size]
    BY <1>3
  <2>3. r.addr \in Register .. Outside
    BY <1>1, <2>1 DEF Register, Outside
  <2>4. r \in bridge_msg
    BY <2>1, <2>2, <2>3 DEF bridge_msg
  <2>5. r.size \in Nat /\ r.addr \in Nat /\ r.size <= Limit + 1
    BY <1>1, <2>1
  <2>6. QED
    BY <2>1, <2>4, <2>5
<1>4. QED
  BY <1>2, <1>3 DEF Request

\* What is left of a stream when its first unit is taken.
LEMMA TakeUnit ==
    ASSUME NEW S, NEW s \in Seq(S), s # <<>>, Len(s) <= Cap
    PROVE  /\ Tail(s) \in Seq(S) /\ Len(Tail(s)) <= Cap /\ Len(Tail(s)) = Len(s) - 1
           /\ Head(s) = s[1] /\ Len(s) \in Nat \ {0}
           /\ \A i \in 1 .. Len(s) - 1 : Tail(s)[i] = s[i + 1]
<1>1. Cap \in Nat
  BY BridgeAssumption
<1>2. QED
  BY <1>1, HeadTailProperties

LEMMA GeneralInit == Init => GeneralInv
<1>1. SUFFICES ASSUME Init
               PROVE  GeneralInv
  OBVIOUS
<1>2. Limit \in Nat \ {0} /\ Words \in Nat /\ Cap \in Nat /\ Zero \in Data
  BY BridgeAssumption
<1>3. req \in Request /\ msg \in bridge_msg
  <2>1. 0 \in Register .. Outside /\ 0 \in 0 .. Limit + 1
    BY <1>2 DEF Register, Outside
  <2>2. req = [write |-> FALSE, dma |-> FALSE, addr |-> 0, size |-> 1]
    BY <1>1 DEF Init
  <2>3. req \in [write : BOOLEAN, dma : {FALSE}, addr : Register .. Outside, size : {1}]
    BY <2>1, <2>2
  <2>4. msg = [write |-> FALSE, dma |-> FALSE, addr |-> 0, size |-> 0]
    BY <1>1 DEF Init
  <2>5. msg \in bridge_msg
    BY <2>1, <2>4 DEF bridge_msg
  <2>6. QED
    BY <2>3, <2>5 DEF Request
<1>4. got \in Reply /\ result \in Reply /\ data \in Seq(Data)
  BY <1>1 DEF Init, None, Reply
<1>5. TypeOK
  <2>1. /\ toServer \in Seq(bridge_msg \cup Data) /\ Len(toServer) <= Cap
        /\ toClient \in Seq(Status \cup Data) /\ Len(toClient) <= Cap
    BY <1>1, <1>2 DEF Init
  <2>2. reg \in Data /\ mem \in [1 .. Words -> Data] /\ payload \in [1 .. Limit -> Data]
    BY <1>1, <1>2 DEF Init
  <2>3. done \in 0 .. Limit - 1 /\ sent \in 0 .. Limit + 2
    BY <1>1, <1>2 DEF Init
  <2>4. QED
    BY <1>1, <1>3, <1>4, <2>1, <2>2, <2>3 DEF Init, TypeOK, Status
<1>6. CountInv /\ PlaceInv /\ BufferInBounds
  BY <1>1, <1>2 DEF Init, CountInv, PlaceInv, BufferInBounds
<1>7. QED
  BY <1>5, <1>6 DEF GeneralInv

LEMMA RecvHeaderGeneral ==
    ASSUME GeneralInv, RecvHeader
    PROVE  GeneralInv'
<1> USE DEF GeneralInv
<1>0. msg' \in bridge_msg
  BY AsRange DEF RecvHeader
<1>1. msg' \in bridge_msg /\ msg'.size \in Nat
  BY <1>0, BridgeAssumption DEF bridge_msg
<1>a. toServer' \in Seq(bridge_msg \cup Data) /\ Len(toServer') <= Cap
  BY TakeUnit DEF RecvHeader, TypeOK
<1>2. TypeOK'
  BY <1>1, <1>a DEF RecvHeader, TypeOK, Status, client, target
<1>3. CountInv' /\ PlaceInv' /\ BufferInBounds'
  BY <1>1, BridgeAssumption DEF RecvHeader, CountInv, PlaceInv, BufferInBounds, client
<1>4. QED
  BY <1>2, <1>3

LEMMA RecvPayloadGeneral ==
    ASSUME GeneralInv, RecvPayload
    PROVE  GeneralInv'
<1> USE DEF GeneralInv
<1>1. PICK w \in As(Data, Head(toServer)) : payload' = [payload EXCEPT ![done + 1] = w]
  BY DEF RecvPayload
<1>2. w \in Data
  BY AsRange
<1>3. msg.size \in Nat /\ done \in Nat /\ Limit \in Nat /\ done < msg.size /\ msg.size <= Limit
  BY BridgeAssumption DEF RecvPayload, TypeOK, bridge_msg, BufferInBounds
<1>a. toServer' \in Seq(bridge_msg \cup Data) /\ Len(toServer') <= Cap
  BY TakeUnit DEF RecvPayload, TypeOK
<1>b. payload' \in [1 .. Limit -> Data]
  BY <1>1, <1>2 DEF TypeOK
<1>c. done' \in 0 .. Limit - 1
  BY <1>3 DEF RecvPayload
<1>4. TypeOK'
  BY <1>a, <1>b, <1>c DEF RecvPayload, TypeOK, client, target
<1>5. CountInv' /\ PlaceInv' /\ BufferInBounds'
  BY <1>3 DEF RecvPayload, CountInv, PlaceInv, BufferInBounds, client
<1>6. QED
  BY <1>4, <1>5

LEMMA ServeGeneral ==
    ASSUME GeneralInv, Serve
    PROVE  GeneralInv'
<1> USE DEF GeneralInv
<1>1. reg' \in Data /\ mem' \in [1 .. Words -> Data]
  <2>1. CASE Write
    <3>1. msg.write /\ payload \in [1 .. Limit -> Data] /\ Size \in Nat /\ Limit \in Nat \ {0}
          /\ Words \in Nat /\ msg.addr \in Nat /\ Size <= Limit
      BY <2>1, BridgeAssumption DEF Write, Serve, TypeOK, PlaceInv, Size, bridge_msg, Register,
         Outside
    <3>2. CASE reg' = payload[1] /\ UNCHANGED mem
      BY <3>1, <3>2 DEF TypeOK
    <3>3. CASE UNCHANGED reg /\ mem' = [a \in 1 .. Words |->
                       IF a \in Block THEN payload[a - msg.addr + 1] ELSE mem[a]]
      <4>1. \A a \in 1 .. Words : a \in Block => payload[a - msg.addr + 1] \in Data
        BY <3>1 DEF Block
      <4>2. QED
        BY <3>3, <4>1 DEF TypeOK
    <3>4. QED
      BY <2>1, <3>2, <3>3 DEF Write
  <2>2. CASE UNCHANGED target
    BY <2>2 DEF TypeOK, target
  <2>3. QED
    BY <2>1, <2>2 DEF Serve, Read, Fail
<1>2. payload' \in [1 .. Limit -> Data]
  <2>1. CASE Read
    <3>1. Limit \in Nat \ {0} /\ Zero \in Data /\ Words \in Nat /\ msg.addr \in Nat /\ Size \in Nat
      BY BridgeAssumption DEF TypeOK, bridge_msg, Register, Outside, Size
    <3>2. CASE payload' = [payload EXCEPT ![1] = reg]
      BY <3>1, <3>2 DEF TypeOK
    <3>3. CASE Inside /\ payload' = [i \in 1 .. Limit |->
                           IF i <= Size THEN mem[msg.addr + i - 1] ELSE payload[i]]
      <4>1. \A i \in 1 .. Limit : i <= Size => mem[msg.addr + i - 1] \in Data
        <5>1. SUFFICES ASSUME NEW i \in 1 .. Limit, i <= Size
                       PROVE  msg.addr + i - 1 \in 1 .. Words
          BY DEF TypeOK
        <5>2. msg.addr + i - 1 \in Block
          BY <3>1, <5>1 DEF Block
        <5>3. QED
          BY <3>3, <5>2 DEF Inside
      <4>2. QED
        BY <3>3, <4>1 DEF TypeOK
    <3>4. QED
      BY <2>1, <3>2, <3>3 DEF Read
  <2>2. CASE Write \/ Fail
    BY <2>2, BridgeAssumption DEF Write, Fail, TypeOK
  <2>3. QED
    BY <2>1, <2>2 DEF Serve
<1>3. TypeOK'
  BY <1>1, <1>2 DEF Serve, Write, Read, Fail, TypeOK, Status, client, stream
<1>4. CountInv' /\ PlaceInv' /\ BufferInBounds'
  BY DEF Serve, CountInv, PlaceInv, BufferInBounds, client
<1>5. QED
  BY <1>3, <1>4

LEMMA SendReplyGeneral ==
    ASSUME GeneralInv, SendReply
    PROVE  GeneralInv'
<1> USE DEF GeneralInv
<1>1. toClient' \in Seq(Status \cup Data) /\ Len(toClient') <= Cap
  BY BridgeAssumption DEF SendReply, Room, TypeOK
<1>2. TypeOK'
  BY <1>1 DEF SendReply, TypeOK, client, target
<1>3. CountInv' /\ PlaceInv' /\ BufferInBounds'
  BY BridgeAssumption DEF SendReply, CountInv, PlaceInv, BufferInBounds, TypeOK, bridge_msg, client
<1>4. QED
  BY <1>2, <1>3

LEMMA SendPayloadGeneral ==
    ASSUME GeneralInv, SendPayload
    PROVE  GeneralInv'
<1> USE DEF GeneralInv
<1>1. /\ msg.size \in Nat /\ done \in Nat /\ Limit \in Nat /\ done < msg.size /\ msg.size <= Limit
      /\ Cap \in Nat
  BY BridgeAssumption DEF SendPayload, TypeOK, bridge_msg, BufferInBounds
<1>2. payload[done + 1] \in Data
  BY <1>1 DEF TypeOK
<1>3. toClient' \in Seq(Status \cup Data) /\ Len(toClient') <= Cap
  BY <1>1, <1>2 DEF SendPayload, Room, TypeOK
<1>4. TypeOK'
  BY <1>1, <1>3 DEF SendPayload, TypeOK, client, target
<1>5. CountInv' /\ PlaceInv' /\ BufferInBounds'
  BY <1>1 DEF SendPayload, CountInv, PlaceInv, BufferInBounds, client
<1>6. QED
  BY <1>4, <1>5

LEMMA AskGeneral ==
    ASSUME GeneralInv, Ask
    PROVE  GeneralInv'
<1> USE DEF GeneralInv
<1>1. req' \in Request /\ req'.size \in Nat /\ req'.size <= Limit + 1
  BY RequestSizes DEF Ask
<1>2. data' \in Seq(Data) /\ Len(data') = IF req'.write THEN req'.size ELSE 0
  <2>1. data' \in IF req'.write THEN [1 .. req'.size -> Data] ELSE {<<>>}
    BY DEF Ask
  <2>2. CASE req'.write
    <3>1. data' \in [1 .. req'.size -> Data]
      BY <2>1, <2>2
    <3>2. QED
      BY <1>1, <2>2, <3>1
  <2>3. CASE ~req'.write
    BY <2>1, <2>3
  <2>4. QED
    BY <2>2, <2>3
<1>3. TypeOK'
  BY <1>1, <1>2, RequestSizes, BridgeAssumption DEF Ask, TypeOK, Reply, None, server, stream, target
<1>4. CountInv' /\ PlaceInv' /\ BufferInBounds'
  BY <1>1, <1>2 DEF Ask, CountInv, PlaceInv, BufferInBounds, server
<1>5. QED
  BY <1>3, <1>4

LEMMA SendGeneral ==
    ASSUME GeneralInv, Send
    PROVE  GeneralInv'
<1> USE DEF GeneralInv
<1>1. /\ sent \in Nat /\ Len(data) \in Nat /\ sent <= Len(data) /\ Len(data) <= Limit + 1
      /\ Limit \in Nat /\ Cap \in Nat /\ req \in bridge_msg
  BY RequestSizes, BridgeAssumption DEF Send, CountInv, TypeOK
<1>2. sent # 0 => data[sent] \in Data
  BY <1>1 DEF TypeOK
<1>3. toServer' \in Seq(bridge_msg \cup Data) /\ Len(toServer') <= Cap
  BY <1>1, <1>2 DEF Send, Room, TypeOK
<1>4. TypeOK'
  BY <1>1, <1>3 DEF Send, TypeOK, server, target
<1>5. CountInv' /\ PlaceInv' /\ BufferInBounds'
  BY <1>1 DEF Send, CountInv, PlaceInv, BufferInBounds, server
<1>6. QED
  BY <1>4, <1>5

LEMMA GetGeneral ==
    ASSUME GeneralInv, GetHeader \/ GetPayload
    PROVE  GeneralInv'
<1> USE DEF GeneralInv
<1>1. /\ toClient \in Seq(Status \cup Data) /\ toClient # <<>> /\ toClient' = Tail(toClient)
      /\ Len(toClient) <= Cap /\ Cap \in Nat
  BY BridgeAssumption DEF TypeOK, GetHeader, GetPayload
<1>2. toClient' \in Seq(Status \cup Data) /\ Len(toClient') <= Cap
  BY <1>1, TakeUnit
<1>3. got' \in Reply /\ result' \in Reply
  <2>1. CASE GetHeader
    <3>1. PICK s \in As(Status, Head(toClient)) :
            \/ got' = [status |-> s, data |-> <<>>] /\ UNCHANGED result
            \/ got' = None /\ result' = [status |-> s, data |-> <<>>]
      BY <2>1 DEF GetHeader, Finish
    <3>2. [status |-> s, data |-> <<>>] \in Reply /\ None \in Reply
      BY AsRange DEF Reply, None
    <3>3. QED
      BY <3>1, <3>2 DEF TypeOK
  <2>2. CASE GetPayload
    <3>1. PICK w \in As(Data, Head(toClient)) :
            \/ got' = [got EXCEPT !.data = Append(@, w)] /\ UNCHANGED result
            \/ got' = None /\ result' = [got EXCEPT !.data = Append(@, w)]
      BY <2>2 DEF GetPayload, Finish
    <3>2. w \in Data
      BY AsRange
    <3>3. got.data \in Seq(Data) /\ got.status \in Status \cup {"none"}
      BY DEF TypeOK, Reply
    <3>4. Append(got.data, w) \in Seq(Data)
      BY <3>2, <3>3
    <3>5. [got EXCEPT !.data = Append(@, w)] \in Reply
      BY <3>3, <3>4 DEF TypeOK, Reply
    <3>6. None \in Reply
      BY DEF Reply, None
    <3>7. QED
      BY <3>1, <3>5, <3>6 DEF TypeOK
  <2>3. QED
    BY <2>1, <2>2
<1>4. \/ UNCHANGED <<data, sent>> /\ cpc' = "data" /\ cpc \in {"header", "data"}
      \/ data' = <<>> /\ sent' = 0 /\ cpc' = "idle"
  BY DEF GetHeader, GetPayload, Finish
<1>a. data' \in Seq(Data) /\ sent' \in 0 .. Limit + 2
  <2>1. <<>> \in Seq(Data) /\ 0 \in 0 .. Limit + 2
    BY BridgeAssumption
  <2>2. QED
    BY <1>4, <2>1 DEF TypeOK
<1>5. TypeOK'
  BY <1>2, <1>3, <1>4, <1>a DEF TypeOK, GetHeader, GetPayload, server, target
<1>6. CountInv' /\ PlaceInv' /\ BufferInBounds'
  BY <1>4 DEF GetHeader, GetPayload, CountInv, PlaceInv, BufferInBounds, server
<1>7. QED
  BY <1>5, <1>6

LEMMA GeneralStep ==
    ASSUME GeneralInv, [Next]_vars
    PROVE  GeneralInv'
<1> USE DEF GeneralInv
<1>1. CASE RecvFails \/ SendFails
  BY <1>1 DEF RecvFails, SendFails, TypeOK, CountInv, PlaceInv, BufferInBounds, client, target,
     stream
<1>2. CASE Close
  BY <1>2 DEF Close, TypeOK, CountInv, PlaceInv, BufferInBounds, client, target, stream, server
<1>3. CASE UNCHANGED vars
  BY <1>3 DEF vars, TypeOK, CountInv, PlaceInv, BufferInBounds, client, target, stream, server
<1>4. QED
  BY <1>1, <1>2, <1>3, RecvHeaderGeneral, RecvPayloadGeneral, ServeGeneral, SendReplyGeneral,
     SendPayloadGeneral, AskGeneral, SendGeneral, GetGeneral DEF Next, Server, Device

LEMMA GeneralInvAlways == Spec => []GeneralInv
BY GeneralInit, GeneralStep, PTL DEF Spec

\* Every variable keeps its type, for any sizes and any data.
THEOREM BridgeTypeCorrect == Spec => []TypeOK
BY GeneralInvAlways, PTL DEF GeneralInv

\* The buffer of the server is never written or read behind its end, lost framing
\* or not.
THEOREM BufferNeverOverrun == Spec => []BufferInBounds
BY GeneralInvAlways, PTL DEF GeneralInv

-----------------------------------------------------------------------------
(* SyncInv is inductive.                                                   *)

LEMMA Numbers ==
    ASSUME GeneralInv
    PROVE  /\ Limit \in Nat \ {0} /\ Cap \in Nat \ {0} /\ Words \in Nat
           /\ sent \in Nat /\ done \in Nat /\ Len(data) \in Nat /\ Len(got.data) \in Nat
           /\ Len(toServer) \in Nat /\ Len(toClient) \in Nat
           /\ msg.size \in Nat /\ msg.write \in BOOLEAN
           /\ req \in bridge_msg /\ req.size \in Nat /\ req.write \in BOOLEAN
           /\ sent <= Len(data) + 1 /\ Taken \in Int /\ ReplyLen \in Nat
           /\ Len(data) > 0 => req.write /\ Len(data) = req.size
           /\ cpc = "idle" \/ (cpc = "send" /\ sent <= Len(data))
              \/ (cpc \in {"header", "data"} /\ sent = Len(data) + 1)
<1> USE DEF GeneralInv
<1>1. Limit \in Nat \ {0} /\ Cap \in Nat \ {0} /\ Words \in Nat
  BY BridgeAssumption
<1>2. req \in bridge_msg /\ req.size \in Nat /\ req.write \in BOOLEAN
  BY RequestSizes DEF TypeOK
<1>3. msg.size \in Nat /\ msg.write \in BOOLEAN
  BY <1>1 DEF TypeOK, bridge_msg
<1>4. /\ sent \in Nat /\ done \in Nat /\ Len(data) \in Nat
      /\ Len(toServer) \in Nat /\ Len(toClient) \in Nat
  BY <1>1 DEF TypeOK
<1>5. Len(got.data) \in Nat
  BY DEF TypeOK, Reply
<1>6. /\ Len(data) > 0 => req.write /\ Len(data) = req.size
      /\ sent <= Len(data) + 1
      /\ cpc = "idle" \/ (cpc = "send" /\ sent <= Len(data))
         \/ (cpc \in {"header", "data"} /\ sent = Len(data) + 1)
  BY <1>4 DEF CountInv, TypeOK
<1>7. Taken \in Int /\ ReplyLen \in Nat
  BY <1>2, <1>4 DEF Taken, ReplyLen
<1>8. QED
  BY <1>1, <1>2, <1>3, <1>4, <1>5, <1>6, <1>7

\* Nothing of the reply has been sent, so the device has none of it.
LEMMA NotYet ==
    ASSUME GeneralInv, ReplyInv, pc # "stopped", Put = 0
    PROVE  Len(toClient) = 0 /\ Gotten = 0 /\ cpc # "data"
<1>1. Len(toClient) \in Nat /\ Len(got.data) \in Nat /\ Len(toClient) = 0 - Gotten
  BY Numbers DEF ReplyInv
<1>2. Gotten \in Nat /\ (cpc = "data" => Gotten > 0)
  BY <1>1 DEF Gotten
<1>3. QED
  BY <1>1, <1>2

\* A reply the device may be getting is one that the server has begun to send.
LEMMA UntouchedReply ==
    ASSUME GeneralInv, ReplyInv, pc # "stopped", Put = 0, Put' = 0,
           UNCHANGED <<toClient, cpc, got>>
    PROVE  ReplyInv'
<1>1. Len(toClient) = 0 /\ Gotten = 0 /\ cpc # "data"
  BY NotYet
<1>2. Gotten' = 0
  BY <1>1 DEF Gotten
<1>3. QED
  BY <1>1, <1>2 DEF ReplyInv

LEMMA RecvHeaderSync ==
    ASSUME GeneralInv, ~overran, RequestInv, HoldsInv, ReplyInv, RecvHeader
    PROVE  RequestInv' /\ HoldsInv' /\ ReplyInv'
<1> USE Numbers
<1>1. /\ pc = "header" /\ toServer \in Seq(bridge_msg \cup Data) /\ toServer # <<>>
      /\ toServer' = Tail(toServer) /\ Len(toServer) <= Cap /\ done = 0 /\ done' = 0
      /\ UNCHANGED <<req, data, sent, cpc, toClient, got>>
  BY DEF RecvHeader, GeneralInv, TypeOK, PlaceInv, client
<1>2. /\ Len(toServer') = Len(toServer) - 1 /\ Head(toServer) = toServer[1] /\ Len(toServer) > 0
      /\ \A i \in 1 .. Len(toServer) - 1 : toServer'[i] = toServer[i + 1]
  BY <1>1, TakeUnit
<1>3. Taken = 0 /\ Taken' = 1 /\ sent > 0
  BY <1>1, <1>2 DEF HoldsInv, RequestInv, Taken
<1>4. Head(toServer) = req
  BY <1>2, <1>3 DEF RequestInv, Asked
<1>5. msg' = req
  BY <1>4, AsRange DEF RecvHeader
<1>6. RequestInv'
  <2>1. Len(toServer') <= sent
    BY <1>1, <1>2 DEF RequestInv
  <2>2. SUFFICES ASSUME NEW i \in 1 .. Len(toServer')
                 PROVE  toServer'[i] = Asked(Taken' + i - 1)
    BY <1>1, <2>1 DEF RequestInv, Asked
  <2>3. i + 1 \in 1 .. Len(toServer) /\ i \in 1 .. Len(toServer) - 1
    BY <1>2
  <2>4. toServer'[i] = Asked(Taken + (i + 1) - 1)
    BY <1>2, <2>3 DEF RequestInv
  <2>5. QED
    BY <1>3, <2>3, <2>4
<1>7. HoldsInv'
  <2>1. CASE pc' = "payload"
    BY <1>1, <1>3, <1>5, <2>1 DEF HoldsInv
  <2>2. CASE pc' # "payload"
    <3>1. pc' \in {"serve", "refuse"} /\ Len(data) = 0
      BY <1>5, <2>2 DEF RecvHeader, RequestInv
    <3>2. cpc \in {"header", "data"}
      BY <1>3, <3>1 DEF GeneralInv, CountInv
    <3>3. QED
      BY <1>1, <1>3, <1>5, <3>1, <3>2 DEF HoldsInv
  <2>3. QED
    BY <2>1, <2>2
<1>8. ReplyInv'
  <2>1. Put = 0 /\ Put' = 0
    BY <1>1, <1>3 DEF Put, RecvHeader
  <2>2. QED
    BY <1>1, <2>1, UntouchedReply
<1>9. QED
  BY <1>6, <1>7, <1>8

LEMMA RecvPayloadSync ==
    ASSUME GeneralInv, ~overran, RequestInv, HoldsInv, ReplyInv, RecvPayload
    PROVE  RequestInv' /\ HoldsInv' /\ ReplyInv'
<1> USE Numbers
<1>1. /\ pc = "payload" /\ toServer \in Seq(bridge_msg \cup Data) /\ toServer # <<>>
      /\ toServer' = Tail(toServer) /\ Len(toServer) <= Cap
      /\ UNCHANGED <<req, data, sent, cpc, toClient, got, msg>>
      /\ done < msg.size /\ msg.size <= Limit /\ payload \in [1 .. Limit -> Data]
  BY DEF RecvPayload, GeneralInv, TypeOK, BufferInBounds, client
<1>2. /\ Len(toServer') = Len(toServer) - 1 /\ Head(toServer) = toServer[1] /\ Len(toServer) > 0
      /\ \A i \in 1 .. Len(toServer) - 1 : toServer'[i] = toServer[i + 1]
  BY <1>1, TakeUnit
<1>3. Taken = done + 1 /\ Taken' = done + 2 /\ msg = req
  BY <1>1, <1>2 DEF HoldsInv, Taken
<1>4. done + 1 <= Len(data) /\ done + 1 \in 1 .. Len(data) /\ req.write /\ Len(data) = req.size
  <2>1. /\ sent \in Nat /\ Len(toServer) \in Nat /\ Len(data) \in Nat /\ done \in Nat
        /\ sent <= Len(data) + 1 /\ sent - Len(toServer) = done + 1
    BY <1>3 DEF Taken
  <2>2. done + 1 <= Len(data) /\ done + 1 \in 1 .. Len(data) /\ Len(data) > 0
    BY <1>2, <2>1
  <2>3. QED
    BY <2>2
<1>5. Head(toServer) = data[done + 1]
  <2>1. 1 \in 1 .. Len(toServer)
    BY <1>2
  <2>2. toServer[1] = Asked(Taken + 1 - 1)
    BY <2>1 DEF RequestInv
  <2>3. Taken + 1 - 1 = done + 1 /\ done + 1 # 0
    BY <1>3
  <2>4. QED
    BY <1>2, <2>2, <2>3 DEF Asked
<1>6. payload' = [payload EXCEPT ![done + 1] = data[done + 1]]
  <2>1. data[done + 1] \in Data
    BY <1>4 DEF GeneralInv, TypeOK
  <2>2. As(Data, Head(toServer)) = {data[done + 1]}
    BY <1>5, <2>1, AsRange
  <2>3. QED
    BY <2>2 DEF RecvPayload
<1>7. RequestInv'
  <2>1. Len(toServer') <= sent
    BY <1>1, <1>2 DEF RequestInv
  <2>2. SUFFICES ASSUME NEW i \in 1 .. Len(toServer')
                 PROVE  toServer'[i] = Asked(Taken' + i - 1)
    BY <1>1, <2>1 DEF RequestInv, Asked
  <2>3. i + 1 \in 1 .. Len(toServer) /\ i \in 1 .. Len(toServer) - 1
    BY <1>2
  <2>4. toServer'[i] = Asked(Taken + (i + 1) - 1)
    BY <1>2, <2>3 DEF RequestInv
  <2>5. Taken + (i + 1) - 1 = Taken' + i - 1
    <3>1. i \in Nat /\ done \in Nat
      BY <1>2, <2>3
    <3>2. QED
      BY <1>3, <3>1
  <2>6. QED
    BY <2>4, <2>5
<1>8. \A i \in 1 .. done + 1 : payload'[i] = data[i]
  <2>1. SUFFICES ASSUME NEW i \in 1 .. done + 1
                 PROVE  payload'[i] = data[i]
    OBVIOUS
  <2>2. i \in 1 .. Limit /\ done \in Nat
    <3>1. done \in Nat /\ msg.size \in Nat /\ Limit \in Nat /\ done < msg.size /\ msg.size <= Limit
      BY <1>1
    <3>2. QED
      BY <3>1
  <2>3. CASE i = done + 1
    BY <1>1, <1>6, <2>2, <2>3
  <2>4. CASE i # done + 1
    <3>1. i \in 1 .. done
      BY <2>2, <2>4
    <3>2. payload[i] = data[i]
      BY <1>1, <3>1 DEF HoldsInv
    <3>3. QED
      BY <1>1, <1>6, <2>2, <2>4, <3>2
  <2>5. QED
    BY <2>3, <2>4
<1>9. HoldsInv'
  <2>1. CASE pc' = "payload"
    BY <1>1, <1>3, <1>8, <2>1 DEF HoldsInv, RecvPayload
  <2>2. CASE pc' = "serve"
    <3>1. done + 1 = Len(data)
      BY <1>3, <1>4, <2>2, <1>1 DEF RecvPayload
    <3>2. sent = Len(data) + 1
      BY <1>2, <1>3, <3>1 DEF Taken
    <3>3. cpc \in {"header", "data"}
      BY <1>4, <3>2 DEF GeneralInv, CountInv
    <3>4. QED
      BY <1>1, <1>3, <1>8, <2>2, <3>1, <3>3 DEF HoldsInv
  <2>3. QED
    BY <1>1, <2>1, <2>2 DEF RecvPayload
<1>10. ReplyInv'
  <2>1. Put = 0 /\ Put' = 0
    BY <1>1 DEF Put, RecvPayload
  <2>2. QED
    BY <1>1, <2>1, UntouchedReply
<1>11. QED
  BY <1>7, <1>9, <1>10

LEMMA ServeSync ==
    ASSUME GeneralInv, ~overran, RequestInv, HoldsInv, ReplyInv, Serve
    PROVE  RequestInv' /\ HoldsInv' /\ ReplyInv'
<1>1. pc = "serve" /\ pc' = "reply" /\ UNCHANGED <<toServer, toClient, msg, done, client>>
  BY DEF Serve, stream
<1>2. RequestInv'
  BY <1>1 DEF RequestInv, Asked, Taken, client
<1>3. HoldsInv'
  BY <1>1 DEF HoldsInv, Taken, client
<1>4. Put = 0 /\ Put' = 0
  BY <1>1 DEF Put
<1>5. QED
  BY <1>1, <1>2, <1>3, <1>4, UntouchedReply DEF client

\* A unit is put behind the ones of the reply that are already there.
LEMMA PutUnit ==
    ASSUME GeneralInv, ReplyInv, pc # "stopped", toClient' = Append(toClient, Replied(Put)),
           Put' = Put + 1, Put \in Nat, pc' # "stopped", cpc # "idle",
           UNCHANGED <<cpc, req, got, status, payload>>
    PROVE  ReplyInv'
<1> USE Numbers
<1>1. /\ Gotten' = Gotten /\ Gotten \in Nat /\ ReplyLen' = ReplyLen
      /\ Len(toClient) = Put - Gotten /\ toClient \in Seq(Status \cup Data)
  <2>1. Len(got.data) \in Nat
    OBVIOUS
  <2>2. Gotten' = Gotten /\ Gotten \in Nat
    BY <2>1 DEF Gotten
  <2>3. ReplyLen' = ReplyLen
    BY DEF ReplyLen
  <2>4. Len(toClient) = Put - Gotten
    BY DEF ReplyInv
  <2>5. toClient \in Seq(Status \cup Data)
    BY DEF GeneralInv, TypeOK
  <2>6. QED
    BY <2>2, <2>3, <2>4, <2>5
<1>2. /\ Len(toClient') = Len(toClient) + 1 /\ toClient'[Len(toClient) + 1] = Replied(Put)
      /\ \A i \in 1 .. Len(toClient) : toClient'[i] = toClient[i]
  <2> DEFINE S == Status \cup Data \cup {Replied(Put)}
  <2>1. toClient \in Seq(S) /\ Replied(Put) \in S
    BY <1>1
  <2> HIDE DEF S
  <2>2. QED
    BY <2>1, AppendProperties
<1>3. Len(toClient') = Put' - Gotten'
  BY <1>1, <1>2
<1>4. \A i \in 1 .. Len(toClient') : toClient'[i] = Replied(Gotten + i - 1)
  <2>1. SUFFICES ASSUME NEW i \in 1 .. Len(toClient')
                 PROVE  toClient'[i] = Replied(Gotten + i - 1)
    OBVIOUS
  <2>2. CASE i = Len(toClient) + 1
    <3>1. Gotten + i - 1 = Put
      BY <1>1, <2>2
    <3>2. QED
      BY <1>2, <2>2, <3>1
  <2>3. CASE i # Len(toClient) + 1
    <3>1. i \in 1 .. Len(toClient)
      BY <1>2, <2>3
    <3>2. QED
      BY <1>2, <3>1 DEF ReplyInv
  <2>4. QED
    BY <2>2, <2>3
<1>5. QED
  BY <1>1, <1>3, <1>4 DEF ReplyInv, Replied

LEMMA SendReplySync ==
    ASSUME GeneralInv, ~overran, RequestInv, HoldsInv, ReplyInv, SendReply
    PROVE  RequestInv' /\ HoldsInv' /\ ReplyInv'
<1> USE Numbers
<1>1. /\ pc \in {"reply", "refuse"} /\ pc' \in {"data", "header"} /\ done = 0
      /\ toClient' = Append(toClient, status)
      /\ UNCHANGED <<toServer, msg, status, payload, done, cpc, req, data, sent, got>>
  BY DEF SendReply, client, GeneralInv, PlaceInv
<1>2. Taken = Len(data) + 1 /\ Taken' = Taken /\ msg = req /\ cpc \in {"header", "data"}
  BY <1>1 DEF HoldsInv, Taken
<1>3. RequestInv'
  BY <1>1 DEF RequestInv, Asked, Taken
<1>4. HoldsInv'
  BY <1>1, <1>2 DEF HoldsInv
<1>5. Put = 0 /\ Put' = 1
  <2>1. Put = 0
    BY <1>1 DEF Put
  <2>2. CASE pc' = "data"
    BY <1>1, <1>2, <2>2 DEF Put
  <2>3. CASE pc' = "header"
    <3>1. ReplyLen = 0
      BY <1>1, <1>2, <2>3 DEF SendReply, ReplyLen, GeneralInv, PlaceInv
    <3>2. ReplyLen' = ReplyLen
      BY <1>1 DEF ReplyLen
    <3>3. QED
      BY <1>1, <1>2, <2>1, <2>3, <3>1, <3>2 DEF Put
  <2>4. QED
    BY <1>1, <2>1, <2>2, <2>3
<1>6. Replied(Put) = status
  BY <1>5 DEF Replied
<1>7. Put \in Nat
  BY <1>5
<1>8. toClient' = Append(toClient, Replied(Put))
  BY <1>1, <1>6
<1>9. QED
  BY <1>1, <1>2, <1>3, <1>4, <1>5, <1>7, <1>8, PutUnit

LEMMA SendPayloadSync ==
    ASSUME GeneralInv, ~overran, RequestInv, HoldsInv, ReplyInv, SendPayload
    PROVE  RequestInv' /\ HoldsInv' /\ ReplyInv'
<1> USE Numbers
<1>1. /\ pc = "data" /\ pc' \in {"data", "header"} /\ done < msg.size /\ msg.size <= Limit
      /\ ~msg.write /\ toClient' = Append(toClient, payload[done + 1])
      /\ UNCHANGED <<toServer, msg, status, payload, cpc, req, data, sent, got>>
  BY DEF SendPayload, client, GeneralInv, PlaceInv, BufferInBounds
<1>2. Taken = Len(data) + 1 /\ Taken' = Taken /\ msg = req /\ cpc \in {"header", "data"}
  BY <1>1 DEF HoldsInv, Taken
<1>3. RequestInv'
  BY <1>1 DEF RequestInv, Asked, Taken
<1>4. HoldsInv'
  BY <1>1, <1>2 DEF HoldsInv
<1>5. Put = done + 1 /\ Put' = Put + 1
  <2>1. Put = done + 1
    BY <1>1, <1>2 DEF Put
  <2>2. CASE pc' = "data" /\ done' = done + 1
    BY <1>1, <1>2, <2>1, <2>2 DEF Put
  <2>3. CASE pc' = "header" /\ done + 1 = msg.size
    <3>1. ReplyLen = done + 1 /\ ReplyLen' = ReplyLen
      BY <1>1, <1>2, <2>3 DEF ReplyLen
    <3>2. QED
      BY <1>1, <1>2, <2>1, <2>3, <3>1 DEF Put
  <2>4. QED
    BY <1>1, <2>2, <2>3 DEF SendPayload
<1>6. Replied(Put) = payload[done + 1]
  BY <1>5 DEF Replied
<1>7. Put \in Nat
  BY <1>5
<1>8. toClient' = Append(toClient, Replied(Put))
  BY <1>1, <1>6
<1>9. QED
  BY <1>1, <1>2, <1>3, <1>4, <1>5, <1>7, <1>8, PutUnit

LEMMA AskSync ==
    ASSUME GeneralInv, ~overran, RequestInv, HoldsInv, ReplyInv, Ask, ~overran'
    PROVE  RequestInv' /\ HoldsInv' /\ ReplyInv'
<1> USE Numbers
<1>1. /\ cpc = "idle" /\ open /\ cpc' = "send" /\ sent' = 0 /\ sent = 0
      /\ UNCHANGED <<toServer, toClient, pc, msg, status, payload, done, got>>
  BY DEF Ask, stream, server, GeneralInv, CountInv
<1>2. Len(toServer) = 0 /\ Taken = 0 /\ Taken' = 0
  BY <1>1 DEF RequestInv, Taken
<1>3. pc = "header"
  BY <1>1, <1>2 DEF HoldsInv, GeneralInv, TypeOK, PlaceInv
<1>4. req'.write => req'.size <= Limit
  BY RequestSizes DEF Ask
<1>5. RequestInv'
  BY <1>1, <1>2, <1>4 DEF RequestInv
<1>6. HoldsInv'
  BY <1>1, <1>2, <1>3 DEF HoldsInv
<1>7. toClient = <<>> /\ got = None /\ Put' = 0 /\ Gotten' = 0
  BY <1>1, <1>2, <1>3 DEF ReplyInv, Put, Gotten
<1>8. QED
  BY <1>1, <1>5, <1>6, <1>7 DEF ReplyInv

LEMMA SendSync ==
    ASSUME GeneralInv, ~overran, RequestInv, HoldsInv, ReplyInv, Send
    PROVE  RequestInv' /\ HoldsInv' /\ ReplyInv'
<1> USE Numbers
<1>1. /\ cpc = "send" /\ cpc' \in {"send", "header"} /\ sent' = sent + 1
      /\ toServer' = Append(toServer, Asked(sent)) /\ toServer \in Seq(bridge_msg \cup Data)
      /\ UNCHANGED <<toClient, pc, msg, status, payload, done, got, req, data>>
  BY DEF Send, Asked, server, GeneralInv, TypeOK
<1>2. /\ Len(toServer') = Len(toServer) + 1 /\ toServer'[Len(toServer) + 1] = Asked(sent)
      /\ \A i \in 1 .. Len(toServer) : toServer'[i] = toServer[i]
  BY <1>1
<1>3. Taken' = Taken
  BY <1>1, <1>2 DEF Taken
<1>4. RequestInv'
  <2>1. Len(toServer') <= sent'
    BY <1>1, <1>2 DEF RequestInv
  <2>2. SUFFICES ASSUME NEW i \in 1 .. Len(toServer')
                 PROVE  toServer'[i] = Asked(Taken + i - 1)
    BY <1>1, <1>3, <2>1 DEF RequestInv, Asked
  <2>3. CASE i = Len(toServer) + 1
    <3>1. Taken + i - 1 = sent
      BY <2>3 DEF Taken
    <3>2. QED
      BY <1>2, <2>3, <3>1
  <2>4. CASE i # Len(toServer) + 1
    <3>1. i \in 1 .. Len(toServer)
      BY <1>2, <2>4
    <3>2. QED
      BY <1>2, <3>1 DEF RequestInv
  <2>5. QED
    BY <2>3, <2>4
<1>5. HoldsInv'
  BY <1>1, <1>3 DEF HoldsInv
<1>6. Put' = Put /\ Gotten = 0 /\ Gotten' = 0
  BY <1>1, <1>3 DEF Put, Gotten, ReplyLen
<1>7. ReplyInv'
  BY <1>1, <1>6 DEF ReplyInv, Replied
<1>8. QED
  BY <1>4, <1>5, <1>7

\* The empty sequence has length zero.
LEMMA NoUnits == Len(<<>>) = 0
  BY EmptySeq

\* The device takes a unit of the reply that it still waits for.
LEMMA GetUnit ==
    ASSUME GeneralInv, ReplyInv, pc # "stopped", toClient # <<>>, toClient' = Tail(toClient)
    PROVE  /\ Head(toClient) = Replied(Gotten) /\ Gotten \in Nat /\ Put \in Nat /\ Gotten < Put
           /\ Len(toClient') = Put - (Gotten + 1)
           /\ \A i \in 1 .. Len(toClient') : toClient'[i] = Replied(Gotten + 1 + i - 1)
<1> USE Numbers
<1>1. toClient \in Seq(Status \cup Data) /\ Len(toClient) <= Cap
  BY DEF GeneralInv, TypeOK
<1>2. /\ Len(toClient') = Len(toClient) - 1 /\ Head(toClient) = toClient[1]
      /\ Len(toClient) \in Nat \ {0}
      /\ \A i \in 1 .. Len(toClient) - 1 : toClient'[i] = toClient[i + 1]
  BY <1>1, TakeUnit
<1>3. Gotten \in Nat
  <2>1. Len(got.data) \in Nat
    OBVIOUS
  <2>2. QED
    BY <2>1 DEF Gotten
<1>4. Put \in Nat
  <2>1. done \in Nat /\ ReplyLen \in Nat
    OBVIOUS
  <2>2. QED
    BY <2>1 DEF Put
<1>5. Len(toClient) = Put - Gotten
  BY DEF ReplyInv
<1>6. Head(toClient) = Replied(Gotten)
  <2>1. 1 \in 1 .. Len(toClient)
    BY <1>2
  <2>2. toClient[1] = Replied(Gotten + 1 - 1)
    BY <2>1 DEF ReplyInv
  <2>3. Gotten + 1 - 1 = Gotten
    BY <1>3
  <2>4. QED
    BY <1>2, <2>2, <2>3
<1>7. \A i \in 1 .. Len(toClient') : toClient'[i] = Replied(Gotten + 1 + i - 1)
  <2>1. SUFFICES ASSUME NEW i \in 1 .. Len(toClient')
                 PROVE  toClient'[i] = Replied(Gotten + 1 + i - 1)
    OBVIOUS
  <2>2. i + 1 \in 1 .. Len(toClient) /\ i \in 1 .. Len(toClient) - 1 /\ i \in Nat
    BY <1>2
  <2>3. toClient'[i] = Replied(Gotten + (i + 1) - 1)
    BY <1>2, <2>2 DEF ReplyInv
  <2>4. Gotten + (i + 1) - 1 = Gotten + 1 + i - 1
    BY <1>3, <2>2
  <2>5. QED
    BY <2>3, <2>4
<1>8. Gotten < Put /\ Len(toClient') = Put - (Gotten + 1)
  BY <1>2, <1>3, <1>4, <1>5
<1>9. QED
  BY <1>3, <1>4, <1>6, <1>7, <1>8

\* With the last unit of the reply the device has all of it, and nothing is left.
LEMMA LastUnit ==
    ASSUME GeneralInv, ~overran, RequestInv, HoldsInv, ReplyInv, pc # "stopped",
           cpc \in {"header", "data"}, toClient # <<>>, toClient' = Tail(toClient),
           Gotten = ReplyLen
    PROVE  pc = "header" /\ toClient' = <<>> /\ toServer = <<>> /\ Taken = Len(data) + 1
<1> USE Numbers
<1>1. Gotten < Put /\ Put \in Nat /\ Len(toClient') = Put - (Gotten + 1)
  BY GetUnit
<1>2. pc \in {"header", "data"} /\ Taken # 0
  BY <1>1 DEF Put, GeneralInv, TypeOK
<1>3. Taken = Len(data) + 1
  BY <1>2 DEF HoldsInv
<1>4. msg = req
  BY <1>2, <1>3 DEF HoldsInv
<1>5. pc = "header"
  <2>1. SUFFICES ASSUME pc = "data"
                 PROVE  FALSE
    BY <1>2
  <2>2. ReplyLen = msg.size /\ Put = done + 1 /\ done < msg.size
    BY <1>2, <1>4, <2>1 DEF ReplyLen, Put, GeneralInv, PlaceInv, BufferInBounds
  <2>3. QED
    BY <1>1, <2>2
<1>6. Put = ReplyLen + 1
  BY <1>2, <1>5 DEF Put
<1>7. toClient' = <<>>
  <2>1. Len(toClient') = 0
    <3>1. ReplyLen \in Nat /\ Len(toClient') = (ReplyLen + 1) - (ReplyLen + 1)
      BY <1>1, <1>6
    <3>2. QED
      BY <3>1
  <2>2. toClient' \in Seq(Status \cup Data)
    BY TakeUnit DEF GeneralInv, TypeOK
  <2>3. QED
    BY <2>1, <2>2, EmptySeq
<1>8. toServer = <<>>
  <2>1. Len(toServer) = 0
    <3>1. sent = Len(data) + 1 /\ sent \in Nat /\ Len(toServer) \in Nat
      OBVIOUS
    <3>2. sent - Len(toServer) = Len(data) + 1
      BY <1>3 DEF Taken
    <3>3. QED
      BY <3>1, <3>2
  <2>2. QED
    BY <2>1, EmptySeq DEF GeneralInv, TypeOK
<1>9. QED
  BY <1>3, <1>5, <1>7, <1>8

\* What is left when the device has its answer.
LEMMA FinishSync ==
    ASSUME GeneralInv, ~overran, RequestInv, HoldsInv, ReplyInv, pc # "stopped",
           cpc \in {"header", "data"}, toClient # <<>>, toClient' = Tail(toClient),
           Gotten = ReplyLen, NEW reply, Finish(reply), UNCHANGED <<toServer, server, req>>
    PROVE  RequestInv' /\ HoldsInv' /\ ReplyInv'
<1>1. pc = "header" /\ toClient' = <<>> /\ toServer = <<>>
  BY LastUnit
<1>2. /\ pc' = "header" /\ toServer' = <<>> /\ cpc' = "idle" /\ got' = None /\ sent' = 0
      /\ data' = <<>>
  BY <1>1 DEF Finish, server
<1>3. Taken' = 0 /\ Len(toServer') = 0 /\ Len(toClient') = 0
  <2>1. Len(toServer') = 0
    BY <1>2, NoUnits
  <2>2. Len(toClient') = 0
    BY <1>1, NoUnits
  <2>3. Taken' = 0
    <3>1. Taken' = sent' - Len(toServer') /\ sent' = 0
      BY <1>2 DEF Taken
    <3>2. Taken' = 0 - 0
      BY ONLY <3>1, <2>1
    <3>3. QED
      BY ONLY <3>2
  <2>4. QED
    BY <2>1, <2>2, <2>3
<1>4. RequestInv'
  BY <1>2, <1>3 DEF RequestInv
<1>5. HoldsInv'
  BY <1>2, <1>3 DEF HoldsInv
<1>6. ReplyInv'
  <2>1. Put' = 0 /\ Gotten' = 0
    BY <1>2, <1>3 DEF Put, Gotten
  <2>2. Len(toClient') = Put' - Gotten'
    BY <1>3, <2>1
  <2>3. \A i \in 1 .. Len(toClient') : FALSE
    <3>1. Len(toClient') = 0
      BY <1>3
    <3>2. QED
      BY ONLY <3>1
  <2>4. QED
    BY <1>1, <1>2, <2>2, <2>3 DEF ReplyInv
<1>7. QED
  BY <1>4, <1>5, <1>6

LEMMA GetHeaderSync ==
    ASSUME GeneralInv, ~overran, RequestInv, HoldsInv, ReplyInv, GetHeader
    PROVE  RequestInv' /\ HoldsInv' /\ ReplyInv'
<1> USE Numbers
<1>1. /\ cpc = "header" /\ open /\ toClient # <<>> /\ toClient' = Tail(toClient)
      /\ UNCHANGED <<toServer, server, req>> /\ pc # "stopped" /\ Gotten = 0
  BY DEF GetHeader, GeneralInv, PlaceInv, Gotten
<1>2. CASE ReplyLen = 0
  <2>1. PICK s \in As(Status, Head(toClient)) : Finish([status |-> s, data |-> <<>>])
    BY <1>2 DEF GetHeader, ReplyLen
  <2>2. QED
    BY <1>1, <1>2, <2>1, FinishSync
<1>3. CASE ReplyLen > 0
  <2>1. ~req.write /\ req.size \in 1 .. Limit
    BY <1>3 DEF ReplyLen
  <2>2. Head(toClient) = status
    BY <1>1, GetUnit DEF Replied
  <2>3. As(Status, Head(toClient)) = {status}
    BY <2>2, AsRange DEF GeneralInv, TypeOK
  <2>4. /\ cpc' = "data" /\ got' = [status |-> status, data |-> <<>>]
        /\ UNCHANGED <<data, sent>>
    BY <2>1, <2>3 DEF GetHeader
  <2>5. RequestInv'
    BY <1>1, <2>4 DEF RequestInv, Asked, Taken
  <2>6. HoldsInv'
    BY <1>1, <2>4 DEF HoldsInv, Taken, server
  <2>7. Gotten' = 1 /\ Put' = Put /\ ReplyLen' = ReplyLen
    BY <1>1, <2>4 DEF Gotten, Put, ReplyLen, Taken, server
  <2>8. /\ Len(toClient') = Put' - Gotten'
        /\ \A i \in 1 .. Len(toClient') : toClient'[i] = Replied(1 + i - 1)
    BY <1>1, <2>7, GetUnit
  <2>9. QED
    BY <1>1, <1>3, <2>4, <2>5, <2>6, <2>7, <2>8 DEF ReplyInv, Replied, server
<1>4. QED
  BY <1>2, <1>3

LEMMA GetPayloadSync ==
    ASSUME GeneralInv, ~overran, RequestInv, HoldsInv, ReplyInv, GetPayload
    PROVE  RequestInv' /\ HoldsInv' /\ ReplyInv'
<1> USE Numbers
<1> DEFINE n == Len(got.data)
<1>1. /\ cpc = "data" /\ open /\ toClient # <<>> /\ toClient' = Tail(toClient)
      /\ UNCHANGED <<toServer, server, req>> /\ pc # "stopped"
  BY DEF GetPayload, GeneralInv, PlaceInv
<1>2. Gotten = n + 1 /\ n \in Nat /\ n < ReplyLen
  BY <1>1 DEF Gotten, ReplyInv
<1>3. ReplyLen = req.size /\ ReplyLen <= Limit
  BY <1>2 DEF ReplyLen
<1>4. Head(toClient) = payload[n + 1] /\ payload[n + 1] \in Data
  <2>1. Head(toClient) = Replied(n + 1)
    BY <1>1, <1>2, GetUnit
  <2>2. n + 1 \in 1 .. Limit /\ n + 1 # 0
    <3>1. ReplyLen \in Nat /\ Limit \in Nat
      OBVIOUS
    <3>2. QED
      BY ONLY <1>2, <1>3, <3>1
  <2>3. QED
    BY <2>1, <2>2 DEF Replied, GeneralInv, TypeOK
<1> DEFINE reply == [got EXCEPT !.data = Append(@, payload[n + 1])]
<1>5. As(Data, Head(toClient)) = {payload[n + 1]}
  BY <1>4, AsRange
<1>6. got \in Reply /\ got.data \in Seq(Data)
  BY DEF GeneralInv, TypeOK, Reply
<1>7. /\ reply.status = got.status /\ reply.data = Append(got.data, payload[n + 1])
  BY <1>6 DEF Reply
<1>8. /\ Len(reply.data) = n + 1 /\ reply.data[n + 1] = payload[n + 1]
      /\ \A i \in 1 .. n : reply.data[i] = got.data[i]
  BY <1>4, <1>6, <1>7, AppendProperties
<1>9. CASE n + 1 = ReplyLen
  <2>1. ~(Len(reply.data) < req.size)
    BY <1>2, <1>3, <1>8, <1>9
  <2>0. Finish(reply)
    <3> HIDE DEF reply
    <3>1. PICK w \in As(Data, Head(toClient)) :
            IF Len([got EXCEPT !.data = Append(@, w)].data) < req.size
            THEN got' = [got EXCEPT !.data = Append(@, w)]
                 /\ UNCHANGED <<cpc, data, sent, result>>
            ELSE Finish([got EXCEPT !.data = Append(@, w)])
      BY DEF GetPayload
    <3>2. w = payload[n + 1]
      BY <1>5, <3>1
    <3>3. QED
      BY <2>1, <3>1, <3>2 DEF reply
  <2>2. QED
    BY <1>1, <1>2, <1>9, <2>0, FinishSync
<1>10. CASE n + 1 < ReplyLen
  <2>1. got' = reply /\ UNCHANGED <<cpc, data, sent>>
    BY <1>3, <1>5, <1>8, <1>10 DEF GetPayload
  <2>2. RequestInv'
    BY <1>1, <2>1 DEF RequestInv, Asked, Taken
  <2>3. HoldsInv'
    BY <1>1, <2>1 DEF HoldsInv, Taken, server
  <2>4. ReplyLen' = ReplyLen /\ Put' = Put /\ Gotten' = Gotten + 1
    <3>1. ReplyLen' = ReplyLen
      BY <1>1 DEF ReplyLen
    <3>2. Put' = Put
      BY <1>1, <2>1, <3>1 DEF Put, Taken, server
    <3>3. Gotten' = Gotten + 1
      BY <1>1, <1>2, <1>8, <2>1 DEF Gotten
    <3>4. QED
      BY <3>1, <3>2, <3>3
  <2>5. /\ Len(toClient') = Put' - Gotten'
        /\ \A i \in 1 .. Len(toClient') : toClient'[i] = Replied(Gotten' + i - 1)
    BY <1>1, <2>4, GetUnit
  <2>6. \A i \in 1 .. n + 1 : reply.data[i] = payload[i]
    <3>1. SUFFICES ASSUME NEW i \in 1 .. n + 1
                   PROVE  reply.data[i] = payload[i]
      OBVIOUS
    <3>2. CASE i = n + 1
      BY <1>8, <3>2
    <3>3. CASE i # n + 1
      <4>1. i \in 1 .. n
        BY <1>2, <3>3
      <4>2. QED
        BY <1>1, <1>8, <4>1 DEF ReplyInv
    <3>4. QED
      BY <3>2, <3>3
  <2>7. reply.status = status
    BY <1>1, <1>7 DEF ReplyInv
  <2>8. Len(got'.data) = n + 1 /\ got'.status = status /\ \A i \in 1 .. n + 1 : got'.data[i] = payload[i]
    BY <1>8, <2>1, <2>6, <2>7
  <2>9. QED
    BY <1>1, <1>10, <2>1, <2>2, <2>3, <2>4, <2>5, <2>8 DEF ReplyInv, Replied, server
<1>11. QED
  BY <1>2, <1>9, <1>10

LEMMA SyncInit == Init => SyncInv
<1>1. SUFFICES ASSUME Init
               PROVE  RequestInv /\ HoldsInv /\ ReplyInv
  BY DEF SyncInv
<1>2. Len(toServer) = 0 /\ Len(toClient) = 0 /\ Taken = 0
  <2>1. Len(toServer) = 0
    BY <1>1, NoUnits DEF Init
  <2>2. Len(toClient) = 0
    BY <1>1, NoUnits DEF Init
  <2>3. Taken = 0
    <3>1. Taken = sent - Len(toServer) /\ sent = 0
      BY <1>1 DEF Init, Taken
    <3>2. Taken = 0 - 0
      BY ONLY <3>1, <2>1
    <3>3. QED
      BY ONLY <3>2
  <2>4. QED
    BY <2>1, <2>2, <2>3
<1>3. Put = 0 /\ Gotten = 0
  BY <1>1, <1>2 DEF Init, Put, Gotten
<1>4. QED
  BY <1>1, <1>2, <1>3 DEF Init, RequestInv, HoldsInv, ReplyInv

LEMMA SyncStep ==
    ASSUME GeneralInv, SyncInv, [Next]_vars
    PROVE  SyncInv'
<1>1. SUFFICES ASSUME ~overran'
               PROVE  RequestInv' /\ HoldsInv' /\ ReplyInv'
  BY DEF SyncInv
<1>2. ~overran
  BY <1>1 DEF Next, Server, Device, RecvHeader, RecvPayload, RecvFails, Serve, SendReply,
     SendPayload, SendFails, Ask, Send, GetHeader, GetPayload, Close, vars, client
<1>3. RequestInv /\ HoldsInv /\ ReplyInv
  BY <1>2 DEF SyncInv
<1>4. CASE RecvFails \/ SendFails
  <2>1. /\ UNCHANGED <<stream, client, msg, payload, status, done>> /\ pc' = "stopped"
    BY <1>4 DEF RecvFails, SendFails
  <2>2. /\ UNCHANGED <<toServer, toClient>> /\ UNCHANGED <<cpc, req, data, sent, got>>
        /\ UNCHANGED <<msg, payload, status, done>>
    BY <2>1 DEF stream, client
  <2>3. Taken' = Taken
    BY <2>2 DEF Taken
  <2>4. ReplyLen' = ReplyLen
    BY <2>2 DEF ReplyLen
  <2>5. RequestInv'
    BY <1>3, <2>2, <2>3 DEF RequestInv, Asked
  <2>6. HoldsInv'
    BY <1>3, <2>1, <2>2, <2>3 DEF HoldsInv
  <2>7. ReplyInv'
    BY <1>3, <2>1, <2>2, <2>4 DEF ReplyInv
  <2>8. QED
    BY <2>5, <2>6, <2>7
<1>5. CASE Close \/ UNCHANGED vars
  <2>1. /\ UNCHANGED <<toServer, toClient>> /\ UNCHANGED <<cpc, req, data, sent, got>>
        /\ UNCHANGED <<pc, msg, payload, status, done>>
    BY <1>5 DEF Close, vars, stream, client, server
  <2>2. Taken' = Taken /\ ReplyLen' = ReplyLen /\ Gotten' = Gotten
    BY <2>1 DEF Taken, ReplyLen, Gotten
  <2>3. Put' = Put
    BY <2>1, <2>2 DEF Put
  <2>4. RequestInv'
    BY <1>3, <2>1, <2>2 DEF RequestInv, Asked
  <2>5. HoldsInv'
    BY <1>3, <2>1, <2>2 DEF HoldsInv
  <2>6. ReplyInv'
    BY <1>3, <2>1, <2>2, <2>3 DEF ReplyInv, Replied
  <2>7. QED
    BY <2>4, <2>5, <2>6
<1>6. QED
  BY <1>1, <1>2, <1>3, <1>4, <1>5, RecvHeaderSync, RecvPayloadSync, ServeSync, SendReplySync,
     SendPayloadSync, AskSync, SendSync, GetHeaderSync, GetPayloadSync DEF Next, Server, Device

LEMMA SyncInvAlways == Spec => [](GeneralInv /\ SyncInv)
<1>1. GeneralInv /\ SyncInv /\ [Next]_vars => SyncInv'
  BY SyncStep
<1>2. QED
  BY SyncInit, GeneralInvAlways, <1>1, PTL DEF Spec

\* When the device has its answer nothing of the request or of the reply is left
\* in the stream, whatever their sizes, the sockets' capacity and the moment the
\* connection breaks.
THEOREM StreamIsClean == Spec => []NothingLeftOver
<1>1. GeneralInv /\ SyncInv => NothingLeftOver
  <2>1. SUFFICES ASSUME GeneralInv, RequestInv, HoldsInv, ReplyInv, cpc = "idle"
                 PROVE  toServer = <<>> /\ toClient = <<>> /\ pc \in {"header", "stopped"}
    BY DEF SyncInv, NothingLeftOver
  <2>2. sent = 0 /\ Len(toServer) = 0
    BY <2>1, Numbers DEF GeneralInv, CountInv, RequestInv
  <2>3. toServer = <<>>
    BY <2>1, <2>2, EmptySeq DEF GeneralInv, TypeOK
  <2>4. Taken = 0
    BY <2>2 DEF Taken
  <2>5. pc \in {"header", "stopped"}
    <3>1. done \in Nat
      BY <2>1, Numbers
    <3>2. QED
      BY <2>1, <2>4, <3>1 DEF HoldsInv, GeneralInv, TypeOK
  <2>6. QED
    BY <2>1, <2>3, <2>5 DEF ReplyInv
<1>2. QED
  BY <1>1, SyncInvAlways, PTL

-----------------------------------------------------------------------------
(* The bridge implements RemoteMemory.                                     *)

LEMMA NoWords == ASSUME NEW f PROVE [i \in 1 .. 0 |-> f[i]] = <<>>
  OBVIOUS

LEMMA OneWord == ASSUME NEW w PROVE [i \in 1 .. 1 |-> w] = <<w>>
  OBVIOUS

\* A request as the device makes them, one word for a register.
LEMMA RequestShape ==
    ASSUME TypeOK
    PROVE  /\ req.write \in BOOLEAN /\ req.dma \in BOOLEAN
           /\ req.addr \in Nat /\ req.size \in Nat
           /\ ~req.dma => req.size = 1
           /\ req.dma => req.addr # Register
<1>1. req \in Request
  BY DEF TypeOK
<1>2. /\ req.write \in BOOLEAN /\ req.dma \in BOOLEAN
      /\ req.addr \in Nat /\ req.size \in Nat
      /\ ~req.dma => req.size = 1
  BY <1>1, RequestSizes
<1>3. req.dma => req.addr # Register
  <2>1. SUFFICES ASSUME req.dma
                 PROVE  req.addr # Register
    OBVIOUS
  <2>2. req.addr \in 1 .. Outside
    BY <1>1, <2>1 DEF Request
  <2>3. QED
    BY <2>2, BridgeAssumption DEF Register, Outside
<1>4. QED
  BY <1>2, <1>3

\* A step that leaves the request, its outcome and the memory as they are.
LEMMA Stutter ==
    ASSUME Phase' = Phase, Answer' = Answer,
           UNCHANGED <<reg, mem, req, data, result, open>>
    PROVE  UNCHANGED Promise!vars
BY DEF Promise!vars

\* While the server has not begun to answer there is no outcome.
LEMMA UnservedStays ==
    ASSUME ~overran, ~overran', ~Served, ~Served', cpc # "idle", cpc' # "idle",
           UNCHANGED <<reg, mem, req, data, result, open>>
    PROVE  UNCHANGED Promise!vars
BY Stutter DEF Phase, Answer

\* The outcome stays as it is until the device has all of it.
LEMMA ServedStays ==
    ASSUME ~overran, ~overran', Served, Served', UNCHANGED <<msg, status>>,
           UNCHANGED payload,
           UNCHANGED <<reg, mem, req, data, result, open>>
    PROVE  UNCHANGED Promise!vars
<1>1. cpc # "idle" /\ cpc' # "idle"
  BY DEF Served
<1>2. Outcome' = Outcome
  BY DEF Outcome
<1>3. QED
  BY <1>1, <1>2, Stutter DEF Phase, Answer

LEMMA RecvHeaderPromise ==
    ASSUME GeneralInv, ~overran, RequestInv, HoldsInv, ReplyInv, RecvHeader
    PROVE  [Promise!Next]_(Promise!vars)
<1> USE Numbers
<1>1. /\ pc = "header" /\ toServer # <<>> /\ toServer' = Tail(toServer)
      /\ UNCHANGED <<reg, mem, req, data, result, open>> /\ UNCHANGED <<cpc, sent, overran>>
      /\ \/ msg'.size > Limit /\ status' = "BURST_ERROR" /\ pc' = "refuse"
         \/ msg'.size <= Limit /\ pc' \in {"payload", "serve"}
  BY DEF RecvHeader, target, client
<1>2. Len(toServer) \in Nat \ {0} /\ toServer \in Seq(bridge_msg \cup Data)
  BY <1>1, EmptySeq DEF GeneralInv, TypeOK
<1>3. Taken = 0 /\ sent = Len(toServer)
  <2>1. Taken < Len(data) + 1
    BY <1>2 DEF Taken
  <2>2. Taken = 0
    BY <1>1, <2>1 DEF HoldsInv
  <2>3. QED
    BY <1>2, <2>2 DEF Taken
<1>4. cpc # "idle"
  BY <1>2, <1>3 DEF GeneralInv, CountInv
<1>5. ~Served
  BY <1>1 DEF Served
<1>6. CASE pc' \in {"payload", "serve"}
  <2>1. ~Served'
    BY <1>6 DEF Served
  <2>2. QED
    BY <1>1, <1>4, <1>5, <2>1, UnservedStays
<1>7. CASE msg'.size > Limit /\ status' = "BURST_ERROR" /\ pc' = "refuse"
  <2>1. HoldsInv' /\ RequestInv'
    BY RecvHeaderSync
  <2>2. Taken' = Len(data) + 1 /\ cpc \in {"header", "data"}
    BY <1>1, <1>7, <2>1 DEF HoldsInv
  <2>3. toServer' = <<>>
    <3>1. sent = Len(data) + 1
      BY <2>2
    <3>2. toServer' \in Seq(bridge_msg \cup Data) /\ Len(toServer') \in Nat
      BY <1>1, <1>2
    <3>3. sent - Len(toServer') = Len(data) + 1
      BY <1>1, <2>2 DEF Taken
    <3>4. Len(toServer') = 0
      <4>1. Len(data) \in Nat
        OBVIOUS
      <4>2. QED
        BY ONLY <3>1, <3>2, <3>3, <4>1
    <3>5. QED
      BY <3>2, <3>4, EmptySeq
  <2>4. Served'
    BY <1>1, <1>7, <2>2, <2>3 DEF Served
  <2>5. msg' = req
    <3>1. Taken' > 0
      BY <2>2
    <3>2. QED
      BY <1>1, <1>7, <2>1, <3>1 DEF HoldsInv
  <2>6. req.size > Limit /\ Answer' = [status |-> "BURST_ERROR", data |-> <<>>]
    BY <1>1, <1>7, <2>4, <2>5 DEF Answer, Outcome
  <2>7. Phase = "asked" /\ Phase' = "served"
    BY <1>1, <1>4, <1>5, <2>4 DEF Phase
  <2>8. Promise!Refuse
    BY <1>1, <2>6 DEF Promise!Refuse
  <2>9. QED
    BY <1>1, <2>7, <2>8 DEF Promise!Serve, Promise!Next
<1>8. QED
  BY <1>1, <1>6, <1>7

LEMMA RecvPayloadPromise ==
    ASSUME GeneralInv, ~overran, RequestInv, HoldsInv, ReplyInv, RecvPayload
    PROVE  [Promise!Next]_(Promise!vars)
<1> USE Numbers
<1>1. /\ pc = "payload" /\ toServer # <<>> /\ pc' \in {"payload", "serve"}
      /\ UNCHANGED <<reg, mem, req, data, result, open>> /\ UNCHANGED <<cpc, overran>>
  BY DEF RecvPayload, target, client
<1>2. ~Served /\ ~Served'
  BY <1>1 DEF Served
<1>3. cpc # "idle"
  <2>1. Len(toServer) > 0
    BY <1>1, EmptySeq DEF GeneralInv, TypeOK
  <2>2. sent > 0
    BY <2>1 DEF RequestInv
  <2>3. QED
    BY <2>2 DEF GeneralInv, CountInv
<1>4. QED
  BY <1>1, <1>2, <1>3, UnservedStays

\* A connection that breaks before the server has all of a request leaves it
\* without an outcome; behind that it leaves the outcome.
LEMMA FailsPromise ==
    ASSUME GeneralInv, ~overran, RequestInv, HoldsInv, ReplyInv, RecvFails \/ SendFails
    PROVE  [Promise!Next]_(Promise!vars)
<1> USE Numbers
<1>1. /\ pc' = "stopped" /\ pc \in {"header", "payload", "reply", "refuse", "data"}
      /\ UNCHANGED <<reg, mem, req, data, result, open>>
      /\ UNCHANGED <<msg, status>> /\ UNCHANGED payload
      /\ UNCHANGED <<cpc, overran, toServer>>
      /\ pc = "payload" => toServer = <<>>
  BY DEF RecvFails, SendFails, target, client, stream
<1>2. pc = "payload" => cpc \notin {"header", "data"}
  <2>1. SUFFICES ASSUME pc = "payload", cpc \in {"header", "data"}
                 PROVE  FALSE
    OBVIOUS
  <2>2. Len(toServer) = 0 /\ sent = Len(data) + 1
    BY <1>1, <2>1, NoUnits
  <2>3. Taken = Len(data) + 1 /\ Taken = done + 1
    BY <2>1, <2>2 DEF Taken, HoldsInv
  <2>4. msg = req
    <3>1. Taken > 0
      BY <2>3
    <3>2. QED
      BY <2>1, <3>1 DEF HoldsInv
  <2>5. done < req.size
    BY <2>1, <2>4 DEF GeneralInv, BufferInBounds
  <2>6. req.write
    BY <2>1, <2>4 DEF GeneralInv, PlaceInv
  <2>7. QED
    BY <2>1, <2>3, <2>5, <2>6 DEF GeneralInv, CountInv
<1>3. Served' <=> Served
  BY <1>1, <1>2 DEF Served
<1>4. CASE Served
  BY <1>1, <1>3, <1>4, ServedStays
<1>5. CASE ~Served
  BY <1>1, <1>3, <1>5, Stutter DEF Phase, Answer
<1>6. QED
  BY <1>4, <1>5

\* The server carries out the request it holds.
LEMMA ServePromise ==
    ASSUME GeneralInv, ~overran, RequestInv, HoldsInv, ReplyInv, Serve
    PROVE  [Promise!Next]_(Promise!vars)
<1> USE Numbers
<1>1. /\ pc = "serve" /\ pc' = "reply"
      /\ UNCHANGED <<req, data, result, open>> /\ UNCHANGED <<cpc, overran, toServer, msg>>
  BY DEF Serve, stream, client
<1>2. /\ Taken = Len(data) + 1 /\ cpc \in {"header", "data"}
      /\ \A i \in 1 .. Len(data) : payload[i] = data[i]
  BY <1>1 DEF HoldsInv
<1>3. msg = req /\ req.size <= Limit
  <2>1. Taken > 0
    BY <1>2
  <2>2. QED
    BY <1>1, <2>1 DEF HoldsInv, GeneralInv, PlaceInv
<1>4. toServer = <<>>
  <2>1. sent - Len(toServer) = Len(data) + 1 /\ sent = Len(data) + 1
    BY <1>2 DEF Taken
  <2>2. Len(toServer) \in Nat /\ Len(data) \in Nat
    OBVIOUS
  <2>3. Len(toServer) = 0
    BY ONLY <2>1, <2>2
  <2>4. QED
    BY <2>3, EmptySeq DEF GeneralInv, TypeOK
<1>5. ~Served /\ Served'
  BY <1>1, <1>2, <1>4 DEF Served
<1>6. Phase = "asked" /\ Phase' = "served"
  BY <1>1, <1>2, <1>5 DEF Phase
<1>7. Answer' = [status |-> status',
                 data |-> IF req.write THEN <<>> ELSE [i \in 1 .. req.size |-> payload'[i]]]
  <2>1. ~(req.size > Limit)
    BY <1>3
  <2>2. Answer' = Outcome'
    BY <1>1, <1>5 DEF Answer
  <2>3. QED
    BY <1>1, <1>3, <2>1, <2>2 DEF Outcome
<1>8. /\ req.write \in BOOLEAN /\ req.dma \in BOOLEAN
      /\ req.addr \in Nat /\ req.size \in Nat /\ Words \in Nat /\ Limit \in Nat
      /\ ~req.dma => req.size = 1
      /\ req.dma => req.addr # Register
  BY RequestShape DEF GeneralInv
<1>9. Size = req.size /\ Block = Promise!Block /\ (Inside <=> Promise!Inside)
      /\ Promise!Register = Register
  BY <1>3, <1>8 DEF Size, Block, Inside, Promise!Block, Promise!Inside, Promise!Register,
     Register
<1>10. req.addr = Register => req.size = 1 /\ ~Inside
  <2>1. SUFFICES ASSUME req.addr = Register
                 PROVE  req.size = 1 /\ ~Inside
    OBVIOUS
  <2>2. req.size = 1
    BY <1>8, <2>1
  <2>3. Block = 0 .. 0
    BY <1>3, <1>9, <2>1, <2>2 DEF Block, Register
  <2>4. 0 \in Block /\ 0 \notin 1 .. Words
    BY <1>8, <2>3
  <2>5. QED
    BY <2>2, <2>4 DEF Inside
<1>11. ASSUME Write PROVE Promise!Write
  <2>1. req.write /\ status' = "OK" /\ UNCHANGED payload /\ Len(data) = req.size
    BY <1>2, <1>3, <1>11 DEF Write, GeneralInv, CountInv
  <2>2. Answer' = [status |-> "OK", data |-> <<>>]
    BY <1>7, <2>1
  <2>3. CASE req.addr = Register
    <3>1. payload[1] = data[1]
      <4>1. 1 \in 1 .. Len(data)
        BY <1>10, <2>1, <2>3
      <4>2. QED
        BY <1>2, <4>1
    <3>2. reg' = data[1] /\ UNCHANGED mem
      BY <1>3, <1>10, <1>11, <2>3, <3>1 DEF Write
    <3>3. QED
      BY <1>9, <2>1, <2>2, <2>3, <3>2 DEF Promise!Write, Promise!Accepted
  <2>4. CASE req.addr # Register
    <3>1. /\ Inside /\ UNCHANGED reg
          /\ mem' = [a \in 1 .. Words |->
                       IF a \in Block THEN payload[a - msg.addr + 1] ELSE mem[a]]
      BY <1>3, <1>11, <2>4 DEF Write
    <3>2. ASSUME NEW a \in Block PROVE payload[a - msg.addr + 1] = data[a - req.addr + 1]
      <4>1. a - req.addr + 1 \in 1 .. Len(data)
        <5>1. a \in req.addr .. req.addr + req.size - 1
          BY <1>3, <1>9, <3>2 DEF Block
        <5>2. Len(data) = req.size /\ req.addr \in Nat /\ req.size \in Nat
          BY <1>8, <2>1
        <5>3. QED
          BY ONLY <5>1, <5>2
      <4>2. QED
        BY <1>2, <1>3, <4>1
    <3>3. mem' = [a \in 1 .. Words |->
                    IF a \in Promise!Block THEN data[a - req.addr + 1] ELSE mem[a]]
      BY <1>9, <3>1, <3>2
    <3>4. QED
      BY <1>9, <2>1, <2>2, <3>1, <3>3 DEF Promise!Write, Promise!Accepted
  <2>5. QED
    BY <2>3, <2>4
<1>12. ASSUME Read PROVE Promise!Read
  <2>1. ~req.write /\ req.size > 0 /\ status' = "OK" /\ UNCHANGED <<reg, mem>>
    BY <1>3, <1>9, <1>12 DEF Read, target
  <2>2. Answer' = [status |-> "OK", data |-> [i \in 1 .. req.size |-> payload'[i]]]
    BY <1>7, <2>1
  <2>3. CASE req.addr = Register
    <3>1. payload' = [payload EXCEPT ![1] = reg] /\ req.size = 1
      BY <1>3, <1>10, <1>12, <2>3 DEF Read
    <3>2. payload'[1] = reg
      <4>1. 1 \in 1 .. Limit
        BY <1>8, <1>3, <3>1
      <4>2. QED
        BY <3>1, <4>1 DEF GeneralInv, TypeOK
    <3>3. [i \in 1 .. req.size |-> payload'[i]] = <<reg>>
      <4>1. [i \in 1 .. req.size |-> payload'[i]] = [i \in 1 .. 1 |-> reg]
        BY <3>1, <3>2
      <4>2. QED
        BY <4>1, OneWord
    <3>4. QED
      BY <1>3, <1>9, <2>1, <2>2, <2>3, <3>3 DEF Promise!Read, Promise!Accepted
  <2>4. CASE req.addr # Register
    <3>1. /\ Inside
          /\ payload' = [i \in 1 .. Limit |->
                           IF i <= Size THEN mem[msg.addr + i - 1] ELSE payload[i]]
      BY <1>3, <1>12, <2>4 DEF Read
    <3>2. ASSUME NEW i \in 1 .. req.size PROVE payload'[i] = mem[req.addr + i - 1]
      <4>1. i \in 1 .. Limit /\ i <= Size
        BY <1>3, <1>8, <1>9
      <4>2. QED
        BY <1>3, <3>1, <4>1
    <3>3. [i \in 1 .. req.size |-> payload'[i]] = [i \in 1 .. req.size |-> mem[req.addr + i - 1]]
      BY <3>2
    <3>4. QED
      BY <1>3, <1>9, <2>1, <2>2, <3>1, <3>3 DEF Promise!Read, Promise!Accepted
  <2>5. QED
    BY <2>3, <2>4
<1>13. ASSUME Fail PROVE Promise!Fail
  <2>1. /\ ~Inside /\ status' = "ERROR" /\ UNCHANGED <<reg, mem>> /\ req.addr # Register
    BY <1>3, <1>9, <1>10, <1>13 DEF Fail, target
  <2>2. CASE req.write
    <3>1. Answer' = [status |-> "ERROR", data |-> <<>>]
      BY <1>7, <2>1, <2>2
    <3>2. Answer' \in [status : {"ERROR"}, data : Promise!Received(req)]
      BY <2>2, <3>1 DEF Promise!Received
    <3>3. QED
      BY <1>3, <1>9, <2>1, <2>2, <3>2 DEF Promise!Fail
  <2>3. CASE ~req.write
    <3>1. Answer' = [status |-> "ERROR", data |-> [i \in 1 .. req.size |-> payload'[i]]]
      BY <1>7, <2>1, <2>3
    <3>2. [i \in 1 .. req.size |-> payload'[i]] \in [1 .. req.size -> Data]
      <4>1. payload' \in [1 .. Limit -> Data]
        BY <1>13, BridgeAssumption DEF Fail, GeneralInv, TypeOK
      <4>2. \A i \in 1 .. req.size : i \in 1 .. Limit
        BY <1>3, <1>8
      <4>3. QED
        BY <4>1, <4>2
    <3>3. Promise!Received(req) = [1 .. req.size -> Data]
      BY <1>3, <1>8, <2>3 DEF Promise!Received
    <3>4. ~req.dma => [i \in 1 .. req.size |-> payload'[i]] = <<Zero>>
      <4>1. SUFFICES ASSUME ~req.dma
                     PROVE  [i \in 1 .. req.size |-> payload'[i]] = <<Zero>>
        OBVIOUS
      <4>2. req.size = 1 /\ payload' = [payload EXCEPT ![1] = Zero] /\ 1 \in 1 .. Limit
        BY <1>3, <1>8, <1>13, <2>3, <4>1 DEF Fail
      <4>3. payload'[1] = Zero
        BY <4>2 DEF GeneralInv, TypeOK
      <4>4. [i \in 1 .. req.size |-> payload'[i]] = [i \in 1 .. 1 |-> Zero]
        BY <4>2, <4>3
      <4>5. QED
        BY <4>4, OneWord
    <3>5. Answer' \in [status : {"ERROR"}, data : Promise!Received(req)]
      BY <3>1, <3>2, <3>3
    <3>6. ~req.write /\ ~req.dma => Answer'.data = <<Zero>>
      BY <3>1, <3>4
    <3>7. QED
      BY <1>3, <1>9, <2>1, <3>5, <3>6 DEF Promise!Fail
  <2>4. QED
    BY <1>8, <2>2, <2>3
<1>14. Promise!Serve
  BY <1>1, <1>6, <1>11, <1>12, <1>13 DEF Serve, Promise!Serve
<1>15. QED
  BY <1>14 DEF Promise!Next

\* Sending the reply changes neither the outcome nor the memory.
LEMMA SendsPromise ==
    ASSUME GeneralInv, ~overran, RequestInv, HoldsInv, ReplyInv, SendReply \/ SendPayload
    PROVE  [Promise!Next]_(Promise!vars)
<1>1. /\ pc \in {"reply", "refuse", "data"} /\ pc' \in {"data", "header"}
      /\ UNCHANGED <<reg, mem, req, data, result, open>>
      /\ UNCHANGED <<msg, status>> /\ UNCHANGED payload
      /\ UNCHANGED <<cpc, overran, toServer>>
  BY DEF SendReply, SendPayload, target, client
<1>2. Served' <=> Served
  BY <1>1 DEF Served
<1>3. CASE Served
  BY <1>1, <1>2, <1>3, ServedStays
<1>4. CASE ~Served
  BY <1>1, <1>2, <1>4, Stutter DEF Phase, Answer
<1>5. QED
  BY <1>3, <1>4

LEMMA AskPromise ==
    ASSUME ~overran, Ask
    PROVE  [Promise!Next]_(Promise!vars)
<1>1. /\ cpc = "idle" /\ open /\ cpc' = "send" /\ result' = None
      /\ UNCHANGED <<reg, mem, open>>
  BY DEF Ask, target
<1>2. PICK r \in Request :
        /\ req' = r
        /\ data' \in IF r.write THEN [1 .. r.size -> Data] ELSE {<<>>}
        /\ overran' = (r.write /\ r.size > Limit)
  BY DEF Ask
<1>3. ~Served /\ ~Served'
  BY <1>1 DEF Served
<1>4. Phase = "idle" /\ Answer' = Answer
  BY <1>1, <1>3 DEF Phase, Answer
<1>5. Phase' = IF r.write /\ r.size > Limit THEN "broken" ELSE "asked"
  BY <1>1, <1>2, <1>3 DEF Phase
<1>6. r \in Promise!Request /\ data' \in Promise!Sent(r)
  BY <1>2 DEF Request, Register, Outside, Promise!Request, Promise!Register, Promise!Outside,
     Promise!Sent
<1>7. result' = Promise!Nothing
  BY <1>1 DEF None, Promise!Nothing
<1>8. Promise!Ask
  BY <1>1, <1>2, <1>4, <1>5, <1>6, <1>7 DEF Promise!Ask
<1>9. QED
  BY <1>8 DEF Promise!Next

LEMMA SendPromise ==
    ASSUME GeneralInv, ~overran, Send
    PROVE  [Promise!Next]_(Promise!vars)
<1>1. /\ cpc = "send" /\ cpc' \in {"header", "send"} /\ UNCHANGED overran
      /\ UNCHANGED <<reg, mem, req, data, result, open>>
      /\ toServer' = Append(toServer, IF sent = 0 THEN req ELSE data[sent])
  BY DEF Send, target
<1>2. toServer' # <<>>
  <2> DEFINE u == IF sent = 0 THEN req ELSE data[sent]
  <2>1. toServer' = Append(toServer, u) /\ Len(toServer) \in Nat
    BY <1>1, Numbers
  <2>2. Len(toServer') = Len(toServer) + 1
    BY <2>1, AppendProperties DEF GeneralInv, TypeOK
  <2>3. QED
    BY <2>1, <2>2, NoUnits
<1>3. ~Served /\ ~Served'
  BY <1>1, <1>2 DEF Served
<1>4. QED
  BY <1>1, <1>3, UnservedStays

\* A reply the device can take from is one the server has an outcome for.
LEMMA ReplyIsServed ==
    ASSUME GeneralInv, ~overran, RequestInv, HoldsInv, ReplyInv, open,
           cpc \in {"header", "data"}, toClient # <<>>
    PROVE  Served /\ msg = req
<1> USE Numbers
<1>1. pc # "stopped"
  BY DEF GeneralInv, PlaceInv
<1>2. Len(toClient) = Put - Gotten /\ Gotten \in Nat /\ Len(toClient) \in Nat \ {0}
  <2>1. Len(got.data) \in Nat /\ Len(toClient) \in Nat
    OBVIOUS
  <2>2. Len(toClient) # 0
    BY EmptySeq DEF GeneralInv, TypeOK
  <2>3. Gotten \in Nat
    BY <2>1 DEF Gotten
  <2>4. QED
    BY <1>1, <2>1, <2>2, <2>3 DEF ReplyInv
<1>3. Put # 0
  <2>1. SUFFICES ASSUME Put = 0
                 PROVE  FALSE
    OBVIOUS
  <2>2. QED
    BY <1>1, <1>2, <2>1, NotYet
<1>4. pc \in {"header", "data"} /\ Taken # 0
  BY <1>1, <1>3 DEF Put, GeneralInv, TypeOK
<1>5. Taken = Len(data) + 1
  BY <1>4 DEF HoldsInv
<1>6. msg = req
  <2>1. Taken > 0
    BY <1>5
  <2>2. QED
    BY <1>1, <2>1 DEF HoldsInv
<1>7. toServer = <<>>
  <2>1. sent - Len(toServer) = Len(data) + 1 /\ sent = Len(data) + 1
    BY <1>5 DEF Taken
  <2>2. Len(toServer) \in Nat /\ Len(data) \in Nat
    OBVIOUS
  <2>3. Len(toServer) = 0
    BY ONLY <2>1, <2>2
  <2>4. QED
    BY <2>3, EmptySeq DEF GeneralInv, TypeOK
<1>8. QED
  BY <1>4, <1>6, <1>7 DEF Served

\* The device has all of its answer, and it is the request's outcome.
LEMMA FinishPromise ==
    ASSUME ~overran, ~overran', Served, open, NEW reply, Finish(reply), reply = Outcome,
           UNCHANGED <<reg, mem, req, open>>
    PROVE  [Promise!Next]_(Promise!vars)
<1>1. cpc # "idle" /\ cpc' = "idle" /\ ~Served'
  BY DEF Finish, Served
<1>2. Phase = "served" /\ Phase' = "idle" /\ Answer = Outcome /\ Answer' = None
  BY <1>1 DEF Phase, Answer
<1>3. result' = Answer /\ data' = <<>> /\ Answer' = Promise!Nothing
  BY <1>2 DEF Finish, None, Promise!Nothing
<1>4. Promise!Take
  BY <1>2, <1>3 DEF Promise!Take
<1>5. QED
  BY <1>4 DEF Promise!Next

LEMMA GetHeaderPromise ==
    ASSUME GeneralInv, ~overran, RequestInv, HoldsInv, ReplyInv, GetHeader
    PROVE  [Promise!Next]_(Promise!vars)
<1> USE Numbers
<1>1. /\ cpc = "header" /\ open /\ toClient # <<>> /\ toClient' = Tail(toClient)
      /\ UNCHANGED <<reg, mem, req, open>> /\ UNCHANGED <<msg, status>> /\ UNCHANGED payload
      /\ UNCHANGED <<overran, toServer, pc>> /\ pc # "stopped" /\ Gotten = 0
  BY DEF GetHeader, GeneralInv, PlaceInv, Gotten, target, server
<1>2. Served /\ msg = req
  BY <1>1, ReplyIsServed
<1>3. As(Status, Head(toClient)) = {status}
  <2>1. Head(toClient) = status
    BY <1>1, GetUnit DEF Replied
  <2>2. QED
    BY <2>1, AsRange DEF GeneralInv, TypeOK
<1>4. CASE ReplyLen = 0
  <2>1. Finish([status |-> status, data |-> <<>>])
    BY <1>3, <1>4 DEF GetHeader, ReplyLen
  <2>2. Outcome = [status |-> status, data |-> <<>>]
    <3>1. CASE req.write \/ req.size > Limit
      BY <1>2, <3>1 DEF Outcome
    <3>2. CASE ~(req.write \/ req.size > Limit)
      <4>1. req.size = 0
        BY <1>4, <3>2 DEF ReplyLen
      <4>2. Outcome = [status |-> status, data |-> [i \in 1 .. 0 |-> payload[i]]]
        BY <1>2, <3>2, <4>1 DEF Outcome
      <4>3. QED
        BY <4>2, NoWords
    <3>3. QED
      BY <3>1, <3>2
  <2>3. QED
    BY <1>1, <1>2, <2>1, <2>2, FinishPromise
<1>5. CASE ReplyLen > 0
  <2>1. ~req.write /\ req.size \in 1 .. Limit
    BY <1>5 DEF ReplyLen
  <2>2. cpc' = "data" /\ UNCHANGED <<data, sent, result>>
    BY <1>3, <2>1 DEF GetHeader
  <2>3. Served'
    BY <1>1, <1>2, <2>2 DEF Served
  <2>4. QED
    BY <1>1, <1>2, <2>2, <2>3, ServedStays
<1>6. QED
  BY <1>4, <1>5

LEMMA LongerReply ==
    ASSUME NEW s, NEW d, NEW w
    PROVE  [[status |-> s, data |-> d] EXCEPT !.data = Append(@, w)]
             = [status |-> s, data |-> Append(d, w)]
  OBVIOUS

LEMMA GetPayloadPromise ==
    ASSUME GeneralInv, ~overran, RequestInv, HoldsInv, ReplyInv, GetPayload
    PROVE  [Promise!Next]_(Promise!vars)
<1> USE Numbers
<1> DEFINE n == Len(got.data)
           reply == [got EXCEPT !.data = Append(@, payload[n + 1])]
<1>1. /\ cpc = "data" /\ open /\ toClient # <<>> /\ toClient' = Tail(toClient)
      /\ UNCHANGED <<reg, mem, req, open>> /\ UNCHANGED <<msg, status>> /\ UNCHANGED payload
      /\ UNCHANGED <<overran, toServer, pc>> /\ pc # "stopped"
  BY DEF GetPayload, GeneralInv, PlaceInv, target, server
<1>2. Served /\ msg = req
  BY <1>1, ReplyIsServed
<1>3. Gotten = n + 1 /\ n \in Nat /\ n < ReplyLen
  BY <1>1 DEF Gotten, ReplyInv
<1>4. ReplyLen = req.size /\ ~req.write /\ ~(req.size > Limit)
  BY <1>3 DEF ReplyLen
<1>5. n + 1 \in 1 .. Limit /\ n + 1 # 0
  <2>1. req.size \in Nat /\ Limit \in Nat
    OBVIOUS
  <2>2. QED
    BY ONLY <1>3, <1>4, <2>1
<1>6. payload[n + 1] \in Data /\ As(Data, Head(toClient)) = {payload[n + 1]}
  <2>1. Head(toClient) = payload[n + 1]
    BY <1>1, <1>3, <1>5, GetUnit DEF Replied
  <2>2. payload[n + 1] \in Data
    BY <1>5 DEF GeneralInv, TypeOK
  <2>3. QED
    BY <2>1, <2>2, AsRange
<1>7. PICK w \in As(Data, Head(toClient)) :
        IF Len([got EXCEPT !.data = Append(@, w)].data) < req.size
        THEN got' = [got EXCEPT !.data = Append(@, w)] /\ UNCHANGED <<cpc, data, sent, result>>
        ELSE Finish([got EXCEPT !.data = Append(@, w)])
  BY DEF GetPayload
<1>8. w = payload[n + 1]
  BY <1>6, <1>7
<1>9. CASE Len(reply.data) < req.size
  <2>1. UNCHANGED <<cpc, data, sent, result>>
    BY <1>7, <1>8, <1>9
  <2>2. Served'
    BY <1>1, <1>2, <2>1 DEF Served
  <2>3. QED
    BY <1>1, <1>2, <2>1, <2>2, ServedStays
<1>10. CASE ~(Len(reply.data) < req.size)
  <2>1. Finish(reply)
    BY <1>7, <1>8, <1>10
  <2>2. /\ got \in Reply /\ got.data \in Seq(Data)
        /\ reply = [status |-> got.status, data |-> Append(got.data, payload[n + 1])]
    <3>1. got \in Reply
      BY DEF GeneralInv, TypeOK
    <3>2. got = [status |-> got.status, data |-> got.data] /\ got.data \in Seq(Data)
      BY <3>1 DEF Reply
    <3>3. reply = [status |-> got.status, data |-> Append(got.data, payload[n + 1])]
      <4> DEFINE s == got.status
                 d == got.data
                 v == payload[n + 1]
      <4>1. got = [status |-> s, data |-> d]
        BY <3>2
      <4>2. [[status |-> s, data |-> d] EXCEPT !.data = Append(@, v)]
              = [status |-> s, data |-> Append(d, v)]
        BY LongerReply
      <4> HIDE DEF s, d, v
      <4>3. [got EXCEPT !.data = Append(@, v)] = [status |-> s, data |-> Append(d, v)]
        BY ONLY <4>1, <4>2
      <4>4. QED
        BY <4>3 DEF s, d, v
    <3>4. QED
      BY <3>1, <3>2, <3>3
  <2>3. reply.data = Append(got.data, payload[n + 1])
    BY <2>2
  <2>4. /\ reply.data \in Seq(Data) /\ Len(reply.data) = n + 1
        /\ reply.data[n + 1] = payload[n + 1] /\ \A i \in 1 .. n : reply.data[i] = got.data[i]
    BY <1>6, <2>2, <2>3, AppendProperties
  <2>5. n + 1 = req.size
    <3>1. req.size \in Nat /\ ~(n + 1 < req.size)
      BY <1>10, <2>4
    <3>2. QED
      BY ONLY <1>3, <1>4, <3>1
  <2>6. \A i \in 1 .. req.size : reply.data[i] = payload[i]
    <3>1. SUFFICES ASSUME NEW i \in 1 .. req.size
                   PROVE  reply.data[i] = payload[i]
      OBVIOUS
    <3>2. CASE i = n + 1
      BY <2>4, <3>2
    <3>3. CASE i # n + 1
      <4>1. i \in 1 .. n
        <5>1. n \in Nat /\ i \in 1 .. n + 1
          BY <1>3, <2>5
        <5>2. QED
          BY ONLY <3>3, <5>1
      <4>2. QED
        BY <1>1, <2>4, <4>1 DEF ReplyInv
    <3>4. QED
      BY <3>2, <3>3
  <2>7. reply.data = [i \in 1 .. req.size |-> payload[i]]
    <3>1. DOMAIN reply.data = 1 .. req.size
      BY <2>4, <2>5
    <3>2. reply.data = [i \in DOMAIN reply.data |-> reply.data[i]]
      BY <2>4
    <3>3. QED
      BY <2>6, <3>1, <3>2
  <2>8. reply = Outcome
    <3>1. got.status = status
      BY <1>1 DEF ReplyInv
    <3>2. reply = [status |-> status, data |-> [i \in 1 .. req.size |-> payload[i]]]
      BY <2>2, <2>3, <2>7, <3>1
    <3>3. Outcome = [status |-> status, data |-> [i \in 1 .. req.size |-> payload[i]]]
      BY <1>2, <1>4 DEF Outcome
    <3>4. QED
      BY <3>2, <3>3
  <2>9. QED
    <3> HIDE DEF reply
    <3>1. QED
      BY <1>1, <1>2, <2>1, <2>8, FinishPromise
<1>11. QED
  BY <1>9, <1>10

LEMMA ClosePromise ==
    ASSUME ~overran, Close
    PROVE  [Promise!Next]_(Promise!vars)
<1>1. /\ open /\ open' = FALSE /\ UNCHANGED <<reg, mem, req, data, result>>
      /\ UNCHANGED <<cpc, overran, toServer, pc, msg, status, payload>>
  BY DEF Close, target, stream, server, client
<1>2. Served' <=> Served
  BY <1>1 DEF Served
<1>3. Outcome' = Outcome
  BY <1>1 DEF Outcome
<1>4. Phase' = Phase /\ Answer' = Answer
  BY <1>1, <1>2, <1>3 DEF Phase, Answer
<1>5. Promise!Lose
  BY <1>1, <1>4 DEF Promise!Lose
<1>6. QED
  BY <1>5 DEF Promise!Next

\* Behind a write beyond Limit nothing is promised any more, for good.
LEMMA BrokenPromise ==
    ASSUME overran, [Next]_vars
    PROVE  [Promise!Next]_(Promise!vars)
<1>1. overran'
  BY DEF Next, Server, Device, RecvHeader, RecvPayload, RecvFails, Serve, SendReply,
     SendPayload, SendFails, Ask, Send, GetHeader, GetPayload, Close, vars, client
<1>2. Phase = "broken" /\ Phase' = "broken"
  BY <1>1 DEF Phase
<1>3. QED
  BY <1>2 DEF Promise!Broken, Promise!Next

LEMMA PromiseStep ==
    ASSUME GeneralInv, SyncInv, [Next]_vars
    PROVE  [Promise!Next]_(Promise!vars)
<1>1. CASE overran
  BY <1>1, BrokenPromise
<1>2. CASE ~overran
  <2>1. RequestInv /\ HoldsInv /\ ReplyInv
    BY <1>2 DEF SyncInv
  <2>2. CASE UNCHANGED vars
    <3>1. /\ UNCHANGED <<reg, mem, req, data, result, open>>
          /\ UNCHANGED <<cpc, overran, toServer, pc, msg, status, payload>>
      BY <2>2 DEF vars, target, stream, server, client
    <3>2. Served' <=> Served
      BY <3>1 DEF Served
    <3>3. Outcome' = Outcome
      BY <3>1 DEF Outcome
    <3>4. QED
      BY <3>1, <3>2, <3>3, Stutter DEF Phase, Answer
  <2>3. QED
    BY <1>2, <2>1, <2>2, RecvHeaderPromise, RecvPayloadPromise, FailsPromise, ServePromise,
       SendsPromise, AskPromise, SendPromise, GetHeaderPromise, GetPayloadPromise, ClosePromise
       DEF Next, Server, Device
<1>3. QED
  BY <1>1, <1>2

\* The bridge does what it promises: over a stream without message boundaries,
\* for any sizes, capacities and contents and wherever the connection breaks,
\* each request is carried out whole and once and gets its own answer.
THEOREM ImplementsRemoteMemory == Spec => PromiseSpec
<1>1. Init => Promise!Init
  <2>1. SUFFICES ASSUME Init
                 PROVE  Promise!Init
    OBVIOUS
  <2>2. ~Served
    BY <2>1 DEF Init, Served
  <2>3. Phase = "idle" /\ Answer = None
    BY <2>1, <2>2 DEF Init, Phase, Answer
  <2>4. req \in Promise!Request
    <3>1. TypeOK
      BY <2>1, GeneralInit DEF GeneralInv
    <3>2. QED
      BY <3>1 DEF TypeOK, Request, Register, Outside, Promise!Request, Promise!Register,
         Promise!Outside
  <2>5. QED
    BY <2>1, <2>3, <2>4 DEF Init, None, Promise!Init, Promise!Nothing
<1>2. GeneralInv /\ SyncInv /\ [Next]_vars => [Promise!Next]_(Promise!vars)
  BY PromiseStep
<1>3. QED
  BY <1>1, <1>2, SyncInvAlways, PTL DEF Spec, PromiseSpec, Promise!Spec

-----------------------------------------------------------------------------
(* Nobody waits for ever: the guards, and a measure of each exchange.      *)

\* When the server's loop goes on, and when the device does: there is something
\* to receive, room to send, or an end of the connection to notice.
ServerCan ==
    \/ pc \in {"header", "payload"} /\ (toServer # <<>> \/ ~open)
    \/ pc = "serve"
    \/ pc \in {"reply", "refuse", "data"} /\ (Room(toClient) \/ ~open)
DeviceCan ==
    \/ cpc = "send" /\ Room(toServer)
    \/ cpc \in {"header", "data"} /\ open /\ toClient # <<>>

NeverStuck ==
    /\ cpc # "idle" /\ ~overran /\ open => ServerCan \/ DeviceCan
    /\ ~open => ServerCan \/ pc = "stopped"

\* What has been done of an exchange: the units put into the stream and taken out
\* of it at both ends, and the request carried out.
CarriedOut == IF pc \in {"reply", "refuse"} \/ Put > 0 THEN 1 ELSE 0
Steps == sent + Taken + CarriedOut + Put + Gotten
MaxSteps == 2 * Limit + 4

\* What the server has left to do once the connection is closed.
Left ==
    IF pc \in {"header", "payload"} THEN Len(toServer) + 3
    ELSE IF pc = "serve" THEN 2 ELSE IF pc = "stopped" THEN 0 ELSE 1

\* Room for one unit each way is enough: with a request in hand one of the two ends
\* can always go on, so recv_all and send_all never wait for each other; and a
\* server whose connection is gone never waits for anything.
THEOREM BridgeNeverStuck == Spec => []NeverStuck
<1>1. ASSUME GeneralInv, RequestInv, HoldsInv, ReplyInv, cpc # "idle", open
      PROVE  ServerCan \/ DeviceCan
  <2> USE Numbers, <1>1
  <2>1. pc \in {"header", "payload", "serve", "reply", "refuse", "data"}
    BY DEF GeneralInv, TypeOK, PlaceInv
  <2>2. CASE pc \in {"reply", "refuse", "data"}
    <3>1. cpc \in {"header", "data"}
      BY <2>2 DEF HoldsInv
    <3>2. toClient = <<>> => Len(toClient) < Cap
      BY NoUnits
    <3>3. QED
      BY <2>2, <3>1, <3>2 DEF ServerCan, DeviceCan, Room
  <2>3. CASE pc \in {"header", "payload"} /\ toServer = <<>> /\ cpc = "send"
    <3>1. Len(toServer) < Cap
      BY <2>3, NoUnits
    <3>2. QED
      BY <2>3, <3>1 DEF DeviceCan, Room
  <2>4. CASE pc \in {"header", "payload"} /\ toServer = <<>> /\ cpc \in {"header", "data"}
    <3>1. Taken = Len(data) + 1
      <4>1. sent = Len(data) + 1 /\ Len(toServer) = 0
        BY <2>4, NoUnits
      <4>2. QED
        BY <4>1 DEF Taken
    <3>2. msg = req
      BY <2>4, <3>1 DEF HoldsInv
    <3>3. pc = "header"
      <4>1. SUFFICES ASSUME pc = "payload"
                     PROVE  FALSE
        BY <2>4
      <4>2. Taken = done + 1 /\ done < msg.size /\ msg.write
        BY <4>1 DEF HoldsInv, GeneralInv, BufferInBounds, PlaceInv
      <4>3. Len(data) = msg.size
        BY <3>2, <4>2, <2>4 DEF GeneralInv, CountInv
      <4>4. QED
        BY <3>1, <4>2, <4>3
    <3>4. Len(toClient) = ReplyLen + 1 - Gotten /\ Gotten <= ReplyLen /\ Gotten \in Nat
      <4>1. ReplyLen \in Nat /\ Len(got.data) \in Nat /\ Len(data) \in Nat
        OBVIOUS
      <4>2. Put = ReplyLen + 1
        BY <3>1, <3>3, <4>1 DEF Put
      <4>3. Len(toClient) = Put - Gotten
        BY <3>3 DEF ReplyInv
      <4>4. cpc = "data" => Len(got.data) < ReplyLen
        BY DEF ReplyInv
      <4>5. Gotten <= ReplyLen /\ Gotten \in Nat
        BY ONLY <4>1, <4>4 DEF Gotten
      <4>6. QED
        BY ONLY <4>1, <4>2, <4>3, <4>5
    <3>5. Len(toClient) # 0
      BY <3>4
    <3>6. toClient # <<>>
      BY <3>5, NoUnits
    <3>7. QED
      BY <2>4, <3>6 DEF DeviceCan
  <2>5. QED
    BY <2>1, <2>2, <2>3, <2>4 DEF ServerCan, GeneralInv, TypeOK
<1>2. GeneralInv /\ SyncInv => NeverStuck
  <2>1. ASSUME GeneralInv, ~open
        PROVE  ServerCan \/ pc = "stopped"
    BY <2>1 DEF ServerCan, GeneralInv, TypeOK
  <2>2. QED
    BY <1>1, <2>1 DEF NeverStuck, SyncInv
<1>3. QED
  BY <1>2, SyncInvAlways, PTL

LEMMA StepsBounded ==
    ASSUME GeneralInv, RequestInv, HoldsInv, ReplyInv, pc # "stopped"
    PROVE  Steps \in 0 .. MaxSteps
<1> USE Numbers
<1>1. Len(data) + ReplyLen <= Limit
  BY DEF ReplyLen, RequestInv, GeneralInv, CountInv
<1>2. Taken >= 0 /\ Taken <= sent
  BY DEF Taken, RequestInv
<1>3. Gotten \in Nat /\ Gotten <= ReplyLen
  BY DEF Gotten, ReplyInv
<1>4. Put \in Nat /\ Put <= ReplyLen + 1
  <2>1. CASE pc = "data"
    <3>1. done < msg.size /\ msg.size <= Limit /\ ~msg.write
      BY <2>1 DEF GeneralInv, BufferInBounds, PlaceInv
    <3>2. msg = req
      BY <2>1 DEF HoldsInv
    <3>3. ReplyLen = msg.size
      BY <3>1, <3>2 DEF ReplyLen
    <3>4. Put \in {0, done + 1}
      BY <2>1 DEF Put
    <3>5. QED
      BY <3>1, <3>3, <3>4
  <2>2. CASE pc # "data"
    <3>1. Put \in {0, ReplyLen + 1}
      BY <2>2 DEF Put
    <3>2. QED
      BY <3>1
  <2>3. QED
    BY <2>1, <2>2
<1>5. CarriedOut \in {0, 1}
  BY DEF CarriedOut
<1>6. sent \in Nat /\ sent <= Len(data) + 1 /\ Taken \in Int
  OBVIOUS
<1>7. Len(data) \in Nat /\ ReplyLen \in Nat /\ Limit \in Nat
  OBVIOUS
<1>8. QED
  BY ONLY <1>1, <1>2, <1>3, <1>4, <1>5, <1>6, <1>7 DEF Steps, MaxSteps

LEMMA StepsType ==
    ASSUME GeneralInv
    PROVE  /\ sent \in Nat /\ Taken \in Int /\ CarriedOut \in {0, 1}
           /\ Put \in Nat /\ Gotten \in Nat
<1>1. /\ sent \in Nat /\ Taken \in Int /\ ReplyLen \in Nat /\ done \in Nat
      /\ Len(got.data) \in Nat
  BY Numbers
<1>2. CarriedOut \in {0, 1}
  BY DEF CarriedOut
<1>3. Put \in Nat
  BY <1>1 DEF Put
<1>4. Gotten \in Nat
  BY <1>1 DEF Gotten
<1>5. QED
  BY <1>1, <1>2, <1>3, <1>4

LEMMA RecvAdvances ==
    ASSUME GeneralInv, RequestInv, HoldsInv, RecvHeader \/ RecvPayload
    PROVE  Steps' > Steps
<1> USE StepsType
<1>1. /\ toServer \in Seq(bridge_msg \cup Data) /\ toServer # <<>> /\ Len(toServer) <= Cap
      /\ toServer' = Tail(toServer) /\ UNCHANGED <<sent, cpc, got>>
  BY DEF RecvHeader, RecvPayload, GeneralInv, TypeOK, client
<1>2. Taken' = Taken + 1
  <2>1. Len(toServer') = Len(toServer) - 1 /\ Len(toServer) \in Nat \ {0}
    BY <1>1, TakeUnit
  <2>2. QED
    BY <1>1, <2>1 DEF Taken
<1>3. Put = 0 /\ pc \in {"header", "payload"}
  <2>1. CASE RecvHeader
    <3>1. pc = "header" /\ Len(toServer) \in Nat \ {0}
      BY <1>1, <2>1, TakeUnit DEF RecvHeader
    <3>2. Taken < sent
      BY <3>1 DEF Taken
    <3>3. Taken = 0
      BY <3>1, <3>2, Numbers DEF HoldsInv
    <3>4. QED
      BY <3>1, <3>3 DEF Put
  <2>2. CASE RecvPayload
    BY <2>2 DEF RecvPayload, Put
  <2>3. QED
    BY <2>1, <2>2
<1>4. Put' = 0 /\ CarriedOut' \in {0, 1} /\ Gotten' = Gotten
  BY <1>1 DEF RecvHeader, RecvPayload, Put, CarriedOut, Gotten
<1>5. CarriedOut = 0
  BY <1>3 DEF CarriedOut
<1>6. QED
  BY <1>1, <1>2, <1>3, <1>4, <1>5 DEF Steps

LEMMA ServeAdvances ==
    ASSUME GeneralInv, Serve
    PROVE  Steps' > Steps
<1>1. pc = "serve" /\ pc' = "reply" /\ UNCHANGED <<toServer, sent, cpc, got>>
  BY DEF Serve, stream, client
<1>2. /\ Put = 0 /\ Put' = 0 /\ CarriedOut = 0 /\ CarriedOut' = 1
      /\ Taken' = Taken /\ Gotten' = Gotten
  BY <1>1 DEF Put, CarriedOut, Taken, Gotten
<1>3. QED
  BY <1>1, <1>2, StepsType DEF Steps

LEMMA SendAdvances ==
    ASSUME GeneralInv, HoldsInv, SendReply \/ SendPayload
    PROVE  Steps' > Steps
<1> USE Numbers
<1>1. UNCHANGED <<toServer, sent, cpc, got, req, data>>
  BY DEF SendReply, SendPayload, client
<1>2. Taken' = Taken /\ Gotten' = Gotten /\ ReplyLen' = ReplyLen /\ Taken' # 0
  <2>1. Taken = Len(data) + 1
    BY DEF HoldsInv, SendReply, SendPayload
  <2>2. QED
    BY <1>1, <2>1 DEF Taken, Gotten, ReplyLen
<1>3. Put \in Nat /\ Put' > Put /\ CarriedOut = 1 /\ Put' \in Nat
  <2>1. CASE SendReply
    <3>1. pc \in {"reply", "refuse"} /\ pc' \in {"data", "header"} /\ done' = done
      BY <2>1 DEF SendReply
    <3>2. Put = 0 /\ CarriedOut = 1
      BY <3>1 DEF Put, CarriedOut
    <3>3. Put' \in {done + 1, ReplyLen + 1}
      BY <1>2, <3>1 DEF Put
    <3>4. QED
      BY <3>2, <3>3
  <2>2. CASE SendPayload
    <3>1. pc = "data" /\ pc' \in {"data", "header"} /\ done < msg.size /\ msg.size <= Limit
      BY <2>2 DEF SendPayload, GeneralInv, BufferInBounds
    <3>2. Put = done + 1 /\ CarriedOut = 1
      BY <1>2, <3>1 DEF Put, CarriedOut
    <3>3. CASE pc' = "data" /\ done' = done + 1
      <4>1. Put' = done' + 1
        BY <1>2, <3>3 DEF Put
      <4>2. done \in Nat
        OBVIOUS
      <4>3. QED
        BY ONLY <3>2, <3>3, <4>1, <4>2
    <3>4. CASE pc' = "header" /\ done + 1 = msg.size
      <4>1. msg = req /\ ~msg.write
        BY <3>1 DEF HoldsInv, GeneralInv, PlaceInv
      <4>2. Put' = msg.size + 1
        BY <1>2, <3>1, <3>4, <4>1 DEF Put, ReplyLen
      <4>3. QED
        BY <3>2, <3>4, <4>2
    <3>5. QED
      BY <2>2, <3>1, <3>3, <3>4 DEF SendPayload
  <2>3. QED
    BY <2>1, <2>2
<1>4. CarriedOut' = 1
  BY <1>3 DEF CarriedOut
<1>5. QED
  BY <1>1, <1>2, <1>3, <1>4, StepsType DEF Steps

LEMMA DeviceAdvances ==
    ASSUME GeneralInv, Device, cpc' # "idle"
    PROVE  Steps' > Steps
<1> USE Numbers
<1>1. UNCHANGED <<pc, done, req>>
  BY DEF Device, Send, GetHeader, GetPayload, server
<1>2. ReplyLen' = ReplyLen
  BY <1>1 DEF ReplyLen
<1>3. CASE Send
  <2>1. /\ sent' = sent + 1 /\ Len(toServer') = Len(toServer) + 1
        /\ cpc = "send" /\ cpc' \in {"send", "header"}
    BY <1>3 DEF Send, GeneralInv, TypeOK
  <2>2. Taken' = Taken /\ Gotten' = 0 /\ Gotten = 0
    BY <2>1 DEF Taken, Gotten
  <2>3. Put' = Put /\ CarriedOut' = CarriedOut
    BY <1>1, <1>2, <2>2 DEF Put, CarriedOut
  <2>4. sent \in Nat /\ Taken \in Int /\ CarriedOut \in {0, 1} /\ Put \in Nat
    BY StepsType
  <2>5. QED
    BY ONLY <2>1, <2>2, <2>3, <2>4 DEF Steps
<1>4. CASE GetHeader \/ GetPayload
  <2>1. UNCHANGED <<toServer, sent>> /\ cpc' = "data" /\ Gotten' = Gotten + 1
    <3>1. CASE GetHeader
      <4>1. PICK s \in As(Status, Head(toClient)) :
              /\ cpc' = "data" /\ got' = [status |-> s, data |-> <<>>]
              /\ UNCHANGED <<data, sent>>
        BY <3>1 DEF GetHeader, Finish
      <4>2. Len(got'.data) = 0
        BY <4>1, NoUnits
      <4>3. cpc = "header"
        BY <3>1 DEF GetHeader
      <4>4. QED
        BY <3>1, <4>1, <4>2, <4>3 DEF GetHeader, Gotten
    <3>2. CASE GetPayload
      <4>1. PICK w \in As(Data, Head(toClient)) :
              /\ got' = [got EXCEPT !.data = Append(@, w)]
              /\ UNCHANGED <<cpc, data, sent>>
        BY <3>2 DEF GetPayload, Finish
      <4>2. w \in Data
        BY <4>1, AsRange
      <4>3. got \in Reply /\ got.data \in Seq(Data)
        BY DEF GeneralInv, TypeOK, Reply
      <4>4. got'.data = Append(got.data, w)
        BY <4>1, <4>3 DEF Reply
      <4>5. Len(got'.data) = Len(got.data) + 1
        BY <4>2, <4>3, <4>4, AppendProperties
      <4>6. cpc = "data"
        BY <3>2 DEF GetPayload
      <4>7. QED
        BY <3>2, <4>1, <4>5, <4>6 DEF GetPayload, Gotten
    <3>3. QED
      BY <1>4, <3>1, <3>2
  <2>2. Taken' = Taken
    BY <2>1 DEF Taken
  <2>3. Put' = Put /\ CarriedOut' = CarriedOut
    BY <1>1, <1>2, <2>2 DEF Put, CarriedOut
  <2>4. QED
    BY <2>1, <2>2, <2>3, StepsType DEF Steps
<1>5. QED
  BY <1>3, <1>4 DEF Device

\* A request is answered after a number of steps that is known beforehand: each
\* step of either end advances the exchange or ends it, and it cannot be advanced
\* more than MaxSteps times, by whatever pieces the stream delivers.
THEOREM ExchangeAdvances ==
    Spec => /\ [](open /\ ~overran => Steps \in 0 .. MaxSteps)
            /\ [][open /\ ~overran /\ (Server \/ Device)
                    => cpc' = "idle" \/ Steps' > Steps]_vars
<1>1. GeneralInv /\ SyncInv => (open /\ ~overran => Steps \in 0 .. MaxSteps)
  BY StepsBounded DEF SyncInv, GeneralInv, PlaceInv
<1>2. ASSUME GeneralInv, SyncInv, open, ~overran, Server \/ Device, cpc' # "idle"
      PROVE  Steps' > Steps
  <2>1. RequestInv /\ HoldsInv
    BY <1>2 DEF SyncInv
  <2>2. ~RecvFails /\ ~SendFails
    BY <1>2 DEF RecvFails, SendFails
  <2>3. QED
    BY <1>2, <2>1, <2>2, RecvAdvances, ServeAdvances, SendAdvances, DeviceAdvances DEF Server
<1>3. GeneralInv /\ SyncInv /\ [Next]_vars
        => [open /\ ~overran /\ (Server \/ Device) => cpc' = "idle" \/ Steps' > Steps]_vars
  BY <1>2
<1>4. QED
  BY <1>1, <1>3, SyncInvAlways, PTL DEF Spec

\* And a server whose connection is gone ends within Cap + 3 steps, even when what
\* is left in the stream is not what it takes it for.
THEOREM ServerRunsDown ==
    Spec => /\ [](Left \in 0 .. Cap + 3)
            /\ [][~open => UNCHANGED vars \/ (Server /\ Left' < Left)]_vars
<1>1. GeneralInv => Left \in 0 .. Cap + 3
  <2>1. SUFFICES ASSUME GeneralInv
                 PROVE  Left \in 0 .. Cap + 3
    OBVIOUS
  <2>2. Len(toServer) \in Nat /\ Cap \in Nat
    BY <2>1, Numbers
  <2>3. Len(toServer) <= Cap
    BY <2>1 DEF GeneralInv, TypeOK
  <2>4. QED
    BY <2>2, <2>3 DEF Left
<1>2. ASSUME GeneralInv, Next, ~open
      PROVE  Server /\ Left' < Left
  <2>1. Server
    BY <1>2 DEF Next, Device, Ask, Close, Send, GetHeader, GetPayload, Room
  <2>2. Len(toServer) \in Nat
    BY <1>2, Numbers
  <2>3. CASE RecvHeader \/ RecvPayload
    <3>1. /\ toServer \in Seq(bridge_msg \cup Data) /\ toServer # <<>> /\ Len(toServer) <= Cap
          /\ toServer' = Tail(toServer)
      BY <1>2, <2>3 DEF RecvHeader, RecvPayload, GeneralInv, TypeOK
    <3>2. Len(toServer') = Len(toServer) - 1 /\ Len(toServer) \in Nat \ {0}
      BY <3>1, TakeUnit
    <3>3. pc \in {"header", "payload"} /\ pc' \in {"payload", "serve", "refuse"}
      BY <2>3 DEF RecvHeader, RecvPayload
    <3>4. QED
      BY <2>1, <3>2, <3>3 DEF Left
  <2>4. CASE ~(RecvHeader \/ RecvPayload)
    BY <1>2, <2>1, <2>2, <2>4 DEF Server, RecvFails, Serve, SendReply, SendPayload, SendFails,
       Room, Left
  <2>5. QED
    BY <2>3, <2>4
<1>3. QED
  BY <1>1, <1>2, GeneralInvAlways, PTL DEF Spec

=============================================================================
