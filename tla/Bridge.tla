------------------------------- MODULE Bridge -------------------------------
(***************************************************************************)
(* bridge.cpp: the server loop that carries the device's requests over a   *)
(* UNIX stream socket to the controller.  A request is a header, followed  *)
(* by a payload when it writes; a reply is a header, followed by a payload *)
(* when it reads.  The stream has no message boundaries: a header is       *)
(* whatever comes next when the server wants one.                          *)
(*                                                                         *)
(* The unit of the stream is a header or one word of payload; recv_all and *)
(* send_all go unit by unit, as far as the socket's buffers let them.  The *)
(* device at the other end is external; it waits for a reply before it     *)
(* asks again, and knows the size limit when it reads.  The controller is  *)
(* reduced to what a transaction reads and writes (see MemController), and *)
(* the interrupt in the reply is left to that module.                      *)
(***************************************************************************)
EXTENDS Integers, Sequences

CONSTANTS
    Words,      \* the data region has the addresses 1 .. Words
    Limit,      \* DMA_BUFFER_SIZE, in words
    Data,       \* the contents of a word
    Zero,       \* what memory starts with
    Cap         \* the capacity of the socket, in units, each way

ASSUME BridgeAssumption ==
    /\ Words \in Nat /\ Limit \in Nat \ {0} /\ Cap \in Nat \ {0}
    /\ Zero \in Data

VARIABLES
    reg, mem,               \* the controller's registers, one here, and the SRAM
    toServer, toClient,     \* the two directions of the stream
    open,                   \* the device holds its end open
    pc, msg, status,        \* the server: where it is, the header it received, the
    payload, done,          \* status to send, its buffer, and the words it has done
    cpc, req, data, sent,   \* the device: where it is, its request, units sent,
    got, result,            \* the reply it collects, and the one it had last
    overran                 \* history: the device has sent a write beyond Limit

target == <<reg, mem>>
stream == <<toServer, toClient>>
server == <<pc, msg, status, payload, done>>
client == <<cpc, req, data, sent, got, result, overran>>
vars   == <<target, stream, open, server, client>>

Register == 0           \* the address of the controller's registers
Outside  == Words + 1   \* any address behind the data region

\* The header of a request, and what the device reads in the header of a reply.
bridge_msg ==
    [write : BOOLEAN, dma : BOOLEAN, addr : Register .. Outside, size : 0 .. Limit + 1]
Status == {"OK", "ERROR", "BURST_ERROR"}

\* What a receiver that wants an S can make of a unit: the bytes of any other
\* unit are taken for some S.
As(S, u) == IF u \in S THEN {u} ELSE S

\* What the device asks for: a register, or a block of the data region.
Request ==
    [write : BOOLEAN, dma : {FALSE}, addr : Register .. Outside, size : {1}]
        \cup [write : BOOLEAN, dma : {TRUE}, addr : 1 .. Outside, size : 0 .. Limit + 1]

\* The outcome of a request, as the device sees it.
Reply == [status : Status \cup {"none"}, data : Seq(Data)]
None  == [status |-> "none", data |-> <<>>]

\* The buffer is not initialised.
Init ==
    /\ reg = Zero /\ mem = [a \in 1 .. Words |-> Zero]
    /\ toServer = <<>> /\ toClient = <<>> /\ open = TRUE
    /\ pc = "header" /\ payload \in [1 .. Limit -> Data] /\ done = 0
    /\ msg = [write |-> FALSE, dma |-> FALSE, addr |-> 0, size |-> 0] /\ status = "OK"
    /\ cpc = "idle" /\ data = <<>> /\ sent = 0
    /\ req = [write |-> FALSE, dma |-> FALSE, addr |-> 0, size |-> 1]
    /\ got = None /\ result = None /\ overran = FALSE

-----------------------------------------------------------------------------
(* The server receives.                                                    *)

\* Faulty: allows one word too many.
RecvHeaderWide ==
    /\ pc = "header" /\ toServer # <<>>
    /\ toServer' = Tail(toServer)
    /\ msg' \in As(bridge_msg, Head(toServer))
    /\ pc' = IF msg'.write /\ msg'.size > 0 THEN "payload" ELSE "serve"
    /\ UNCHANGED <<target, toClient, open, status, payload, done, client>>

\* Faulty: drops an oversized request instead of answering it.
RecvHeaderSilent ==
    /\ pc = "header" /\ toServer # <<>>
    /\ toServer' = Tail(toServer)
    /\ msg' \in As(bridge_msg, Head(toServer))
    /\ pc' = IF msg'.size > Limit THEN "header"
             ELSE IF msg'.write /\ msg'.size > 0 THEN "payload" ELSE "serve"
    /\ UNCHANGED <<target, toClient, open, status, payload, done, client>>

\* A header; a size beyond the buffer is answered at once, whatever follows it.
RecvHeader ==
    /\ pc = "header" /\ toServer # <<>>
    /\ toServer' = Tail(toServer)
    /\ msg' \in As(bridge_msg, Head(toServer))
    /\ \/ msg'.size > Limit /\ status' = "BURST_ERROR" /\ pc' = "refuse"
       \/ /\ msg'.size <= Limit /\ UNCHANGED status
          /\ pc' = IF msg'.write /\ msg'.size > 0 THEN "payload" ELSE "serve"
    /\ UNCHANGED <<target, toClient, open, payload, done, client>>

\* Faulty: takes what the first recv returns for the whole payload.
RecvPayloadShort ==
    /\ pc = "payload" /\ toServer # <<>>
    /\ toServer' = Tail(toServer)
    /\ \E w \in As(Data, Head(toServer)) : payload' = [payload EXCEPT ![done + 1] = w]
    /\ pc' = "serve"
    /\ UNCHANGED <<target, toClient, open, msg, status, done, client>>

RecvPayload ==
    /\ pc = "payload" /\ toServer # <<>>
    /\ toServer' = Tail(toServer)
    /\ \E w \in As(Data, Head(toServer)) : payload' = [payload EXCEPT ![done + 1] = w]
    /\ \/ done + 1 < msg.size /\ done' = done + 1 /\ UNCHANGED pc
       \/ done + 1 = msg.size /\ done' = 0 /\ pc' = "serve"
    /\ UNCHANGED <<target, toClient, open, msg, status, client>>

\* Faulty: ignores a failure to receive the payload.
RecvFailsHeader ==
    /\ pc = "header" /\ toServer = <<>> /\ ~open
    /\ pc' = "stopped"
    /\ UNCHANGED <<target, stream, open, msg, status, payload, done, client>>

\* The other end is closed and everything it sent is read: recv returns 0, and
\* the loop is left for good.
RecvFails ==
    /\ pc \in {"header", "payload"} /\ toServer = <<>> /\ ~open
    /\ pc' = "stopped"
    /\ UNCHANGED <<target, stream, open, msg, status, payload, done, client>>

-----------------------------------------------------------------------------
(* The server serves: mmio_write, mmio_read, write_block and read_block.   *)

\* A register access has one word whatever the header says.
Size == IF msg.dma THEN msg.size ELSE 1
Block == msg.addr .. msg.addr + Size - 1
Inside == Size > 0 /\ Block \subseteq 1 .. Words

Write ==
    /\ msg.write
    /\ \/ msg.addr = Register /\ reg' = payload[1] /\ UNCHANGED mem
       \/ /\ Inside /\ UNCHANGED reg
          /\ mem' = [a \in 1 .. Words |->
                       IF a \in Block THEN payload[a - msg.addr + 1] ELSE mem[a]]
    /\ status' = "OK"
    /\ UNCHANGED payload

Read ==
    /\ ~msg.write /\ Size > 0
    /\ \/ msg.addr = Register /\ payload' = [payload EXCEPT ![1] = reg]
       \/ /\ Inside
          /\ payload' = [i \in 1 .. Limit |->
                           IF i <= Size THEN mem[msg.addr + i - 1] ELSE payload[i]]
    /\ status' = "OK"
    /\ UNCHANGED target

\* A block that is empty or not inside the SRAM, a register that is not there.  A
\* register read stores a zero, a block read leaves the buffer as it was.
Fail ==
    /\ ~Inside /\ (msg.addr # Register \/ (~msg.write /\ Size = 0))
    /\ status' = "ERROR"
    /\ payload' = IF ~msg.write /\ ~msg.dma THEN [payload EXCEPT ![1] = Zero] ELSE payload
    /\ UNCHANGED target

Serve ==
    /\ pc = "serve" /\ pc' = "reply"
    /\ Write \/ Read \/ Fail
    /\ UNCHANGED <<stream, open, msg, done, client>>

-----------------------------------------------------------------------------
(* The server replies.                                                     *)

Room(s) == open /\ Len(s) < Cap

\* Faulty: sends a payload behind the reply to a write too.
SendReplyLong ==
    /\ pc \in {"reply", "refuse"} /\ Room(toClient)
    /\ toClient' = Append(toClient, status)
    /\ pc' = IF pc = "reply" /\ msg.size > 0 THEN "data" ELSE "header"
    /\ UNCHANGED <<target, toServer, open, msg, status, payload, done, client>>

\* The header of the reply; the oversized request's has nothing behind it.
SendReply ==
    /\ pc \in {"reply", "refuse"} /\ Room(toClient)
    /\ toClient' = Append(toClient, status)
    /\ pc' = IF pc = "reply" /\ ~msg.write /\ msg.size > 0 THEN "data" ELSE "header"
    /\ UNCHANGED <<target, toServer, open, msg, status, payload, done, client>>

\* The payload of a read, sent for a failed one as well.
SendPayload ==
    /\ pc = "data" /\ Room(toClient)
    /\ toClient' = Append(toClient, payload[done + 1])
    /\ \/ done + 1 < msg.size /\ done' = done + 1 /\ UNCHANGED pc
       \/ done + 1 = msg.size /\ done' = 0 /\ pc' = "header"
    /\ UNCHANGED <<target, toServer, open, msg, status, payload, client>>

\* The other end is closed: send raises SIGPIPE, or returns -1.
SendFails ==
    /\ pc \in {"reply", "refuse", "data"} /\ ~open
    /\ pc' = "stopped"
    /\ UNCHANGED <<target, stream, open, msg, status, payload, done, client>>

Server ==
    \/ RecvHeader \/ RecvPayload \/ RecvFails
    \/ Serve
    \/ SendReply \/ SendPayload \/ SendFails

-----------------------------------------------------------------------------
(* The device (external).                                                  *)

\* The bound: behind a write beyond Limit nothing more is asked.
Ask ==
    /\ cpc = "idle" /\ open /\ ~overran
    /\ \E r \in Request :
         /\ req' = r
         /\ data' \in IF r.write THEN [1 .. r.size -> Data] ELSE {<<>>}
         /\ overran' = (r.write /\ r.size > Limit)
    /\ cpc' = "send" /\ sent' = 0 /\ result' = None
    /\ UNCHANGED <<target, stream, open, server, got>>

\* The header, then the words of a write, as far as there is room.
Send ==
    /\ cpc = "send" /\ Room(toServer)
    /\ toServer' = Append(toServer, IF sent = 0 THEN req ELSE data[sent])
    /\ sent' = sent + 1
    /\ cpc' = IF sent = Len(data) THEN "header" ELSE "send"
    /\ UNCHANGED <<target, toClient, open, server, req, data, got, result, overran>>

\* The request is answered and forgotten.
Finish(reply) ==
    /\ cpc' = "idle" /\ result' = reply /\ got' = None
    /\ data' = <<>> /\ sent' = 0

GetHeader ==
    /\ cpc = "header" /\ open /\ toClient # <<>>
    /\ toClient' = Tail(toClient)
    /\ \E s \in As(Status, Head(toClient)) :
         LET reply == [status |-> s, data |-> <<>>]
         IN IF ~req.write /\ req.size \in 1 .. Limit
            THEN cpc' = "data" /\ got' = reply /\ UNCHANGED <<data, sent, result>>
            ELSE Finish(reply)
    /\ UNCHANGED <<target, toServer, open, server, req, overran>>

GetPayload ==
    /\ cpc = "data" /\ open /\ toClient # <<>>
    /\ toClient' = Tail(toClient)
    /\ \E w \in As(Data, Head(toClient)) :
         LET reply == [got EXCEPT !.data = Append(@, w)]
         IN IF Len(reply.data) < req.size
            THEN got' = reply /\ UNCHANGED <<cpc, data, sent, result>>
            ELSE Finish(reply)
    /\ UNCHANGED <<target, toServer, open, server, req, overran>>

Close ==
    /\ open /\ open' = FALSE
    /\ UNCHANGED <<target, stream, server, client>>

Device == Send \/ GetHeader \/ GetPayload

-----------------------------------------------------------------------------

Next == Server \/ Device \/ Ask \/ Close

Spec == Init /\ [][Next]_vars

\* The simulator runs, and the device works on a request it has begun.
FairSpec == Spec /\ WF_vars(Server) /\ WF_vars(Device)

-----------------------------------------------------------------------------
(* Properties.                                                             *)

TypeOK ==
    /\ reg \in Data /\ mem \in [1 .. Words -> Data]
    /\ toServer \in Seq(bridge_msg \cup Data) /\ Len(toServer) <= Cap
    /\ toClient \in Seq(Status \cup Data) /\ Len(toClient) <= Cap
    /\ open \in BOOLEAN /\ overran \in BOOLEAN
    /\ pc \in {"header", "payload", "serve", "reply", "refuse", "data", "stopped"}
    /\ msg \in bridge_msg /\ status \in Status /\ payload \in [1 .. Limit -> Data]
    /\ done \in 0 .. Limit - 1
    /\ cpc \in {"idle", "send", "header", "data"}
    /\ req \in Request /\ data \in Seq(Data) /\ sent \in 0 .. Limit + 2
    /\ got \in Reply /\ result \in Reply

\* The server's loop never writes or reads its buffer behind the end, not even
\* when it takes payload for a header.
BufferInBounds == pc \in {"payload", "data"} => done < msg.size /\ msg.size <= Limit

\* Nothing of a request or of its reply is left in the stream when the device
\* has its answer: the next header is a header.
NothingLeftOver ==
    cpc = "idle" /\ ~overran =>
        toServer = <<>> /\ toClient = <<>> /\ pc \in {"header", "stopped"}

\* The outcome of the request in hand, once the server has it.
Served ==
    /\ cpc \in {"header", "data"} /\ toServer = <<>>
    /\ pc \notin {"payload", "serve"}

Outcome ==
    [status |-> status,
     data |-> IF msg.write \/ msg.size > Limit THEN <<>>
              ELSE [i \in 1 .. msg.size |-> payload[i]]]

Phase ==
    IF overran THEN "broken"
    ELSE IF cpc = "idle" THEN "idle" ELSE IF Served THEN "served" ELSE "asked"
Answer == IF ~overran /\ Served THEN Outcome ELSE None

Promise == INSTANCE RemoteMemory WITH phase <- Phase, answer <- Answer

\* Word by word over a stream without boundaries, with a buffer that is used
\* again and connections that break at any point, the bridge still carries out
\* each request whole and once, and the device gets that request's answer.
PromiseSpec == Promise!Spec

\* Every request is answered while the connection stands, however small the
\* socket's buffers are.
RequestAnswered == cpc # "idle" /\ ~overran ~> cpc = "idle" \/ ~open

\* When the device is gone the server ends, wherever it was.
DisconnectEnds == ~open ~> pc = "stopped"

=============================================================================
