---------------------------- MODULE RemoteMemory ----------------------------
(***************************************************************************)
(* What the bridge promises the device: the requests are carried out one   *)
(* at a time, whole and once each, and every answer is the answer to the   *)
(* request it follows.  The promise ends with a write longer than the      *)
(* bridge's buffer, and with the connection.                               *)
(***************************************************************************)
EXTENDS Integers

CONSTANTS
    Words,      \* the data region has the addresses 1 .. Words
    Limit,      \* DMA_BUFFER_SIZE, in words
    Data,       \* the contents of a word
    Zero        \* what a register read returns when it fails

Register == 0           \* the address of the controller's registers, one here
Outside  == Words + 1   \* any address behind the data region

\* Register accesses have one word; blocks do not address the registers.
Request ==
    [write : BOOLEAN, dma : {FALSE}, addr : Register .. Outside, size : {1}]
        \cup [write : BOOLEAN, dma : {TRUE}, addr : 1 .. Outside, size : 0 .. Limit + 1]

\* The words that travel with a request, and with its answer.
Sent(h)     == IF h.write THEN [1 .. h.size -> Data] ELSE {<<>>}
Received(h) == IF h.write \/ h.size > Limit THEN {<<>>} ELSE [1 .. h.size -> Data]

Nothing == [status |-> "none", data |-> <<>>]

VARIABLES
    reg, mem,   \* the register and the words of the data region
    phase,      \* idle, asked, served, or broken: no promise any more
    req, data,  \* the request
    answer,     \* its outcome, once it is served
    result,     \* the outcome the device got last
    open        \* the connection stands

vars == <<reg, mem, phase, req, data, answer, result, open>>

Init ==
    /\ reg = Zero /\ mem = [a \in 1 .. Words |-> Zero]
    /\ phase = "idle" /\ req \in Request /\ data = <<>>
    /\ answer = Nothing /\ result = Nothing /\ open = TRUE

Ask ==
    /\ phase = "idle" /\ open
    /\ \E h \in Request :
         /\ req' = h /\ data' \in Sent(h)
         /\ phase' = IF h.write /\ h.size > Limit THEN "broken" ELSE "asked"
    /\ result' = Nothing
    /\ UNCHANGED <<reg, mem, answer, open>>

\* The request's block, when it lies inside the data region and is not empty.
Block == req.addr .. req.addr + req.size - 1
Inside == req.size > 0 /\ Block \subseteq 1 .. Words

Accepted(d) == answer' = [status |-> "OK", data |-> d]

Write ==
    /\ req.write
    /\ \/ req.addr = Register /\ reg' = data[1] /\ UNCHANGED mem
       \/ /\ Inside /\ UNCHANGED reg
          /\ mem' = [a \in 1 .. Words |->
                       IF a \in Block THEN data[a - req.addr + 1] ELSE mem[a]]
    /\ Accepted(<<>>)

Read ==
    /\ ~req.write /\ req.size <= Limit
    /\ \/ req.addr = Register /\ Accepted(<<reg>>)
       \/ Inside /\ Accepted([i \in 1 .. req.size |-> mem[req.addr + i - 1]])
    /\ UNCHANGED <<reg, mem>>

\* The words that come with a failed block read are unspecified.
Fail ==
    /\ req.addr # Register /\ ~Inside /\ req.size <= Limit
    /\ answer' \in [status : {"ERROR"}, data : Received(req)]
    /\ ~req.write /\ ~req.dma => answer'.data = <<Zero>>
    /\ UNCHANGED <<reg, mem>>

Refuse ==
    /\ req.size > Limit
    /\ answer' = [status |-> "BURST_ERROR", data |-> <<>>]
    /\ UNCHANGED <<reg, mem>>

Serve ==
    /\ phase = "asked" /\ phase' = "served"
    /\ Write \/ Read \/ Fail \/ Refuse
    /\ UNCHANGED <<req, data, result, open>>

Take ==
    /\ phase = "served" /\ open /\ phase' = "idle"
    /\ result' = answer /\ answer' = Nothing /\ data' = <<>>
    /\ UNCHANGED <<reg, mem, req, open>>

\* The device goes away; a request it has sent may still be served.
Lose == open /\ open' = FALSE /\ UNCHANGED <<reg, mem, phase, req, data, answer, result>>

Broken == phase = "broken" /\ phase' = "broken"

Next == Ask \/ Serve \/ Take \/ Lose \/ Broken

Spec == Init /\ [][Next]_vars

=============================================================================
