-------------------------------- MODULE Tftp --------------------------------
(***************************************************************************)
(* Loading a file over the network in U-Boot: the TFTP client              *)
(* (src/uboot/net/tftp.c), the packet loop that drives it (net_loop and    *)
(* net_start_again, src/uboot/net/net.c) and the wait for the server's     *)
(* Ethernet address (src/uboot/net/arp.c).                                 *)
(*                                                                         *)
(* One turn of net_loop is the sequence "arp", "rx", "time", "switch" of   *)
(* pc.  Whether a timer has run out is decided at the head of the turn     *)
(* (due); arming a timer in the turn makes it not due.  The server and the *)
(* network are external.  The network loses and duplicates packets, and    *)
(* reorders them when fifo is FALSE.  The server answers each request from *)
(* a port of its own and numbers blocks from 1, modulo                     *)
(* TFTP_SEQUENCE_SIZE.  Byte i of the file is the number i.                *)
(***************************************************************************)
EXTENDS Integers, Sequences, SequencesExt

CONSTANTS
  TFTP_SEQUENCE_SIZE,   \* block numbers before they wrap; 2^16 in the code
  TFTP_BLOCK_SIZE,      \* bytes of a block without options; 512
  TFTP_MTU_BLOCKSIZE,   \* bytes of a block the client asks for; 1468
  TIMEOUT_COUNT,        \* timeouts of a transfer before it is started again
  ARP_TIMEOUT_COUNT,    \* requests for the server's address before failing
  Setups,               \* files, servers, networks and environments, see Setup
  MaxSessions,          \* requests the server answers
  MaxResends,           \* packets the server sends again
  ServerCapacity,       \* packets in flight to the server
  ClientCapacity        \* packets in flight to the client

\* size: bytes of the file; options: the server knows options; fifo: the
\* network keeps the order; prereq: what net_check_prereq finds.  netretry and
\* ethrotate are environment variables: retry_forever is netretry's "yes",
\* ethrotate is FALSE for "no".
Setup == [size : Nat, options : BOOLEAN, fifo : BOOLEAN, prereq : 0 .. 2,
          retry_forever : BOOLEAN, retrycnt : Nat, ethrotate : BOOLEAN]

ASSUME Constants ==
  /\ TFTP_SEQUENCE_SIZE \in Nat \ {0, 1}
  /\ {TFTP_BLOCK_SIZE, TFTP_MTU_BLOCKSIZE} \subseteq Nat \ {0}
  /\ {TIMEOUT_COUNT, ARP_TIMEOUT_COUNT} \subseteq Nat
  /\ Setups \subseteq Setup
  /\ {MaxSessions, MaxResends, ServerCapacity, ClientCapacity} \subseteq Nat

VARIABLES
  size, options, fifo, prereq,                     \* the setup
  retry_forever, retrycnt, ethrotate,
  pc, net_state, ret, net_try_count,               \* net_loop
  time_handler, due, udp_handler,
  arp_wait, arp_wait_try,                          \* arp.c
  tftp_state, tftp_our_port, tftp_remote_port,     \* tftp.c
  tftp_cur_block, tftp_prev_block, tftp_block_size,
  tftp_block_wrap_offset, timeout_count,
  net_boot_file_size, mem,                         \* what is loaded
  sessions, resent, toServer, toClient             \* server and network

setup == <<size, options, fifo, prereq, retry_forever, retrycnt, ethrotate>>
loop == <<pc, net_state, ret, net_try_count>>
handlers == <<time_handler, due, udp_handler>>
arp == <<arp_wait, arp_wait_try>>
ports == <<tftp_our_port, tftp_remote_port>>
blocks == <<tftp_cur_block, tftp_prev_block, tftp_block_wrap_offset>>
client == <<tftp_state, ports, blocks, tftp_block_size, timeout_count>>
loaded == <<net_boot_file_size, mem>>
server == <<sessions, resent>>
vars == <<setup, loop, handlers, arp, client, loaded, server, toServer, toClient>>

WELL_KNOWN_PORT == 0
Junk == -1
Error == -1            \* any negative errno

\* Offsets the model keeps of the load area.  A block at a wrong place falls
\* on a byte of the file or just behind it.
Offsets == 0 .. Max({s.size : s \in Setups}) + 2 * TFTP_MTU_BLOCKSIZE

-----------------------------------------------------------------------------
\* What may be in a direction of the network after a packet is sent: no copy,
\* one or two.
Sent(channel, packet, capacity) ==
  {q \in {channel, Append(channel, packet), channel \o <<packet, packet>>} :
     q = channel \/ Len(q) <= capacity}

\* The packets that may arrive next.
Arriving(channel) == IF fifo THEN {k \in 1 .. Len(channel) : k = 1} ELSE 1 .. Len(channel)

\* The bytes of a block that client and server agree on, and the last block.
AgreedSize == IF options THEN TFTP_MTU_BLOCKSIZE ELSE TFTP_BLOCK_SIZE
LastBlock(bytes) == size \div bytes + 1

\* While numbers wrap, a packet that is overtaken by TFTP_SEQUENCE_SIZE others
\* could pass for a new one: then the network keeps the order.
InSetup ==
  /\ [size |-> size, options |-> options, fifo |-> fifo, prereq |-> prereq,
      retry_forever |-> retry_forever, retrycnt |-> retrycnt, ethrotate |-> ethrotate] \in Setups
  /\ fifo \/ LastBlock(AgreedSize) < TFTP_SEQUENCE_SIZE

TypeOK ==
  /\ InSetup
  /\ pc \in {"start", "restart", "arp", "rx", "time", "switch", "done"}
  /\ net_state \in {"CONTINUE", "RESTART", "SUCCESS", "FAIL"}
  /\ ret \in {Error} \union Nat
  /\ net_try_count \in 1 .. Max({retrycnt, 1})
  /\ time_handler \in {"none", "tftp", "start_again"} /\ due \in BOOLEAN
  /\ udp_handler \in {"dummy", "tftp"}
  /\ arp_wait \in BOOLEAN /\ arp_wait_try \in 0 .. ARP_TIMEOUT_COUNT - 1
  /\ tftp_state \in {"SEND_RRQ", "OACK", "DATA"}
  /\ tftp_our_port \in Nat /\ tftp_remote_port \in 0 .. Len(sessions)
  /\ {tftp_cur_block, tftp_prev_block} \subseteq 0 .. TFTP_SEQUENCE_SIZE - 1
  /\ tftp_block_size \in {TFTP_BLOCK_SIZE, TFTP_MTU_BLOCKSIZE}
  /\ tftp_block_wrap_offset \in Nat
  /\ timeout_count \in 0 .. TIMEOUT_COUNT + 1
  /\ net_boot_file_size \in 0 .. size /\ mem \in [Offsets -> {Junk} \union Nat]
  /\ Len(sessions) <= MaxSessions /\ resent \in 0 .. MaxResends
  /\ Len(toServer) <= ServerCapacity /\ Len(toClient) <= ClientCapacity

Init ==
  /\ \E s \in Setups :
       /\ size = s.size /\ options = s.options /\ fifo = s.fifo /\ prereq = s.prereq
       /\ retry_forever = s.retry_forever /\ retrycnt = s.retrycnt /\ ethrotate = s.ethrotate
  /\ InSetup
  /\ pc = "start" /\ net_state = "CONTINUE" /\ ret = Error /\ net_try_count = 1
  /\ time_handler = "none" /\ due = FALSE /\ udp_handler = "dummy"
  /\ arp_wait = FALSE /\ arp_wait_try = 0
  /\ tftp_state = "SEND_RRQ" /\ tftp_our_port = 0 /\ tftp_remote_port = WELL_KNOWN_PORT
  /\ tftp_cur_block = 0 /\ tftp_prev_block = 0 /\ tftp_block_wrap_offset = 0
  /\ tftp_block_size = TFTP_BLOCK_SIZE /\ timeout_count = 0
  /\ net_boot_file_size = 0 /\ mem = [o \in Offsets |-> Junk]
  /\ sessions = <<>> /\ resent = 0 /\ toServer = <<>> /\ toClient = <<>>

-----------------------------------------------------------------------------
(* net.c *)

net_set_timeout_handler(handler) == time_handler' = handler /\ due' = FALSE

\* What net_start_again leaves when it is called in net_state st: it gives up,
\* or brings the interface up again (eth_init returns r).  Then it restarts at
\* once or, when the only interface has been tried, waits ten seconds, or fails
\* if a transfer was never begun (net_dev_exists is 0).  With retry_forever
\* nothing reads the number of tries, and the model does not count them.
StartAgain(st, r) ==
  IF ~retry_forever /\ net_try_count >= retrycnt
  THEN [state |-> "FAIL", tries |-> net_try_count, wait |-> FALSE, ret |-> Error]
  ELSE [state |-> IF ~ethrotate THEN "RESTART" ELSE IF prereq = 0 THEN st ELSE "FAIL",
        tries |-> IF retry_forever THEN net_try_count ELSE net_try_count + 1,
        wait |-> ethrotate /\ prereq = 0, ret |-> r]

\* Mutant: the wait for the next attempt is not armed.
net_start_againUnarmed(handler) ==
  LET again == StartAgain(net_state, 0) IN
    /\ net_state' = again.state /\ net_try_count' = again.tries
    /\ time_handler' = handler /\ due' = FALSE /\ udp_handler' = "dummy"

\* net_start_again as the handlers call it, with handler still armed.
net_start_again(handler) ==
  LET again == StartAgain(net_state, 0) IN
    /\ net_state' = again.state /\ net_try_count' = again.tries
    /\ IF again.wait
       THEN net_set_timeout_handler("start_again") /\ udp_handler' = "dummy"
       ELSE time_handler' = handler /\ UNCHANGED <<due, udp_handler>>

-----------------------------------------------------------------------------
(* tftp.c *)

tftp_send(state, port, block) ==
  LET packet == [op |-> IF state = "SEND_RRQ" THEN "RRQ" ELSE "ACK",
                 src |-> tftp_our_port, dst |-> port, block |-> block]
  IN toServer' \in Sent(toServer, packet, ServerCapacity)

\* A port that no session of the server and no packet knows.
UnusedPort ==
  LET used == {sessions[i].peer : i \in DOMAIN sessions}
                \union {toServer[k].src : k \in DOMAIN toServer}
  IN Min((1 .. Len(sessions) + Len(toServer) + 1) \ used)

\* The first packet of a transfer waits for the server's address, which
\* tftp_start has cleared.  The port is taken from the timer: the model takes
\* one that no earlier transfer still uses.
tftp_start ==
  /\ tftp_state' = "SEND_RRQ"
  /\ net_set_timeout_handler("tftp") /\ udp_handler' = "tftp"
  /\ tftp_remote_port' = WELL_KNOWN_PORT /\ tftp_our_port' = UnusedPort
  /\ timeout_count' = 0 /\ tftp_cur_block' = 0 /\ tftp_block_size' = TFTP_BLOCK_SIZE
  /\ arp_wait' = TRUE /\ arp_wait_try' = 1
  /\ UNCHANGED <<tftp_prev_block, tftp_block_wrap_offset, toServer>>

\* The packet at k of toClient, with the checks at the head of tftp_handler.
Takes(packet, op) ==
  /\ udp_handler = "tftp" /\ packet.op = op
  /\ packet.dst = tftp_our_port
  /\ tftp_state = "SEND_RRQ" \/ packet.src = tftp_remote_port

GotOACK(packet) ==
  /\ tftp_state' = "OACK" /\ tftp_remote_port' = packet.src
  /\ tftp_block_size' = packet.len
  /\ tftp_send("OACK", packet.src, tftp_cur_block)
  /\ UNCHANGED <<net_state, net_try_count, handlers, tftp_our_port, blocks,
                 timeout_count, loaded>>

store_block(offset, packet) ==
  /\ mem' = [o \in Offsets |-> IF o - offset \in 0 .. packet.len - 1
                               THEN packet.first + (o - offset) ELSE mem[o]]
  /\ net_boot_file_size' = Max({net_boot_file_size, offset + packet.len})

\* Mutants of Wraps: a repeated block 0 counts again; the wrap is missed.
WrapsAgain(block) == block = 0
NeverWraps(block) == FALSE

\* update_block_number: block 0 is the first after a wrap of the counter.
Wraps(block) == block = 0 /\ tftp_prev_block # 0

\* A block: the first of a transfer, a repeated one, or a new one, which is
\* stored and acknowledged.
GotDATA(packet) ==
  LET wraps == Wraps(packet.block)
      first == tftp_state # "DATA"
      prev == IF first THEN 0 ELSE tftp_prev_block
      wrap_offset == IF first THEN 0
                     ELSE IF wraps
                     THEN tftp_block_wrap_offset + tftp_block_size * TFTP_SEQUENCE_SIZE
                     ELSE tftp_block_wrap_offset
  IN /\ tftp_cur_block' = packet.block /\ tftp_block_wrap_offset' = wrap_offset
     /\ timeout_count' = IF wraps THEN 0 ELSE timeout_count
     /\ tftp_state' = "DATA" /\ tftp_remote_port' = packet.src
     /\ UNCHANGED <<tftp_our_port, tftp_block_size>>
     /\ \/ /\ first /\ packet.block # 1
           /\ tftp_prev_block' = 0
           /\ net_start_again(time_handler)
           /\ UNCHANGED <<toServer, loaded>>
        \/ /\ ~first /\ packet.block = prev
           /\ tftp_prev_block' = prev
           /\ UNCHANGED <<net_state, net_try_count, handlers, toServer, loaded>>
        \/ /\ IF first THEN packet.block = 1 ELSE packet.block # prev
           /\ tftp_prev_block' = packet.block
           /\ net_set_timeout_handler("tftp")
           /\ store_block((packet.block - 1) * tftp_block_size + wrap_offset, packet)
           /\ tftp_send("DATA", packet.src, packet.block)
           /\ net_state' = IF packet.len < tftp_block_size THEN "SUCCESS" ELSE net_state
           /\ UNCHANGED <<net_try_count, udp_handler>>

\* An error of the server: file not found and access denied end the transfer,
\* the others start it again.
GotERROR(packet) ==
  /\ IF packet.block \in {1, 2}
     THEN net_state' = "FAIL" /\ UNCHANGED <<net_try_count, handlers>>
     ELSE net_start_again(time_handler)
  /\ UNCHANGED <<client, loaded, toServer>>

\* Mutated form: timeouts are not counted.
tftp_timeout_handlerUncounted ==
  /\ net_set_timeout_handler("tftp")
  /\ tftp_send(tftp_state, tftp_remote_port, tftp_cur_block)
  /\ UNCHANGED <<timeout_count, net_state, net_try_count, udp_handler>>

tftp_timeout_handler ==
  /\ timeout_count' = timeout_count + 1
  /\ IF timeout_count + 1 > TIMEOUT_COUNT
     THEN net_start_again("none") /\ UNCHANGED toServer
     ELSE /\ net_set_timeout_handler("tftp")
          /\ tftp_send(tftp_state, tftp_remote_port, tftp_cur_block)
          /\ UNCHANGED <<net_state, net_try_count, udp_handler>>

-----------------------------------------------------------------------------
(* One turn of net_loop, arp.c included *)

\* The head of net_loop: without an interface there is nothing to do.
net_loop ==
  /\ pc = "start"
  /\ \E eth_init \in {0, Error} :
       ret' = eth_init /\ pc' = IF eth_init < 0 THEN "done" ELSE "restart"
  /\ UNCHANGED <<setup, net_state, net_try_count, handlers, arp, client, loaded, server,
                 toServer, toClient>>

\* The label restart: the transfer begins, or an address is missing, the
\* server's or the board's (1) or the interface's (2).
restart ==
  /\ pc = "restart"
  /\ \/ /\ prereq = 0 /\ pc' = "arp"
        /\ net_state' = "CONTINUE" /\ net_boot_file_size' = 0
        /\ tftp_start
        /\ UNCHANGED <<ret, net_try_count>>
     \/ /\ prereq = 1 /\ pc' = "done"
        /\ net_state' = "CONTINUE" /\ ret' = Error
        /\ UNCHANGED <<net_try_count, handlers, arp, client, net_boot_file_size, toServer>>
     \/ /\ prereq = 2 /\ pc' = "arp"
        /\ LET again == StartAgain("CONTINUE", 0) IN
             net_state' = again.state /\ net_try_count' = again.tries
        /\ UNCHANGED <<ret, handlers, arp, client, net_boot_file_size, toServer>>
  /\ UNCHANGED <<setup, mem, server, toClient>>

\* elapsed: the timer that is armed has run out.  While the address is awaited
\* the loop restarts the transfer's timer.
arp_timeout_check(elapsed) ==
  /\ pc = "arp" /\ pc' = "rx"
  /\ due' = (elapsed /\ ~arp_wait /\ time_handler # "none")
  /\ IF arp_wait /\ elapsed
     THEN IF arp_wait_try + 1 >= ARP_TIMEOUT_COUNT
          THEN arp_wait_try' = 0 /\ net_state' = "FAIL"
          ELSE arp_wait_try' = arp_wait_try + 1 /\ UNCHANGED net_state
     ELSE UNCHANGED <<arp_wait_try, net_state>>
  /\ UNCHANGED <<setup, ret, net_try_count, time_handler, udp_handler, arp_wait,
                 client, loaded, server, toServer, toClient>>

Received == pc = "rx" /\ pc' = "time"

NothingReceived ==
  /\ Received
  /\ UNCHANGED <<setup, net_state, ret, net_try_count, handlers, arp, client, loaded,
                 server, toServer, toClient>>

\* The server's address arrives; the request that waits for it goes out.
arp_receive ==
  /\ Received /\ arp_wait
  /\ arp_wait' = FALSE
  /\ tftp_send("SEND_RRQ", WELL_KNOWN_PORT, 0)
  /\ UNCHANGED <<setup, net_state, ret, net_try_count, handlers, arp_wait_try, client,
                 loaded, server, toClient>>

tftp_handler ==
  /\ Received
  /\ \E k \in Arriving(toClient) :
       LET packet == toClient[k] IN
         /\ toClient' = RemoveAt(toClient, k)
         /\ \/ Takes(packet, "OACK") /\ GotOACK(packet)
            \/ Takes(packet, "DATA") /\ GotDATA(packet)
            \/ Takes(packet, "ERROR") /\ GotERROR(packet)
            \/ /\ \A op \in {"OACK", "DATA", "ERROR"} : ~Takes(packet, op)
               /\ UNCHANGED <<net_state, net_try_count, handlers, client, loaded, toServer>>
  /\ UNCHANGED <<setup, ret, arp, server>>

ctrlc ==
  /\ pc = "time" /\ pc' = "done"
  /\ arp_wait' = FALSE /\ ret' = Error
  /\ time_handler' = "none" /\ udp_handler' = "dummy"
  /\ UNCHANGED <<setup, net_state, net_try_count, due, arp_wait_try, client, loaded,
                 server, toServer, toClient>>

CheckTimer ==
  /\ pc = "time" /\ pc' = "switch"
  /\ \/ /\ due /\ time_handler = "tftp" /\ tftp_timeout_handler
        /\ UNCHANGED <<tftp_state, ports, blocks, tftp_block_size>>
     \/ /\ due /\ time_handler = "start_again"
        /\ net_state' = "RESTART" /\ time_handler' = "none"
        /\ UNCHANGED <<net_try_count, due, udp_handler, client, toServer>>
     \/ ~due /\ UNCHANGED <<net_state, net_try_count, handlers, client, toServer>>
  /\ UNCHANGED <<setup, ret, arp, loaded, server, toClient>>

\* A failure asks for another attempt; then the state decides.  net_loop
\* returns the size, or what net_start_again returned.
Switch ==
  /\ pc = "switch"
  /\ \E r \in {0, Error} :
       LET failed == net_state = "FAIL"
           again == StartAgain(net_state, r)
           state == IF failed THEN again.state ELSE net_state
       IN /\ net_state' = state
          /\ net_try_count' = IF failed THEN again.tries ELSE net_try_count
          /\ pc' = CASE state = "RESTART" -> "restart"
                     [] state = "CONTINUE" -> "arp"
                     [] OTHER -> "done"
          /\ ret' = IF state = "SUCCESS" THEN net_boot_file_size
                    ELSE IF failed THEN again.ret ELSE ret
          /\ IF state \in {"SUCCESS", "FAIL"}
             THEN time_handler' = "none" /\ udp_handler' = "dummy"
             ELSE UNCHANGED <<time_handler, udp_handler>>
  /\ UNCHANGED <<setup, due, arp, client, loaded, server, toServer, toClient>>

-----------------------------------------------------------------------------
(* The server *)

\* The packet session i has sent last: its options (block 0) or a block.
Reply(i, s) ==
  LET first == (s.block - 1) * s.bytes IN
    IF s.block = 0
    THEN [op |-> "OACK", src |-> i, dst |-> s.peer, block |-> 0, first |-> 0, len |-> s.bytes]
    ELSE [op |-> "DATA", src |-> i, dst |-> s.peer,
          block |-> s.block % TFTP_SEQUENCE_SIZE,
          first |-> first, len |-> Min({s.bytes, size - first})]

Failure(i, peer, code) ==
  [op |-> "ERROR", src |-> i, dst |-> peer, block |-> code, first |-> 0, len |-> 0]

\* A request starts a session on a port of its own, or is refused.
ServeRequest ==
  /\ \E k \in Arriving(toServer) :
       /\ toServer[k].op = "RRQ"
       /\ toServer' = RemoveAt(toServer, k)
       /\ LET i == Len(sessions) + 1
              s == [peer |-> toServer[k].src, open |-> TRUE,
                    bytes |-> AgreedSize,
                    block |-> IF options THEN 0 ELSE 1]
          IN \/ /\ i <= MaxSessions
                /\ sessions' = Append(sessions, s)
                /\ toClient' \in Sent(toClient, Reply(i, s), ClientCapacity)
             \/ /\ i <= MaxSessions
                /\ sessions' = Append(sessions, [s EXCEPT !.open = FALSE])
                /\ \E code \in {0, 1} :
                     toClient' \in Sent(toClient, Failure(i, s.peer, code), ClientCapacity)
             \/ i > MaxSessions /\ UNCHANGED <<sessions, toClient>>
  /\ UNCHANGED <<setup, loop, handlers, arp, client, loaded, resent>>

\* An acknowledgement of the last packet brings the next block; others are
\* ignored.
ServeAck ==
  /\ \E k \in Arriving(toServer) :
       LET ack == toServer[k]
           s == sessions[ack.dst]
       IN /\ ack.op = "ACK"
          /\ toServer' = RemoveAt(toServer, k)
          /\ IF s.open /\ s.peer = ack.src /\ ack.block = s.block % TFTP_SEQUENCE_SIZE
             THEN IF s.block = LastBlock(s.bytes)
                  THEN /\ sessions' = [sessions EXCEPT ![ack.dst].open = FALSE]
                       /\ UNCHANGED toClient
                  ELSE LET next == [s EXCEPT !.block = @ + 1] IN
                         /\ sessions' = [sessions EXCEPT ![ack.dst] = next]
                         /\ toClient' \in Sent(toClient, Reply(ack.dst, next), ClientCapacity)
             ELSE UNCHANGED <<sessions, toClient>>
  /\ UNCHANGED <<setup, loop, handlers, arp, client, loaded, resent>>

\* The server sends its last packet again.
Resend ==
  /\ \E i \in DOMAIN sessions :
       /\ sessions[i].open /\ resent < MaxResends
       /\ resent' = resent + 1
       /\ toClient' \in Sent(toClient, Reply(i, sessions[i]), ClientCapacity)
  /\ UNCHANGED <<setup, loop, handlers, arp, client, loaded, sessions, toServer>>

-----------------------------------------------------------------------------
\* What the server does is seen only when net_loop looks for a packet, so its
\* steps are taken there.
Serve == pc = "rx" /\ (ServeRequest \/ ServeAck \/ Resend)

Loop ==
  \/ net_loop \/ restart
  \/ \E elapsed \in BOOLEAN : arp_timeout_check(elapsed)
  \/ NothingReceived \/ arp_receive \/ tftp_handler
  \/ ctrlc \/ CheckTimer \/ Switch

Next == Loop \/ Serve

\* net_loop polls and never blocks, so it goes on taking steps; the counter it
\* reads goes on too, so a timer that stays armed runs out.
Fairness == WF_vars(Loop) /\ SF_vars(arp_timeout_check(TRUE))

Spec == Init /\ [][Next]_vars /\ Fairness

-----------------------------------------------------------------------------
Loaded == net_boot_file_size = size /\ \A o \in 0 .. size - 1 : mem[o] = o

\* When net_loop reports a size, memory holds the whole file and the size is
\* the file's, whatever the network lost, repeated or reordered, across the
\* wrap of the block number and across attempts.  With several attempts allowed
\* it is stated for a transfer that ended in NETLOOP_SUCCESS only: see
\* NoFalseSuccess.
LoadedIsFile ==
  pc = "done" /\ ret >= 0 /\ (net_state = "SUCCESS" \/ (~retry_forever /\ retrycnt <= 1))
    => Loaded /\ ret = size

\* A block the client has acknowledged to the server it talks to is in memory at
\* its place: the server never goes on past a block that was not stored.
AckedIsStored ==
  \A i \in DOMAIN sessions :
    LET s == sessions[i] IN
      i = tftp_remote_port /\ s.peer = tftp_our_port
        => \A o \in 0 .. size - 1 : o < (s.block - 1) * s.bytes => mem[o] = o

\* net_loop never waits without a timer: while it is to go on in the state
\* NETLOOP_CONTINUE it awaits the server's address or has a timeout handler.
WaitsArmed == pc = "arp" /\ net_state = "CONTINUE" => arp_wait \/ time_handler # "none"

\* net_loop returns, however the server and the network behave, unless netretry
\* is "yes": then it returns, or every attempt comes to an end and is followed
\* by another, for as long as the server does not answer.
Terminates == []<>(pc = "done" \/ (retry_forever /\ pc = "restart"))

\* Does not hold: a size is reported only for a file that was loaded.  When the
\* server's address is not found, or the file is not, and netretry asks for more
\* attempts, net_start_again on a single interface arms the ten second timer
\* and leaves NETLOOP_FAIL as it is; net_loop then returns eth_init's 0.
NoFalseSuccess == pc = "done" /\ ret >= 0 => net_state = "SUCCESS"
=============================================================================
