--------------------------------- MODULE Net ----------------------------------
(***************************************************************************)
(* The network: kernel/net/rtl8139.c, arp.c and send_dns of dns.c, the NIC *)
(* branch of isr.c and pit_sleep, together with the RTL8139 as the driver  *)
(* sees it (external).                                                     *)
(*                                                                         *)
(* Three actors.  The kernel, in a system call of the shell, looks up the  *)
(* gateway with ARP and sends a DNS query; it starts with interrupts off,  *)
(* and wait_for_arp_entry turns them on for the rest of the call.  The NIC *)
(* interrupt takes one frame from the receive ring and answers an ARP      *)
(* request with the same send_packet; nothing of the kernel comes between  *)
(* its steps.  The card receives and transmits at any time.                *)
(*                                                                         *)
(* A packet being sent is known by who sends it.  Its bytes are on the     *)
(* sender's stack: when send_packet has returned, a descriptor that still  *)
(* points to it points to "dead" memory.  Contents of packets other than   *)
(* the ARP fields read, timestamps (nothing reads them: arp_cache_         *)
(* maintenance has no caller) and printing are left out.                   *)
(***************************************************************************)
EXTENDS Integers, Sequences

CONSTANTS
  Frames,     \* what may come over the wire: records with the fields read, see below
  MACs,
  Zero,       \* 0.0.0.0, and any address that begins with 0: the cache takes it for free
  Self,       \* the address send_dns gives to the card
  Gateway,    \* the address send_dns asks for
  CacheSize,  \* ARP_CACHE_SIZE
  RingSize,   \* RX_BUFFER_SIZE
  TxCount,    \* RTL8139_TRANSMIT_REGISTER_COUNT
  MaxWaits    \* ARP_WAIT_TIMEOUT / 10: how often wait_for_arp_entry looks

None == "none"

\* A frame is a record of the fields the code reads: oper, spa, sha and tpa; pad0 and
\* tha0, whether the two bytes behind tpa (padding) and the first two of tha are 0;
\* len, the length the card reports, with its CRC.
ASSUME NetAssumption ==
  /\ \A f \in Frames : f.len \in Nat /\ f.len > 8 /\ f.len + 7 < RingSize /\ f.sha \in MACs
  /\ RingSize \in Nat \ {0} /\ RingSize % 4 = 0
  /\ CacheSize \in Nat \ {0} /\ TxCount \in Nat \ {0} /\ MaxWaits \in Nat \ {0}
  /\ Zero # Self /\ Zero # Gateway
  /\ None \notin MACs

Slots == 1 .. CacheSize
Descriptors == 0 .. TxCount - 1
ROK == "ROK"
TOK == "TOK"

VARIABLES
  rx,         \* the frames in the card's ring and where they start, oldest first
  cbr,        \* where the card puts the next frame
  isr,        \* the card's interrupt status register
  tsad, tsd,  \* per descriptor: whose packet it points to; "idle", "given" or "ok"
  trrc,       \* g_nic.trrc
  ipv4,       \* g_nic.ipv4
  rx_offset,  \* receive_packet's static offset
  arp_cache,
  hpc,        \* where the interrupt handler is, "out" when none runs
  status,     \* its copy of isr
  pc, sending, reg,  \* where the kernel is, what it sends, the register trrc is in
  at, waits,  \* find_mac_in_cache's i (counted from 1), the looks wait_for_arp_entry has had
  found,      \* the entry whose mac get_mac returned, 0 for NULL
  told,       \* ghost: the mac of the last reply handled for an address
  known,      \* ghost: the address was in the cache when the search began
  sent,       \* ghost: how often the card has sent the packet of "kernel" and "handler"
  overlap     \* ghost: the handler has begun a send within a send of the kernel

card == <<rx, cbr, isr, tsad, tsd>>
kernel == <<pc, sending, reg, at, waits, found, known>>
vars == <<card, trrc, ipv4, rx_offset, arp_cache, hpc, status, kernel, told, sent, overlap>>

Addresses == {f.spa : f \in Frames} \cup {Zero, Gateway}

------------------------------------------------------------------------------
\* rtl8139_init: an empty ring and cache, no descriptor used.
Init ==
  /\ rx = <<>> /\ cbr = 0 /\ isr = {}
  /\ tsad = [d \in Descriptors |-> "dead"] /\ tsd = [d \in Descriptors |-> "idle"]
  /\ trrc = 0 /\ ipv4 = Zero /\ rx_offset = 0
  /\ arp_cache = [i \in Slots |-> [ip |-> Zero, mac |-> None]]
  /\ hpc = "out" /\ status = {}
  /\ pc = "idle" /\ sending = "none" /\ reg = 0
  /\ at = 1 /\ waits = 0 /\ found = 0 /\ known = FALSE
  /\ told = [a \in Addresses |-> None]
  /\ sent = [s \in {"kernel", "handler"} |-> 0] /\ overlap = FALSE

------------------------------------------------------------------------------
(* The card. *)

\* A frame of length n at offset a takes a header of 4 bytes and n bytes, and the
\* next begins at a multiple of 4, in the ring.
Space(n) == ((n + 4 + 3) \div 4) * 4
After(r) == (r.at + Space(r.frame.len)) % RingSize
Used == IF rx = <<>> THEN 0 ELSE (cbr - rx[1].at) % RingSize

Receive(f) ==
  /\ Used + Space(f.len) < RingSize
  /\ rx' = Append(rx, [at |-> cbr, frame |-> f])
  /\ cbr' = (cbr + Space(f.len)) % RingSize
  /\ isr' = isr \cup {ROK}
  /\ UNCHANGED <<tsad, tsd, trrc, ipv4, rx_offset, arp_cache, hpc, status, kernel, told, sent, overlap>>

\* Without room the frame is lost; the overflow interrupt is not enabled.
Overflow(f) == Used + Space(f.len) >= RingSize /\ UNCHANGED vars

Transmit(d) ==
  /\ tsd[d] = "given"
  /\ tsd' = [tsd EXCEPT ![d] = "ok"]
  /\ isr' = isr \cup {TOK}
  /\ sent' = [s \in DOMAIN sent |-> IF tsad[d] = s /\ sent[s] < 2 THEN sent[s] + 1 ELSE sent[s]]
  /\ UNCHANGED <<rx, cbr, tsad, trrc, ipv4, rx_offset, arp_cache, hpc, status, kernel, told, overlap>>

------------------------------------------------------------------------------
(* send_packet, for the sender s.  With trrc = TxCount, which only the handler  *)
(* can meet, the two writes go to RBSTART and TSAD0, and the poll waits for bit *)
(* 15 of the length now in TSAD0: it never ends, and what became of the ring is *)
(* never read.                                                                  *)

Put(f, d, v) == IF d \in DOMAIN f THEN [f EXCEPT ![d] = v] ELSE f
PutAddress(s) == tsad' = Put(tsad, trrc, s)
PutLength == tsd' = Put(tsd, trrc, "given")

\* The wait for the transmit status of the descriptor.
TransmitTaken == trrc \in Descriptors /\ tsd[trrc] # "idle"
TransmitOk == trrc \in Descriptors /\ tsd[trrc] = "ok"

\* trrc %= 4.
Wrap(n) == n % TxCount

\* send_packet of s returns: the packet on its stack is gone.
Gone(s) ==
  /\ tsad' = [d \in Descriptors |-> IF tsad[d] = s THEN "dead" ELSE tsad[d]]
  /\ sent' = [sent EXCEPT ![s] = 0]

------------------------------------------------------------------------------
(* The interrupt handler. *)

\* Interrupts are off from the system call to wait_for_arp_entry.
Interruptible == sending # "req"

\* rtl8139_handler reads the status, then acknowledges whatever is there by then.
HandlerStatus ==
  /\ hpc = "out" /\ Interruptible /\ isr # {}
  /\ status' = isr /\ hpc' = "ack"
  /\ UNCHANGED <<card, trrc, ipv4, rx_offset, arp_cache, kernel, told, sent, overlap>>

HandlerAck ==
  /\ hpc = "ack"
  /\ isr' = {}
  /\ hpc' = IF ROK \in status THEN "receive" ELSE "out"
  /\ status' = {}
  /\ UNCHANGED <<rx, cbr, tsad, tsd, trrc, ipv4, rx_offset, arp_cache, kernel, told, sent, overlap>>

\* What receive_packet finds at rx_offset.  FramesInOrder says that it is the oldest
\* frame; elsewhere there would be bytes of some other one.
Current ==
  IF rx # <<>> /\ rx[1].at = rx_offset THEN rx[1].frame ELSE CHOOSE f \in Frames : TRUE

\* The next offset, from the length without CRC, and CAPR: the card may use the
\* space up to there.  (A length of 4 or less, which no frame has, would return.)
NextOffsetNoCRC(len) ==
  LET end == rx_offset + (len - 4) + (4 + 3)
      aligned == end - (end % 4)
  IN  aligned - IF aligned >= RingSize THEN RingSize ELSE 0

NextOffsetNoWrap(len) ==
  LET end == rx_offset + (len - 4) + (8 + 3)
  IN  end - (end % 4)

NextOffset(len) ==
  LET end == rx_offset + (len - 4) + (8 + 3)
      aligned == end - (end % 4)
  IN  aligned - IF aligned >= RingSize THEN RingSize ELSE 0

Advance ==
  /\ rx_offset' = NextOffset(Current.len)
  /\ rx' = IF rx # <<>> /\ rx_offset' = After(rx[1]) THEN Tail(rx) ELSE <<>>
  /\ hpc' = "out"
  /\ UNCHANGED <<cbr, isr, status>>

\* cache_arp_entry: the first entry that has the address or is free.
FitsFreeOnly(e, ip) == e.ip = Zero
FitsAny(e, ip) == TRUE
Fits(e, ip) == e.ip = ip \/ e.ip = Zero
cache_arp_entry(ip, mac) ==
  IF \E i \in Slots : Fits(arp_cache[i], ip)
  THEN LET first == CHOOSE i \in Slots :
                      Fits(arp_cache[i], ip) /\ \A j \in 1 .. i - 1 : ~ Fits(arp_cache[j], ip)
       IN  [arp_cache EXCEPT ![first] = [ip |-> ip, mac |-> mac]]
  ELSE arp_cache

\* handle_packet_arp's test compares 6 bytes of the addresses of 4.
ForUs(f) == (f.tpa = ipv4 /\ f.pad0) \/ (f.spa = ipv4 /\ f.tha0)

HandlerReply ==
  /\ hpc = "receive" /\ Current.oper = "reply"
  /\ arp_cache' = cache_arp_entry(Current.spa, Current.sha)
  /\ told' = [told EXCEPT ![Current.spa] = Current.sha]
  /\ Advance
  /\ UNCHANGED <<tsad, tsd, trrc, ipv4, kernel, sent, overlap>>

HandlerIgnore ==
  /\ hpc = "receive"
  /\ Current.oper = "other" \/ (Current.oper = "request" /\ ~ ForUs(Current))
  /\ Advance
  /\ UNCHANGED <<tsad, tsd, trrc, ipv4, arp_cache, kernel, told, sent, overlap>>

InSend == pc \in {"length", "poll", "inc", "inc_store", "mod", "mod_store"}

HandlerAnswer ==
  /\ hpc = "receive" /\ Current.oper = "request" /\ ForUs(Current)
  /\ PutAddress("handler") /\ PutLength
  /\ overlap' = (overlap \/ InSend)
  /\ hpc' = "poll"
  /\ UNCHANGED <<rx, cbr, isr, trrc, ipv4, rx_offset, arp_cache, status, kernel, told, sent>>

HandlerAnswered ==
  /\ hpc = "poll" /\ TransmitOk
  /\ trrc' = Wrap(trrc + 1)
  /\ Gone("handler")
  /\ Advance
  /\ UNCHANGED <<tsd, ipv4, arp_cache, kernel, told, overlap>>

------------------------------------------------------------------------------
(* The kernel: send_dns. *)

\* The query is built and get_mac begins to send the ARP request.
send_dns ==
  /\ hpc = "out" /\ pc = "idle"
  /\ ipv4' = Self
  /\ pc' = "address" /\ sending' = "req"
  /\ UNCHANGED <<card, trrc, rx_offset, arp_cache, hpc, status, reg, at, waits, found, known, told, sent, overlap>>

SendAddress ==
  /\ hpc = "out" /\ pc = "address"
  /\ PutAddress("kernel")
  /\ pc' = "length"
  /\ UNCHANGED <<rx, cbr, isr, tsd, trrc, ipv4, rx_offset, arp_cache, hpc, status, sending, reg, at, waits, found, known, told, sent, overlap>>

SendLength ==
  /\ hpc = "out" /\ pc = "length"
  /\ PutLength
  /\ pc' = "poll"
  /\ UNCHANGED <<rx, cbr, isr, tsad, trrc, ipv4, rx_offset, arp_cache, hpc, status, sending, reg, at, waits, found, known, told, sent, overlap>>

SendPoll ==
  /\ hpc = "out" /\ pc = "poll" /\ TransmitOk
  /\ pc' = "inc"
  /\ UNCHANGED <<card, trrc, ipv4, rx_offset, arp_cache, hpc, status, sending, reg, at, waits, found, known, told, sent, overlap>>

\* trrc++ and trrc %= 4 each load the variable and store it.
SendLoad ==
  /\ hpc = "out" /\ pc \in {"inc", "mod"}
  /\ reg' = trrc
  /\ pc' = IF pc = "inc" THEN "inc_store" ELSE "mod_store"
  /\ UNCHANGED <<card, trrc, ipv4, rx_offset, arp_cache, hpc, status, sending, at, waits, found, known, told, sent, overlap>>

SendIncStore ==
  /\ hpc = "out" /\ pc = "inc_store"
  /\ trrc' = reg + 1 /\ reg' = 0
  /\ pc' = "mod"
  /\ UNCHANGED <<card, ipv4, rx_offset, arp_cache, hpc, status, sending, at, waits, found, known, told, sent, overlap>>

InCache(ip) == \E i \in Slots : arp_cache[i].ip = ip

\* wait_for_arp_entry begins a search.
Search == pc' = "find" /\ at' = 1 /\ known' = InCache(Gateway)

\* send_packet returns: to get_mac, which waits with interrupts on, or to the shell.
SendModStore ==
  /\ hpc = "out" /\ pc = "mod_store"
  /\ trrc' = Wrap(reg) /\ reg' = 0
  /\ Gone("kernel")
  /\ \/ sending = "req" /\ Search /\ waits' = 0 /\ sending' = "none" /\ UNCHANGED found
     \/ sending = "dns" /\ pc' = "idle" /\ sending' = "none" /\ found' = 0 /\ UNCHANGED <<at, waits, known>>
  /\ UNCHANGED <<rx, cbr, isr, tsd, ipv4, rx_offset, arp_cache, hpc, status, told, overlap>>

\* get_mac returns entry i, or NULL for 0, and the query goes out.
GetMacReturns(i) ==
  /\ found' = i
  /\ pc' = "address" /\ sending' = "dns"
  /\ at' = 1 /\ waits' = 0 /\ known' = FALSE

\* find_mac_in_cache has compared the last entry.
AtEndEarly == at >= CacheSize - 1
AtEnd == at = CacheSize

\* One comparison of find_mac_in_cache.
Find ==
  /\ hpc = "out" /\ pc = "find"
  /\ \/ arp_cache[at].ip = Gateway /\ GetMacReturns(at)
     \/ arp_cache[at].ip # Gateway /\ ~ AtEnd /\ at' = at + 1 /\ UNCHANGED <<pc, sending, waits, found, known>>
     \/ arp_cache[at].ip # Gateway /\ AtEnd /\ pc' = "sleep" /\ UNCHANGED <<sending, at, waits, found, known>>
  /\ UNCHANGED <<card, trrc, ipv4, rx_offset, arp_cache, hpc, status, reg, told, sent, overlap>>

\* elapsed_time += 10.
ElapsedNot == waits
Elapsed == waits + 1

\* sleep returns; wait_for_arp_entry looks again or gives up.
Sleep ==
  /\ hpc = "out" /\ pc = "sleep"
  /\ \/ Elapsed < MaxWaits /\ Search /\ waits' = Elapsed /\ UNCHANGED <<sending, found>>
     \/ Elapsed >= MaxWaits /\ GetMacReturns(0)
  /\ UNCHANGED <<card, trrc, ipv4, rx_offset, arp_cache, hpc, status, reg, told, sent, overlap>>

Card == (\E f \in Frames : Receive(f) \/ Overflow(f)) \/ (\E d \in Descriptors : Transmit(d))
Handler == HandlerStatus \/ HandlerAck \/ HandlerReply \/ HandlerIgnore \/ HandlerAnswer \/ HandlerAnswered
Send == SendAddress \/ SendLength \/ SendPoll \/ SendLoad \/ SendIncStore \/ SendModStore
Kernel == Send \/ Find \/ Sleep

Next == Card \/ Handler \/ send_dns \/ Kernel

Spec == Init /\ [][Next]_vars

\* The card sends what it is given; a handler runs to its end; between two interrupts
\* the interrupted code runs on.
FairSpec ==
  /\ Spec
  /\ \A d \in Descriptors : WF_vars(Transmit(d))
  /\ WF_vars(Handler)
  /\ SF_vars(Kernel)

------------------------------------------------------------------------------
Cells == [at : 0 .. RingSize - 1, frame : Frames]

TypeOK ==
  /\ rx \in Seq(Cells)
  /\ cbr \in 0 .. RingSize - 1 /\ rx_offset \in 0 .. RingSize - 1
  /\ isr \subseteq {ROK, TOK} /\ status \subseteq {ROK, TOK}
  /\ tsad \in [Descriptors -> {"dead", "kernel", "handler"}]
  /\ tsd \in [Descriptors -> {"idle", "given", "ok"}]
  /\ trrc \in 0 .. TxCount /\ reg \in 0 .. TxCount
  /\ ipv4 \in {Zero, Self}
  /\ arp_cache \in [Slots -> [ip : Addresses, mac : MACs \cup {None}]]
  /\ hpc \in {"out", "ack", "receive", "poll"}
  /\ pc \in {"idle", "address", "find", "sleep"} \cup {"length", "poll", "inc", "inc_store", "mod", "mod_store"}
  /\ sending \in {"none", "req", "dns"}
  /\ at \in Slots /\ waits \in 0 .. MaxWaits - 1 /\ found \in 0 .. CacheSize
  /\ told \in [Addresses -> MACs \cup {None}]
  /\ known \in BOOLEAN /\ overlap \in BOOLEAN
  /\ sent \in [{"kernel", "handler"} -> 0 .. 2]

\* When receive_packet runs there is a frame it has not handled, and it reads the
\* oldest: frames are handled once and in the order of their arrival, however many
\* arrive between the card's status, its acknowledgement and the end of the handler,
\* and wherever the ring wraps.
FramesInOrder == hpc \in {"receive", "poll"} => rx # <<>> /\ rx[1].at = rx_offset

\* The cache holds for an address what the last reply for it said, in one entry; only
\* an address first heard of when the cache was full is missing.
CacheHoldsLast ==
  \A ip \in Addresses \ {Zero} :
    LET entries == {i \in Slots : arp_cache[i].ip = ip}
    IN  \/ told[ip] = None /\ entries = {}
        \/ told[ip] # None /\ \E i \in Slots : entries = {i} /\ arp_cache[i].mac = told[ip]
        \/ told[ip] # None /\ entries = {} /\ \A i \in Slots : arp_cache[i].ip # Zero

\* get_mac returns a pointer into the cache.  As long as its caller goes on with it the
\* entry it points into stays the gateway's and holds the latest answer.
FoundStaysValid ==
  found # 0 => arp_cache[found].ip = Gateway /\ arp_cache[found].mac = told[Gateway]

\* A search that interrupts add entries to misses nothing that was there before it.
SearchFindsKnown == [][ pc = "find" /\ pc' = "sleep" => ~ known ]_vars

\* When send_packet returns, the card has sent its packet exactly once, and the card
\* sends no packet whose memory is gone, unless the handler's send has begun within
\* one of the kernel.
SendsOnce ==
  [][ ~ overlap =>
        /\ pc = "poll" /\ pc' = "inc" => sent["kernel"] = 1
        /\ hpc = "poll" /\ hpc' = "out" => sent["handler"] = 1
        /\ \A d \in Descriptors : tsd[d] = "given" /\ tsd'[d] = "ok" => tsad[d] # "dead" ]_vars

\* send_dns returns, with or without an answer, unless two sends overlap.
LookupReturns == (pc # "idle") ~> (pc = "idle" \/ overlap)

\* trrc is a "transmit round robin counter (0-3)" (rtl8139.h): every send uses one of
\* the transmit registers.
SendUsesARegister ==
  [][ (hpc = "receive" /\ hpc' = "poll") \/ (pc = "address" /\ pc' = "length") => trrc \in Descriptors ]_vars
==============================================================================
