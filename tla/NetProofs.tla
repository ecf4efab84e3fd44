------------------------------ MODULE NetProofs -------------------------------
(***************************************************************************)
(* Theorems about Net for every set of frames, size of the ring, of the    *)
(* cache and of the descriptor table, and number of looks.                 *)
(***************************************************************************)
EXTENDS Net, SequenceTheorems, TLAPS

------------------------------------------------------------------------------
(* Arithmetic of the receive ring. *)

\* The remainder of a number below twice the divisor.
LEMMA ModOnce ==
  ASSUME NEW a \in Nat, NEW s \in Nat, NEW r \in Nat, a < r, s < r
  PROVE  /\ (a + s) % r = IF a + s >= r THEN a + s - r ELSE a + s
         /\ (a + s) % r \in 0 .. r - 1
         /\ a % 4 = 0 /\ s % 4 = 0 /\ r % 4 = 0 => ((a + s) % r) % 4 = 0
<1>1. (a + s) % r = IF a + s >= r THEN a + s - r ELSE a + s
  OBVIOUS
<1> QED
  BY <1>1

\* The bytes a frame takes in the ring.
LEMMA SpaceBounds ==
  ASSUME NEW n \in Nat
  PROVE  /\ Space(n) \in Nat /\ Space(n) % 4 = 0
         /\ n + 4 <= Space(n) /\ Space(n) <= n + 7
  BY DEF Space

\* Adding such a number keeps an offset a multiple of 4 inside the ring.
LEMMA StepInRing ==
  ASSUME NEW a \in 0 .. RingSize - 1, a % 4 = 0, NEW f \in Frames
  PROVE  /\ (a + Space(f.len)) % RingSize \in 0 .. RingSize - 1
         /\ ((a + Space(f.len)) % RingSize) % 4 = 0
         /\ (a + Space(f.len)) % RingSize
              = IF a + Space(f.len) >= RingSize THEN a + Space(f.len) - RingSize ELSE a + Space(f.len)
<1>1. /\ f.len \in Nat /\ f.len + 7 < RingSize
      /\ RingSize \in Nat \ {0} /\ RingSize % 4 = 0
  BY NetAssumption
<1>2. /\ Space(f.len) \in Nat /\ Space(f.len) % 4 = 0 /\ Space(f.len) < RingSize
  <2>1. Space(f.len) \in Nat /\ Space(f.len) % 4 = 0 /\ Space(f.len) <= f.len + 7
    BY <1>1, SpaceBounds
  <2> QED
    BY <1>1, <2>1
<1>3. a \in Nat /\ a < RingSize
  BY <1>1
<1> HIDE DEF Space
<1> QED
  BY <1>1, <1>2, <1>3, ModOnce

\* The mask that rounds the end of a frame, CRC taken off and header put on.
LEMMA MaskRoundsUp ==
  ASSUME NEW a \in Nat, a % 4 = 0, NEW n \in Nat
  PROVE  LET end == a + (n - 4) + (8 + 3) IN end - (end % 4) = a + Space(n)
<1>1. PICK q \in Nat : a = 4 * q
  <2>1. a = 4 * (a \div 4) /\ a \div 4 \in Nat
    OBVIOUS
  <2> QED
    BY <2>1
<1>2. PICK m \in Nat, r \in 0 .. 3 : n + 7 = 4 * m + r
  <2>1. n + 7 = 4 * ((n + 7) \div 4) + ((n + 7) % 4)
    OBVIOUS
  <2>2. (n + 7) \div 4 \in Nat /\ (n + 7) % 4 \in 0 .. 3
    OBVIOUS
  <2> QED
    BY <2>1, <2>2
<1>3. Space(n) = 4 * m
  BY <1>2 DEF Space
<1>4. a + (n - 4) + (8 + 3) = 4 * (q + m) + r
  BY <1>1, <1>2
<1>5. (4 * (q + m) + r) % 4 = r
  BY <1>1, <1>2
<1> QED
  BY <1>1, <1>3, <1>4, <1>5

\* The driver's offset arithmetic, with its CRC, header and mask, is the card's.
LEMMA NextOffsetIsCards ==
  ASSUME rx_offset \in 0 .. RingSize - 1, rx_offset % 4 = 0, NEW f \in Frames
  PROVE  NextOffset(f.len) = (rx_offset + Space(f.len)) % RingSize
<1>1. f.len \in Nat /\ RingSize \in Nat
  BY NetAssumption
<1>2. Space(f.len) \in Nat /\ rx_offset \in Nat
  <2>1. Space(f.len) \in Nat
    BY <1>1, SpaceBounds
  <2> QED
    BY <1>1, <2>1
<1> DEFINE e == rx_offset + (f.len - 4) + (8 + 3)
<1>3. e - (e % 4) = rx_offset + Space(f.len)
  BY <1>1, <1>2, MaskRoundsUp
<1>4. NextOffset(f.len) = (e - (e % 4)) - IF e - (e % 4) >= RingSize THEN RingSize ELSE 0
  BY DEF NextOffset
<1>5. NextOffset(f.len) = IF rx_offset + Space(f.len) >= RingSize
                          THEN rx_offset + Space(f.len) - RingSize ELSE rx_offset + Space(f.len)
  <2> HIDE DEF e
  <2> QED
    BY <1>1, <1>2, <1>3, <1>4
<1> QED
  BY <1>5, StepInRing

------------------------------------------------------------------------------
(* The inductive invariant, in parts. *)

\* trrc leaves the descriptor table only between trrc++ and trrc %= 4.
RegInv ==
  /\ pc \notin {"mod", "mod_store"} => trrc \in Descriptors
  /\ pc = "inc_store" => reg \in Descriptors

\* The frames in the ring lie one behind the other, from rx_offset to cbr.
Chain ==
  /\ cbr % 4 = 0 /\ rx_offset % 4 = 0
  /\ rx_offset = IF rx = <<>> THEN cbr ELSE rx[1].at
  /\ \A k \in 1 .. Len(rx) : After(rx[k]) = IF k = Len(rx) THEN cbr ELSE rx[k + 1].at

\* A pending receive interrupt has a frame of its own.
Pending ==
  /\ ROK \in isr => rx # <<>>
  /\ hpc = "ack" /\ ROK \in status => rx # <<>>
  /\ hpc \in {"receive", "poll"} => rx # <<>> /\ (ROK \in isr => Len(rx) >= 2)

\* Entries are filled from the front.
Filled == \E n \in 0 .. CacheSize : \A i \in Slots : arp_cache[i].ip = Zero <=> i > n

FoundIsGateway == found # 0 => arp_cache[found].ip = Gateway

\* What was in the cache when the search began is still ahead of it.
Ahead == pc = "find" /\ known => \E i \in at .. CacheSize : arp_cache[i].ip = Gateway

\* Whose packet the card has been given, and how often it has sent it.
SendInv ==
  ~ overlap =>
    /\ hpc = "poll" => ~ InSend
    /\ pc = "length" => tsad[trrc] = "kernel" /\ sent["kernel"] = 0
    /\ pc \in {"idle", "address", "find", "sleep"} => sent["kernel"] = 0
    /\ pc = "poll" => /\ tsad[trrc] = "kernel"
                      /\ (tsd[trrc] = "given" /\ sent["kernel"] = 0) \/ (tsd[trrc] = "ok" /\ sent["kernel"] = 1)
    /\ hpc # "poll" => sent["handler"] = 0
    /\ hpc = "poll" => /\ tsad[trrc] = "handler"
                       /\ (tsd[trrc] = "given" /\ sent["handler"] = 0) \/ (tsd[trrc] = "ok" /\ sent["handler"] = 1)
    /\ \A d \in Descriptors : tsd[d] = "given" => d = trrc /\ (pc = "poll" \/ hpc = "poll")

RingInv == TypeOK /\ RegInv /\ Chain /\ Pending
CacheInv == CacheHoldsLast /\ Filled /\ FoundIsGateway /\ Ahead
IInv == RingInv /\ CacheInv /\ SendInv

------------------------------------------------------------------------------
(* Types, registers and the receive ring. *)

LEMMA InitRing == Init => RingInv
<1> SUFFICES ASSUME Init
             PROVE  RingInv
  OBVIOUS
<1>1. 0 \in 0 .. RingSize - 1 /\ 0 \in Descriptors /\ 1 \in Slots /\ 0 \in 0 .. MaxWaits - 1
  BY NetAssumption DEF Descriptors, Slots
<1>2. TypeOK
  <2>1. /\ rx \in Seq(Cells)
        /\ cbr \in 0 .. RingSize - 1 /\ rx_offset \in 0 .. RingSize - 1
        /\ trrc \in 0 .. TxCount /\ reg \in 0 .. TxCount
        /\ at \in Slots /\ waits \in 0 .. MaxWaits - 1 /\ found \in 0 .. CacheSize
    BY <1>1, NetAssumption DEF Init
  <2>2. /\ arp_cache \in [Slots -> [ip : Addresses, mac : MACs \cup {None}]]
        /\ told \in [Addresses -> MACs \cup {None}]
    BY DEF Init, Addresses
  <2>3. /\ tsad \in [Descriptors -> {"dead", "kernel", "handler"}]
        /\ tsd \in [Descriptors -> {"idle", "given", "ok"}]
        /\ sent \in [{"kernel", "handler"} -> 0 .. 2]
    BY DEF Init
  <2> QED
    BY <2>1, <2>2, <2>3 DEF Init, TypeOK
<1>3. RegInv
  BY <1>1 DEF Init, RegInv
<1>4. Chain
  BY <1>1 DEF Init, Chain
<1>5. Pending
  BY DEF Init, Pending
<1> QED
  BY <1>2, <1>3, <1>4, <1>5 DEF RingInv

\* What receive_packet reads, and where it goes from there.
LEMMA AdvanceOne ==
  ASSUME RingInv, hpc \in {"receive", "poll"}
  PROVE  /\ Len(rx) \in Nat \ {0} /\ rx[1] \in Cells
         /\ Current = rx[1].frame
         /\ NextOffset(Current.len) = After(rx[1])
         /\ After(rx[1]) \in 0 .. RingSize - 1 /\ After(rx[1]) % 4 = 0
<1>1. rx \in Seq(Cells) /\ rx # <<>>
  BY DEF RingInv, TypeOK, Pending
<1>2. Len(rx) \in Nat \ {0} /\ rx[1] \in Cells
  <2>1. Len(rx) \in Nat \ {0}
    BY <1>1, EmptySeq
  <2> QED
    BY <1>1, <2>1, ElementOfSeq
<1>3. rx[1].at = rx_offset /\ rx_offset \in 0 .. RingSize - 1 /\ rx_offset % 4 = 0
  BY <1>1 DEF RingInv, TypeOK, Chain
<1>4. Current = rx[1].frame /\ rx[1].frame \in Frames
  BY <1>1, <1>2, <1>3 DEF Current, Cells
<1>5. NextOffset(rx[1].frame.len) = After(rx[1])
  BY <1>3, <1>4, NextOffsetIsCards DEF After
<1>6. After(rx[1]) \in 0 .. RingSize - 1 /\ After(rx[1]) % 4 = 0
  BY <1>3, <1>4, StepInRing DEF After
<1> QED
  BY <1>2, <1>4, <1>5, <1>6

\* Handling a frame takes it, and only it, from the ring.
LEMMA AdvanceRing ==
  ASSUME RingInv, hpc \in {"receive", "poll"}, Advance
  PROVE  /\ Chain' /\ Pending'
         /\ rx' \in Seq(Cells) /\ rx_offset' \in 0 .. RingSize - 1
<1>1. rx \in Seq(Cells) /\ rx # <<>> /\ Len(rx) \in Nat \ {0}
  BY AdvanceOne DEF RingInv, TypeOK, Pending
<1>2. rx_offset' = After(rx[1]) /\ rx_offset' \in 0 .. RingSize - 1 /\ rx_offset' % 4 = 0
  BY AdvanceOne DEF Advance
<1>3. rx' = Tail(rx) /\ hpc' = "out" /\ cbr' = cbr /\ isr' = isr /\ status' = status
  BY <1>1, <1>2 DEF Advance
<1>4. rx' \in Seq(Cells) /\ Len(rx') = Len(rx) - 1 /\ \A k \in 1 .. Len(rx') : rx'[k] = rx[k + 1]
  BY <1>1, <1>3, HeadTailProperties
<1>5. \A k \in 1 .. Len(rx) : After(rx[k]) = IF k = Len(rx) THEN cbr ELSE rx[k + 1].at
  BY DEF RingInv, Chain
<1>6. Chain'
  <2>1. cbr' % 4 = 0 /\ rx_offset' % 4 = 0
    BY <1>2, <1>3 DEF RingInv, Chain
  <2>2. CASE Len(rx) = 1
    <3>1. rx' = <<>>
      BY <1>4, <2>2, EmptySeq
    <3>2. rx_offset' = cbr'
      BY <1>2, <1>3, <1>5, <2>2
    <3> QED
      BY <2>1, <3>1, <3>2 DEF Chain
  <2>3. CASE Len(rx) > 1
    <3>1. rx' # <<>>
      BY <1>4, <2>3, EmptySeq
    <3>2. rx_offset' = rx'[1].at
      <4>1. 1 \in 1 .. Len(rx) /\ 1 # Len(rx) /\ 1 \in 1 .. Len(rx')
        BY <1>1, <1>4, <2>3
      <4>2. After(rx[1]) = rx[1 + 1].at
        BY <1>5, <4>1
      <4> QED
        BY <1>2, <1>4, <4>1, <4>2
    <3>3. ASSUME NEW k \in 1 .. Len(rx')
          PROVE  After(rx'[k]) = IF k = Len(rx') THEN cbr ELSE rx'[k + 1].at
      <4>1. k + 1 \in 1 .. Len(rx) /\ (k + 1 = Len(rx) <=> k = Len(rx'))
        BY <1>1, <1>4
      <4>2. rx'[k] = rx[k + 1] /\ (k # Len(rx') => rx'[k + 1] = rx[k + 1 + 1])
        BY <1>1, <1>4
      <4>3. After(rx[k + 1]) = IF k + 1 = Len(rx) THEN cbr ELSE rx[k + 1 + 1].at
        BY <1>5, <4>1
      <4> QED
        BY <4>1, <4>2, <4>3
    <3> QED
      BY <1>3, <2>1, <3>1, <3>2, <3>3 DEF Chain, After
  <2>4. \A n \in Nat \ {0} : n = 1 \/ n > 1
    OBVIOUS
  <2> QED
    BY <1>1, <2>2, <2>3, <2>4
<1>7. Pending'
  <2>1. ROK \in isr => Len(rx) >= 2
    BY DEF RingInv, Pending
  <2>2. ROK \in isr => rx' # <<>>
    BY <1>1, <1>4, <2>1, EmptySeq
  <2> QED
    BY <1>3, <2>2 DEF Pending
<1> QED
  BY <1>2, <1>4, <1>6, <1>7

\* The card puts a frame behind the others.
LEMMA ReceiveRing ==
  ASSUME RingInv, NEW f \in Frames, Receive(f)
  PROVE  Chain' /\ Pending' /\ rx' \in Seq(Cells) /\ cbr' \in 0 .. RingSize - 1
<1> DEFINE r == [at |-> cbr, frame |-> f]
<1>1. rx \in Seq(Cells) /\ r \in Cells /\ cbr \in 0 .. RingSize - 1 /\ cbr % 4 = 0
  BY DEF RingInv, TypeOK, Chain, Cells
<1>2. rx' = Append(rx, r) /\ cbr' = After(r) /\ UNCHANGED <<rx_offset, hpc, status>> /\ isr' = isr \cup {ROK}
  BY DEF Receive, After
<1>3. cbr' \in 0 .. RingSize - 1 /\ cbr' % 4 = 0
  BY <1>1, <1>2, StepInRing DEF After
<1> HIDE DEF r
<1>4. /\ Len(rx) \in Nat
      /\ rx' \in Seq(Cells) /\ rx' # <<>> /\ Len(rx') = Len(rx) + 1
      /\ \A k \in 1 .. Len(rx) : rx'[k] = rx[k]
      /\ rx'[Len(rx) + 1] = r
  BY <1>1, <1>2, AppendProperties, LenProperties
<1>5. Chain'
  <2>1. /\ rx_offset = IF rx = <<>> THEN cbr ELSE rx[1].at
        /\ \A k \in 1 .. Len(rx) : After(rx[k]) = IF k = Len(rx) THEN cbr ELSE rx[k + 1].at
        /\ rx_offset % 4 = 0
    BY DEF RingInv, Chain
  <2>2. rx_offset' = rx'[1].at
    <3>1. CASE rx = <<>>
      BY <1>2, <1>4, <2>1, <3>1, EmptySeq DEF r
    <3>2. CASE rx # <<>>
      <4>1. 1 \in 1 .. Len(rx)
        BY <1>1, <3>2, EmptySeq
      <4> QED
        BY <1>2, <1>4, <2>1, <3>2, <4>1
    <3> QED
      BY <3>1, <3>2
  <2>3. ASSUME NEW k \in 1 .. Len(rx')
        PROVE  After(rx'[k]) = IF k = Len(rx') THEN cbr' ELSE rx'[k + 1].at
    <3>1. CASE k = Len(rx) + 1
      BY <1>2, <1>4, <3>1
    <3>2. CASE k = Len(rx)
      <4>1. After(rx[k]) = cbr /\ rx'[k] = rx[k]
        BY <1>4, <2>1, <3>2
      <4> QED
        BY <1>4, <3>2, <4>1 DEF r
    <3>3. CASE k \in 1 .. Len(rx) /\ k # Len(rx)
      <4>1. k + 1 \in 1 .. Len(rx) /\ k # Len(rx')
        BY <1>4, <3>3
      <4>2. After(rx[k]) = rx[k + 1].at
        BY <2>1, <3>3
      <4> QED
        BY <1>4, <3>3, <4>1, <4>2
    <3>4. k = Len(rx) + 1 \/ k = Len(rx) \/ (k \in 1 .. Len(rx) /\ k # Len(rx))
      BY <1>4
    <3> QED
      BY <3>1, <3>2, <3>3, <3>4
  <2> QED
    BY <1>2, <1>3, <1>4, <2>1, <2>2, <2>3 DEF Chain, After
<1>6. Pending'
  <2>1. hpc \in {"receive", "poll"} => rx # <<>>
    BY DEF RingInv, Pending
  <2>2. hpc \in {"receive", "poll"} => Len(rx') >= 2
    BY <1>1, <1>4, <2>1, EmptySeq
  <2> QED
    BY <1>2, <1>4, <2>2 DEF Pending
<1> QED
  BY <1>3, <1>4, <1>5, <1>6

\* The new cache has the type of the old.
LEMMA CacheTyped ==
  ASSUME TypeOK, NEW ip \in Addresses, NEW mac \in MACs
  PROVE  cache_arp_entry(ip, mac) \in [Slots -> [ip : Addresses, mac : MACs \cup {None}]]
<1> DEFINE first == CHOOSE i \in Slots :
                      Fits(arp_cache[i], ip) /\ \A j \in 1 .. i - 1 : ~ Fits(arp_cache[j], ip)
<1>1. cache_arp_entry(ip, mac) \in {arp_cache, [arp_cache EXCEPT ![first] = [ip |-> ip, mac |-> mac]]}
  BY DEF cache_arp_entry
<1>2. arp_cache \in [Slots -> [ip : Addresses, mac : MACs \cup {None}]]
  BY DEF TypeOK
<1> HIDE DEF first
<1> QED
  BY <1>1, <1>2

\* Writing a descriptor keeps the table's type.
LEMMA PutTyped ==
  ASSUME NEW S, NEW f \in [Descriptors -> S], NEW d, NEW v \in S
  PROVE  Put(f, d, v) \in [Descriptors -> S]
  BY DEF Put

LEMMA NextRing ==
  ASSUME RingInv, [Next]_vars
  PROVE  RingInv'
<1> USE DEF RingInv
<1>1. ASSUME NEW f \in Frames, Receive(f)
      PROVE  RingInv'
  <2>1. Chain' /\ Pending' /\ rx' \in Seq(Cells) /\ cbr' \in 0 .. RingSize - 1
    BY <1>1, ReceiveRing
  <2>2. TypeOK'
    BY <1>1, <2>1 DEF Receive, TypeOK, kernel
  <2>3. RegInv'
    BY <1>1 DEF Receive, RegInv, kernel
  <2> QED
    BY <2>1, <2>2, <2>3
<1>2. ASSUME NEW d \in Descriptors, Transmit(d)
      PROVE  RingInv'
  <2>1. TypeOK'
    <3>1. tsd' \in [Descriptors -> {"idle", "given", "ok"}] /\ isr' \subseteq {ROK, TOK}
      BY <1>2 DEF Transmit, TypeOK
    <3>2. sent' \in [{"kernel", "handler"} -> 0 .. 2]
      BY <1>2 DEF Transmit, TypeOK
    <3> QED
      BY <1>2, <3>1, <3>2 DEF Transmit, TypeOK, kernel
  <2>2. RegInv' /\ Chain'
    BY <1>2 DEF Transmit, RegInv, Chain, After, kernel
  <2>3. Pending'
    BY <1>2 DEF Transmit, Pending, ROK, TOK
  <2> QED
    BY <2>1, <2>2, <2>3
<1>3. CASE HandlerStatus
  <2>1. TypeOK' /\ RegInv' /\ Chain'
    BY <1>3 DEF HandlerStatus, TypeOK, RegInv, Chain, After, card, kernel
  <2>2. Pending'
    BY <1>3 DEF HandlerStatus, Pending, card
  <2> QED
    BY <2>1, <2>2
<1>4. CASE HandlerAck
  <2>1. TypeOK' /\ RegInv' /\ Chain'
    BY <1>4 DEF HandlerAck, TypeOK, RegInv, Chain, After, kernel
  <2>2. Pending'
    BY <1>4 DEF HandlerAck, Pending
  <2> QED
    BY <2>1, <2>2
<1>5. CASE HandlerReply
  <2>1. hpc \in {"receive", "poll"} /\ Advance
    BY <1>5 DEF HandlerReply
  <2>2. /\ Chain' /\ Pending'
        /\ rx' \in Seq(Cells) /\ rx_offset' \in 0 .. RingSize - 1
    BY <2>1, AdvanceRing
  <2>3. Current.spa \in Addresses /\ Current.sha \in MACs
    <3>1. Current \in Frames
      BY <2>1, AdvanceOne DEF Cells
    <3> QED
      BY <3>1, NetAssumption DEF Addresses
  <2>4. arp_cache' \in [Slots -> [ip : Addresses, mac : MACs \cup {None}]]
    BY <1>5, <2>3, CacheTyped DEF HandlerReply
  <2>5. told' \in [Addresses -> MACs \cup {None}]
    BY <1>5, <2>3 DEF HandlerReply, TypeOK
  <2>6. TypeOK'
    BY <1>5, <2>1, <2>2, <2>4, <2>5 DEF HandlerReply, Advance, TypeOK, kernel
  <2>7. RegInv'
    BY <1>5 DEF HandlerReply, RegInv, kernel
  <2> QED
    BY <2>2, <2>6, <2>7
<1>6. CASE HandlerIgnore
  <2>1. hpc \in {"receive", "poll"} /\ Advance
    BY <1>6 DEF HandlerIgnore
  <2>2. /\ Chain' /\ Pending'
        /\ rx' \in Seq(Cells) /\ rx_offset' \in 0 .. RingSize - 1
    BY <2>1, AdvanceRing
  <2>3. TypeOK'
    BY <1>6, <2>1, <2>2 DEF HandlerIgnore, Advance, TypeOK, kernel
  <2>4. RegInv'
    BY <1>6 DEF HandlerIgnore, RegInv, kernel
  <2> QED
    BY <2>2, <2>3, <2>4
<1>7. CASE HandlerAnswer
  <2>1. /\ tsad' \in [Descriptors -> {"dead", "kernel", "handler"}]
        /\ tsd' \in [Descriptors -> {"idle", "given", "ok"}]
    BY <1>7, PutTyped DEF HandlerAnswer, PutAddress, PutLength, TypeOK
  <2>2. overlap' \in BOOLEAN
    BY <1>7 DEF HandlerAnswer, TypeOK
  <2>3. TypeOK'
    BY <1>7, <2>1, <2>2 DEF HandlerAnswer, TypeOK, kernel
  <2>4. RegInv' /\ Chain' /\ Pending'
    BY <1>7 DEF HandlerAnswer, RegInv, Chain, Pending, After, kernel
  <2> QED
    BY <2>3, <2>4
<1>8. CASE HandlerAnswered
  <2>1. hpc \in {"receive", "poll"} /\ Advance
    BY <1>8 DEF HandlerAnswered
  <2>2. /\ Chain' /\ Pending'
        /\ rx' \in Seq(Cells) /\ rx_offset' \in 0 .. RingSize - 1
    BY <2>1, AdvanceRing
  <2>3. trrc' \in Descriptors
    BY <1>8, NetAssumption DEF HandlerAnswered, TypeOK, Wrap, Descriptors
  <2>4. /\ tsad' \in [Descriptors -> {"dead", "kernel", "handler"}]
        /\ sent' \in [{"kernel", "handler"} -> 0 .. 2]
    BY <1>8 DEF HandlerAnswered, Gone, TypeOK
  <2>5. trrc' \in 0 .. TxCount
    BY <2>3, NetAssumption DEF Descriptors
  <2>6. TypeOK'
    BY <1>8, <2>1, <2>2, <2>4, <2>5 DEF HandlerAnswered, Advance, TypeOK, kernel
  <2>7. RegInv'
    BY <1>8, <2>3 DEF HandlerAnswered, RegInv, kernel
  <2> QED
    BY <2>2, <2>6, <2>7
<1>9. CASE send_dns
  BY <1>9 DEF send_dns, TypeOK, RegInv, Chain, Pending, After, card
<1>10. CASE SendAddress
  <2>1. tsad' \in [Descriptors -> {"dead", "kernel", "handler"}]
    BY <1>10, PutTyped DEF SendAddress, PutAddress, TypeOK
  <2> QED
    BY <1>10, <2>1 DEF SendAddress, TypeOK, RegInv, Chain, Pending, After
<1>11. CASE SendLength
  <2>1. tsd' \in [Descriptors -> {"idle", "given", "ok"}]
    BY <1>11, PutTyped DEF SendLength, PutLength, TypeOK
  <2> QED
    BY <1>11, <2>1 DEF SendLength, TypeOK, RegInv, Chain, Pending, After
<1>12. CASE SendPoll
  BY <1>12 DEF SendPoll, TypeOK, RegInv, Chain, Pending, After, card
<1>13. CASE SendLoad
  BY <1>13 DEF SendLoad, TypeOK, RegInv, Chain, Pending, After, card
<1>14. CASE SendIncStore
  <2>1. trrc' \in 0 .. TxCount /\ reg' \in 0 .. TxCount
    BY <1>14, NetAssumption DEF SendIncStore, TypeOK, RegInv, Descriptors
  <2> QED
    BY <1>14, <2>1 DEF SendIncStore, TypeOK, RegInv, Chain, Pending, After, card
<1>15. CASE SendModStore
  <2>1. trrc' \in Descriptors
    BY <1>15, NetAssumption DEF SendModStore, TypeOK, Wrap, Descriptors
  <2>2. /\ trrc' \in 0 .. TxCount /\ reg' \in 0 .. TxCount
        /\ 1 \in Slots /\ 0 \in 0 .. MaxWaits - 1 /\ 0 \in 0 .. CacheSize
    BY <1>15, <2>1, NetAssumption DEF SendModStore, Descriptors, Slots
  <2>3. /\ tsad' \in [Descriptors -> {"dead", "kernel", "handler"}]
        /\ sent' \in [{"kernel", "handler"} -> 0 .. 2]
    BY <1>15 DEF SendModStore, Gone, TypeOK
  <2>4. TypeOK'
    BY <1>15, <2>2, <2>3 DEF SendModStore, Search, InCache, TypeOK
  <2>5. RegInv' /\ Chain' /\ Pending'
    BY <1>15, <2>1 DEF SendModStore, Search, RegInv, Chain, Pending, After
  <2> QED
    BY <2>4, <2>5
<1>16. CASE Find
  <2>1. 1 \in Slots /\ 0 \in 0 .. MaxWaits - 1 /\ at \in Slots /\ at \in 0 .. CacheSize
    BY NetAssumption DEF TypeOK, Slots
  <2>2. at' \in Slots /\ found' \in 0 .. CacheSize
    BY <1>16, <2>1, NetAssumption DEF Find, GetMacReturns, AtEnd, Slots, TypeOK
  <2>3. TypeOK'
    BY <1>16, <2>1, <2>2 DEF Find, GetMacReturns, TypeOK, card
  <2>4. RegInv' /\ Chain' /\ Pending'
    BY <1>16 DEF Find, GetMacReturns, RegInv, Chain, Pending, After, card
  <2> QED
    BY <2>3, <2>4
<1>17. CASE Sleep
  <2>1. 1 \in Slots /\ 0 \in 0 .. MaxWaits - 1 /\ 0 \in 0 .. CacheSize
    BY NetAssumption DEF Slots
  <2>2. waits' \in 0 .. MaxWaits - 1
    BY <1>17, NetAssumption DEF Sleep, GetMacReturns, Elapsed, TypeOK
  <2>3. TypeOK'
    BY <1>17, <2>1, <2>2 DEF Sleep, Search, InCache, GetMacReturns, TypeOK, card
  <2>4. RegInv' /\ Chain' /\ Pending'
    BY <1>17 DEF Sleep, Search, GetMacReturns, RegInv, Chain, Pending, After, card
  <2> QED
    BY <2>3, <2>4
<1>18. CASE UNCHANGED vars
  BY <1>18 DEF vars, card, kernel, TypeOK, RegInv, Chain, Pending, After
<1> QED
  BY <1>1, <1>2, <1>3, <1>4, <1>5, <1>6, <1>7, <1>8, <1>9, <1>10, <1>11, <1>12, <1>13, <1>14,
     <1>15, <1>16, <1>17, <1>18
  DEF Next, Card, Handler, Kernel, Send, Overflow

------------------------------------------------------------------------------
(* The ARP cache. *)

\* The entry cache_arp_entry writes: the one that has the address, or else the first
\* free one; or none, when the cache is full of other addresses.
LEMMA EntryWritten ==
  ASSUME TypeOK, CacheHoldsLast, Filled, NEW ip \in Addresses, NEW mac \in MACs
  PROVE  \/ /\ \A i \in Slots : arp_cache[i].ip \notin {ip, Zero}
            /\ cache_arp_entry(ip, mac) = arp_cache
         \/ \E i \in Slots :
              /\ cache_arp_entry(ip, mac) = [arp_cache EXCEPT ![i] = [ip |-> ip, mac |-> mac]]
              /\ \/ arp_cache[i].ip = ip /\ ip # Zero
                 \/ /\ ip # Zero => \A j \in Slots : arp_cache[j].ip # ip
                    /\ \A j \in Slots : arp_cache[j].ip = Zero <=> j >= i
<1>1. PICK n \in 0 .. CacheSize : \A i \in Slots : arp_cache[i].ip = Zero <=> i > n
  BY DEF Filled
<1> DEFINE First(i) == Fits(arp_cache[i], ip) /\ \A j \in 1 .. i - 1 : ~ Fits(arp_cache[j], ip)
<1>2. ASSUME NEW i \in Slots, First(i), NEW k \in Slots, First(k)
      PROVE  i = k
  BY <1>2, NetAssumption DEF Slots
<1>3. ASSUME NEW i \in Slots, First(i)
      PROVE  cache_arp_entry(ip, mac) = [arp_cache EXCEPT ![i] = [ip |-> ip, mac |-> mac]]
  <2>1. (CHOOSE k \in Slots : First(k)) = i
    BY <1>2, <1>3
  <2> QED
    BY <1>3, <2>1 DEF cache_arp_entry
<1>4. CASE ip # Zero /\ \E i \in Slots : arp_cache[i].ip = ip
  <2>1. PICK i \in Slots : arp_cache[i].ip = ip
    BY <1>4
  <2>2. ASSUME NEW j \in Slots, arp_cache[j].ip = ip
        PROVE  j = i
    BY <1>4, <2>1, <2>2 DEF CacheHoldsLast
  <2>3. ASSUME NEW j \in 1 .. i - 1
        PROVE  ~ Fits(arp_cache[j], ip)
    <3>1. j \in Slots /\ j # i /\ j < i /\ i \in Nat
      BY NetAssumption DEF Slots
    <3>2. arp_cache[j].ip # ip
      BY <2>2, <3>1
    <3>3. arp_cache[j].ip # Zero
      BY <1>1, <1>4, <2>1, <3>1
    <3> QED
      BY <3>2, <3>3 DEF Fits
  <2>4. First(i)
    BY <2>1, <2>3 DEF Fits
  <2> QED
    BY <1>3, <1>4, <2>1, <2>4
<1>5. CASE (ip = Zero \/ \A i \in Slots : arp_cache[i].ip # ip) /\ n < CacheSize
  <2>1. n + 1 \in Slots /\ \A j \in Slots : j > n <=> j >= n + 1
    BY <1>5, NetAssumption DEF Slots
  <2>2. ASSUME NEW j \in 1 .. n
        PROVE  ~ Fits(arp_cache[j], ip)
    <3>1. j \in Slots /\ ~ (j > n)
      BY NetAssumption DEF Slots
    <3> QED
      BY <1>1, <1>5, <3>1 DEF Fits
  <2>3. First(n + 1)
    BY <1>1, <2>1, <2>2 DEF Fits
  <2>4. \A j \in Slots : arp_cache[j].ip = Zero <=> j >= n + 1
    BY <1>1, <2>1
  <2> QED
    BY <1>3, <1>5, <2>1, <2>3, <2>4
<1>6. CASE (ip = Zero \/ \A i \in Slots : arp_cache[i].ip # ip) /\ n = CacheSize
  <2>1. \A i \in Slots : arp_cache[i].ip # Zero
    BY <1>1, <1>6, NetAssumption DEF Slots
  <2>2. \A i \in Slots : arp_cache[i].ip \notin {ip, Zero}
    BY <1>6, <2>1
  <2>3. \A i \in Slots : ~ Fits(arp_cache[i], ip)
    BY <2>2 DEF Fits
  <2> QED
    BY <2>2, <2>3 DEF cache_arp_entry
<1>7. n < CacheSize \/ n = CacheSize
  BY NetAssumption
<1> QED
  BY <1>4, <1>5, <1>6, <1>7

\* An address in the cache keeps its entry.
LEMMA EntriesKept ==
  ASSUME TypeOK, CacheHoldsLast, Filled, NEW ip \in Addresses, NEW mac \in MACs,
         NEW i \in Slots, arp_cache[i].ip # Zero
  PROVE  cache_arp_entry(ip, mac)[i].ip = arp_cache[i].ip
<1>1. CASE cache_arp_entry(ip, mac) = arp_cache
  BY <1>1
<1>2. ASSUME NEW k \in Slots,
             cache_arp_entry(ip, mac) = [arp_cache EXCEPT ![k] = [ip |-> ip, mac |-> mac]],
             arp_cache[k].ip \in {ip, Zero}
      PROVE  cache_arp_entry(ip, mac)[i].ip = arp_cache[i].ip
  <2>1. arp_cache \in [Slots -> [ip : Addresses, mac : MACs \cup {None}]]
    BY DEF TypeOK
  <2> QED
    BY <1>2, <2>1
<1>3. \A k \in Slots : k >= k
  BY NetAssumption DEF Slots
<1> QED
  BY <1>1, <1>2, <1>3, EntryWritten

\* A reply leaves the cache and what was told in agreement.
LEMMA ReplyCached ==
  ASSUME TypeOK, CacheHoldsLast, Filled, NEW ip \in Addresses, NEW mac \in MACs,
         arp_cache' = cache_arp_entry(ip, mac), told' = [told EXCEPT ![ip] = mac]
  PROVE  CacheHoldsLast' /\ Filled'
<1>1. /\ arp_cache \in [Slots -> [ip : Addresses, mac : MACs \cup {None}]]
      /\ told \in [Addresses -> MACs \cup {None}]
  BY DEF TypeOK
<1>2. mac # None /\ told'[ip] = mac /\ \A a \in Addresses : a # ip => told'[a] = told[a]
  BY <1>1, NetAssumption
<1>3. CASE /\ \A i \in Slots : arp_cache[i].ip \notin {ip, Zero}
           /\ cache_arp_entry(ip, mac) = arp_cache
  <2>1. arp_cache' = arp_cache
    BY <1>3
  <2>2. CacheHoldsLast'
    BY <1>2, <1>3, <2>1 DEF CacheHoldsLast
  <2> QED
    BY <2>1, <2>2 DEF Filled
<1>4. ASSUME NEW i \in Slots,
             cache_arp_entry(ip, mac) = [arp_cache EXCEPT ![i] = [ip |-> ip, mac |-> mac]],
             arp_cache[i].ip = ip, ip # Zero
      PROVE  CacheHoldsLast' /\ Filled'
  <2>1. \A j \in Slots : arp_cache'[j].ip = arp_cache[j].ip
    BY <1>1, <1>4
  <2>2. arp_cache'[i].mac = mac /\ \A j \in Slots : j # i => arp_cache'[j] = arp_cache[j]
    BY <1>1, <1>4
  <2>3. Filled'
    BY <2>1 DEF Filled
  <2>4. ASSUME NEW a \in Addresses \ {Zero}
        PROVE  LET entries == {k \in Slots : arp_cache'[k].ip = a}
               IN  \/ told'[a] = None /\ entries = {}
                   \/ told'[a] # None /\ \E k \in Slots : entries = {k} /\ arp_cache'[k].mac = told'[a]
                   \/ told'[a] # None /\ entries = {} /\ \A k \in Slots : arp_cache'[k].ip # Zero
    <3> DEFINE old == {k \in Slots : arp_cache[k].ip = a}
    <3>1. {k \in Slots : arp_cache'[k].ip = a} = old
      BY <2>1
    <3>2. \/ told[a] = None /\ old = {}
          \/ told[a] # None /\ \E k \in Slots : old = {k} /\ arp_cache[k].mac = told[a]
          \/ told[a] # None /\ old = {} /\ \A k \in Slots : arp_cache[k].ip # Zero
      BY DEF CacheHoldsLast
    <3>3. CASE a = ip
      <4>1. i \in old
        BY <1>4, <3>3
      <4>2. old = {i}
        BY <3>2, <4>1
      <4> QED
        BY <1>2, <2>2, <3>1, <3>3, <4>2
    <3>4. CASE a # ip
      <4>1. i \notin old /\ told'[a] = told[a]
        BY <1>2, <1>4, <3>4
      <4> QED
        BY <2>1, <2>2, <3>1, <3>2, <4>1
    <3> QED
      BY <3>3, <3>4
  <2> QED
    BY <2>3, <2>4 DEF CacheHoldsLast
<1>5. ASSUME NEW i \in Slots,
             cache_arp_entry(ip, mac) = [arp_cache EXCEPT ![i] = [ip |-> ip, mac |-> mac]],
             ip # Zero => \A j \in Slots : arp_cache[j].ip # ip,
             \A j \in Slots : arp_cache[j].ip = Zero <=> j >= i
      PROVE  CacheHoldsLast' /\ Filled'
  <2>1. /\ arp_cache'[i].ip = ip /\ arp_cache'[i].mac = mac
        /\ \A j \in Slots : j # i => arp_cache'[j] = arp_cache[j]
        /\ arp_cache[i].ip = Zero
    <3>1. i >= i
      BY NetAssumption DEF Slots
    <3> QED
      BY <1>1, <1>5, <3>1
  <2>2. Filled'
    <3>1. CASE ip = Zero
      <4>1. \A j \in Slots : arp_cache'[j].ip = Zero <=> j > i - 1
        BY <1>5, <2>1, <3>1, NetAssumption DEF Slots
      <4>2. i - 1 \in 0 .. CacheSize
        BY NetAssumption DEF Slots
      <4> QED
        BY <4>1, <4>2 DEF Filled
    <3>2. CASE ip # Zero
      <4>1. \A j \in Slots : arp_cache'[j].ip = Zero <=> j > i
        BY <1>5, <2>1, <3>2, NetAssumption DEF Slots
      <4>2. i \in 0 .. CacheSize
        BY NetAssumption DEF Slots
      <4> QED
        BY <4>1, <4>2 DEF Filled
    <3> QED
      BY <3>1, <3>2
  <2>3. ASSUME NEW a \in Addresses \ {Zero}
        PROVE  LET entries == {k \in Slots : arp_cache'[k].ip = a}
               IN  \/ told'[a] = None /\ entries = {}
                   \/ told'[a] # None /\ \E k \in Slots : entries = {k} /\ arp_cache'[k].mac = told'[a]
                   \/ told'[a] # None /\ entries = {} /\ \A k \in Slots : arp_cache'[k].ip # Zero
    <3> DEFINE old == {k \in Slots : arp_cache[k].ip = a}
    <3>1. CASE a = ip
      <4>1. {k \in Slots : arp_cache'[k].ip = a} = {i}
        BY <1>5, <2>1, <3>1
      <4> QED
        BY <1>2, <2>1, <3>1, <4>1
    <3>2. CASE a # ip
      <4>1. {k \in Slots : arp_cache'[k].ip = a} = old /\ i \notin old
        BY <2>1, <3>2
      <4>2. told'[a] = told[a]
        BY <1>2, <3>2
      <4>3. \/ told[a] = None /\ old = {}
            \/ told[a] # None /\ \E k \in Slots : old = {k} /\ arp_cache[k].mac = told[a]
        BY <2>1 DEF CacheHoldsLast
      <4> QED
        BY <2>1, <4>1, <4>2, <4>3
    <3> QED
      BY <3>1, <3>2
  <2> QED
    BY <2>2, <2>3 DEF CacheHoldsLast
<1> QED
  BY <1>3, <1>4, <1>5, EntryWritten

LEMMA InitCache == Init => CacheInv
<1> SUFFICES ASSUME Init
             PROVE  CacheInv
  OBVIOUS
<1>1. \A i \in Slots : arp_cache[i].ip = Zero
  BY DEF Init
<1>2. CacheHoldsLast
  BY <1>1 DEF Init, CacheHoldsLast
<1>3. Filled
  <2>1. 0 \in 0 .. CacheSize /\ \A i \in Slots : i > 0
    BY NetAssumption DEF Slots
  <2> QED
    BY <1>1, <2>1 DEF Filled
<1> QED
  BY <1>2, <1>3 DEF Init, CacheInv, FoundIsGateway, Ahead

LEMMA NextCache ==
  ASSUME RingInv, CacheInv, [Next]_vars
  PROVE  CacheInv'
<1>1. TypeOK /\ Gateway # Zero /\ Gateway \in Addresses
  BY NetAssumption DEF RingInv, Addresses
<1>2. CASE HandlerReply
  <2>1. Current.spa \in Addresses /\ Current.sha \in MACs
    <3>1. hpc \in {"receive", "poll"}
      BY <1>2 DEF HandlerReply
    <3>2. Current \in Frames
      BY <3>1, AdvanceOne DEF Cells
    <3> QED
      BY <3>2, NetAssumption DEF Addresses
  <2>2. /\ arp_cache' = cache_arp_entry(Current.spa, Current.sha)
        /\ told' = [told EXCEPT ![Current.spa] = Current.sha]
        /\ UNCHANGED <<pc, at, found, known>>
    BY <1>2 DEF HandlerReply, kernel
  <2>3. CacheHoldsLast' /\ Filled'
    BY <1>1, <2>1, <2>2, ReplyCached DEF CacheInv
  <2>4. ASSUME NEW i \in Slots, arp_cache[i].ip = Gateway
        PROVE  arp_cache'[i].ip = Gateway
    BY <1>1, <2>1, <2>2, <2>4, EntriesKept DEF CacheInv
  <2>5. FoundIsGateway'
    <3>1. found # 0 => found \in Slots
      BY <1>1, NetAssumption DEF TypeOK, Slots
    <3> QED
      BY <2>2, <2>4, <3>1 DEF CacheInv, FoundIsGateway
  <2>6. Ahead'
    <3>1. at .. CacheSize \subseteq Slots
      BY <1>1, NetAssumption DEF TypeOK, Slots
    <3> QED
      BY <2>2, <2>4, <3>1 DEF CacheInv, Ahead
  <2> QED
    BY <2>3, <2>5, <2>6 DEF CacheInv
<1>3. ASSUME UNCHANGED <<arp_cache, told>>
      PROVE  CacheHoldsLast' /\ Filled'
  BY <1>3 DEF CacheInv, CacheHoldsLast, Filled
<1>4. ASSUME UNCHANGED <<arp_cache, told, pc, at, found, known>>
      PROVE  CacheInv'
  BY <1>3, <1>4 DEF CacheInv, FoundIsGateway, Ahead
<1>5. ASSUME Search, UNCHANGED <<arp_cache, told, found>>
      PROVE  CacheInv'
  <2>1. known' => \E i \in Slots : arp_cache'[i].ip = Gateway
    BY <1>5 DEF Search, InCache
  <2>2. at' .. CacheSize = Slots
    BY <1>5 DEF Search, Slots
  <2> QED
    BY <1>3, <1>5, <2>1, <2>2 DEF CacheInv, FoundIsGateway, Ahead
<1>6. CASE SendModStore
  <2>1. CASE sending = "req"
    <3>1. Search /\ UNCHANGED <<arp_cache, told, found>>
      BY <1>6, <2>1 DEF SendModStore
    <3> QED
      BY <1>5, <3>1
  <2>2. CASE sending # "req"
    <3>1. pc' = "idle" /\ found' = 0 /\ UNCHANGED <<arp_cache, told>>
      BY <1>6, <2>2 DEF SendModStore
    <3> QED
      BY <1>3, <3>1 DEF CacheInv, FoundIsGateway, Ahead
  <2> QED
    BY <2>1, <2>2
<1>7. CASE Find
  <2>1. UNCHANGED <<arp_cache, told>>
    BY <1>7 DEF Find
  <2>2. CASE arp_cache[at].ip = Gateway
    <3>1. found' = at /\ pc' = "address"
      BY <1>7, <2>2 DEF Find, GetMacReturns
    <3> QED
      BY <1>3, <2>1, <2>2, <3>1 DEF CacheInv, FoundIsGateway, Ahead
  <2>3. CASE arp_cache[at].ip # Gateway /\ ~ AtEnd
    <3>1. at' = at + 1 /\ UNCHANGED <<pc, found, known>>
      BY <1>7, <2>3 DEF Find
    <3>2. \A i \in at .. CacheSize : i = at \/ i \in (at + 1) .. CacheSize
      BY <1>1, NetAssumption DEF TypeOK, Slots
    <3>3. Ahead'
      BY <2>1, <2>3, <3>1, <3>2 DEF CacheInv, Ahead
    <3> QED
      BY <1>3, <2>1, <3>1, <3>3 DEF CacheInv, FoundIsGateway
  <2>4. CASE arp_cache[at].ip # Gateway /\ AtEnd
    <3>1. pc' = "sleep" /\ UNCHANGED <<found, known>>
      BY <1>7, <2>4 DEF Find
    <3> QED
      BY <1>3, <2>1, <3>1 DEF CacheInv, FoundIsGateway, Ahead
  <2> QED
    BY <2>2, <2>3, <2>4
<1>8. CASE Sleep
  <2>1. UNCHANGED <<arp_cache, told>>
    BY <1>8 DEF Sleep
  <2>2. CASE Search /\ UNCHANGED found
    BY <1>5, <2>1, <2>2
  <2>3. CASE GetMacReturns(0)
    BY <1>3, <2>1, <2>3 DEF GetMacReturns, CacheInv, FoundIsGateway, Ahead
  <2> QED
    BY <1>8, <2>2, <2>3 DEF Sleep
<1>9. CASE send_dns \/ SendAddress \/ SendLength \/ SendPoll \/ SendLoad \/ SendIncStore
  <2>1. UNCHANGED <<arp_cache, told, found>> /\ pc' # "find"
    BY <1>9 DEF send_dns, SendAddress, SendLength, SendPoll, SendLoad, SendIncStore
  <2> QED
    BY <1>3, <2>1 DEF CacheInv, FoundIsGateway, Ahead
<1>10. CASE Card
  <2>1. UNCHANGED <<arp_cache, told, pc, at, found, known>>
    BY <1>10 DEF Card, Receive, Overflow, Transmit, vars, kernel
  <2> QED
    BY <1>4, <2>1
<1>11. CASE HandlerStatus \/ HandlerAck \/ HandlerIgnore \/ HandlerAnswer \/ HandlerAnswered
  <2>1. UNCHANGED <<arp_cache, told, pc, at, found, known>>
    BY <1>11 DEF HandlerStatus, HandlerAck, HandlerIgnore, HandlerAnswer, HandlerAnswered, kernel
  <2> QED
    BY <1>4, <2>1
<1>12. CASE UNCHANGED vars
  BY <1>4, <1>12 DEF vars, kernel
<1> QED
  BY <1>2, <1>6, <1>7, <1>8, <1>9, <1>10, <1>11, <1>12 DEF Next, Handler, Kernel, Send

------------------------------------------------------------------------------
(* Sending. *)

\* Where trrc is inside the descriptor table.
LEMMA RegisterInTable ==
  ASSUME RingInv, SendInv, ~ overlap
  PROVE  /\ pc \in {"idle", "address", "find", "sleep", "length", "poll", "inc", "inc_store"} => trrc \in Descriptors
         /\ hpc = "poll" => trrc \in Descriptors
  BY DEF RingInv, TypeOK, RegInv, SendInv, InSend

LEMMA NextSend ==
  ASSUME RingInv, SendInv, [Next]_vars
  PROVE  SendInv'
<1> SUFFICES ASSUME ~ overlap, ~ overlap'
             PROVE  SendInv'
  <2>1. overlap => overlap'
    BY DEF Next, Card, Receive, Overflow, Transmit, Handler, HandlerStatus, HandlerAck, HandlerReply,
           HandlerIgnore, HandlerAnswer, HandlerAnswered, send_dns, Kernel, Send, SendAddress, SendLength,
           SendPoll, SendLoad, SendIncStore, SendModStore, Find, Sleep, vars
  <2> QED
    BY <2>1 DEF SendInv
<1>1. /\ tsad \in [Descriptors -> {"dead", "kernel", "handler"}]
      /\ tsd \in [Descriptors -> {"idle", "given", "ok"}]
      /\ sent \in [{"kernel", "handler"} -> 0 .. 2]
      /\ pc \in {"idle", "address", "find", "sleep"} \cup {"length", "poll", "inc", "inc_store", "mod", "mod_store"}
      /\ hpc \in {"out", "ack", "receive", "poll"}
  BY DEF RingInv, TypeOK
<1>2. ASSUME NEW d \in Descriptors, Transmit(d)
      PROVE  SendInv'
  <2>1. d = trrc /\ (pc = "poll" \/ hpc = "poll") /\ tsd[d] = "given"
    BY <1>2 DEF Transmit, SendInv
  <2>2. tsd'[d] = "ok" /\ (\A e \in Descriptors : e # d => tsd'[e] = tsd[e]) /\ UNCHANGED <<tsad, trrc, pc, hpc>>
    BY <1>1, <1>2 DEF Transmit, kernel
  <2>3. CASE pc = "poll"
    <3>1. hpc # "poll" /\ tsad[d] = "kernel" /\ sent["kernel"] = 0 /\ sent["handler"] = 0
      BY <2>1, <2>3 DEF SendInv, InSend
    <3>2. sent'["kernel"] = 1 /\ sent'["handler"] = 0
      BY <1>1, <1>2, <3>1 DEF Transmit
    <3> QED
      BY <2>1, <2>2, <2>3, <3>1, <3>2 DEF SendInv, InSend
  <2>4. CASE hpc = "poll"
    <3>1. ~ InSend /\ tsad[d] = "handler" /\ sent["handler"] = 0
      BY <2>1, <2>4 DEF SendInv
    <3>2. sent'["handler"] = 1 /\ sent'["kernel"] = sent["kernel"]
      BY <1>1, <1>2, <3>1 DEF Transmit
    <3> QED
      BY <1>1, <2>1, <2>2, <2>4, <3>1, <3>2 DEF SendInv, InSend
  <2> QED
    BY <2>1, <2>3, <2>4
<1>3. CASE HandlerAnswer
  <2>1. ~ InSend /\ hpc' = "poll" /\ UNCHANGED <<trrc, pc, sent>>
    BY <1>3 DEF HandlerAnswer, kernel
  <2>2. trrc \in Descriptors
    BY <1>1, <2>1, RegisterInTable DEF InSend
  <2>3. /\ tsad'[trrc] = "handler" /\ tsd'[trrc] = "given"
        /\ \A d \in Descriptors : d # trrc => tsd'[d] = tsd[d]
    BY <1>1, <1>3, <2>2 DEF HandlerAnswer, PutAddress, PutLength, Put
  <2>4. sent["handler"] = 0
    BY <1>3 DEF HandlerAnswer, SendInv
  <2> QED
    BY <1>1, <2>1, <2>2, <2>3, <2>4 DEF SendInv, InSend
<1>4. CASE HandlerAnswered
  <2>1. ~ InSend /\ hpc = "poll" /\ hpc' = "out" /\ pc' = pc /\ tsd' = tsd /\ tsd[trrc] = "ok"
    BY <1>4 DEF HandlerAnswered, Advance, TransmitOk, SendInv, kernel
  <2>2. sent'["handler"] = 0 /\ sent'["kernel"] = sent["kernel"]
    BY <1>1, <1>4 DEF HandlerAnswered, Gone
  <2>3. \A d \in Descriptors : tsd[d] # "given"
    BY <2>1 DEF SendInv
  <2> QED
    BY <1>1, <2>1, <2>2, <2>3 DEF SendInv, InSend
<1>5. CASE SendAddress
  <2>1. pc = "address" /\ pc' = "length" /\ hpc = "out" /\ UNCHANGED <<hpc, tsd, trrc, sent>>
    BY <1>5 DEF SendAddress
  <2>2. tsad'[trrc] = "kernel"
    BY <1>1, <1>5, <2>1, RegisterInTable DEF SendAddress, PutAddress, Put
  <2>3. \A d \in Descriptors : tsd[d] # "given"
    BY <2>1 DEF SendInv
  <2> QED
    BY <2>1, <2>2, <2>3 DEF SendInv, InSend
<1>6. CASE SendLength
  <2>1. pc = "length" /\ pc' = "poll" /\ hpc = "out" /\ UNCHANGED <<hpc, tsad, trrc, sent>>
    BY <1>6 DEF SendLength
  <2>2. tsd'[trrc] = "given" /\ \A d \in Descriptors : d # trrc => tsd'[d] = tsd[d]
    BY <1>1, <1>6, <2>1, RegisterInTable DEF SendLength, PutLength, Put
  <2>3. \A d \in Descriptors : tsd[d] # "given"
    BY <2>1 DEF SendInv
  <2> QED
    BY <2>1, <2>2, <2>3 DEF SendInv, InSend
<1>7. CASE SendPoll
  <2>1. pc = "poll" /\ pc' = "inc" /\ hpc = "out" /\ UNCHANGED <<hpc, tsad, tsd, trrc, sent>> /\ tsd[trrc] = "ok"
    BY <1>7 DEF SendPoll, TransmitOk, card
  <2>2. \A d \in Descriptors : tsd[d] # "given"
    BY <2>1 DEF SendInv
  <2> QED
    BY <2>1, <2>2 DEF SendInv, InSend
<1>8. CASE SendLoad \/ SendIncStore
  <2>1. /\ pc \in {"inc", "mod", "inc_store"} /\ pc' \in {"inc_store", "mod_store", "mod"}
        /\ hpc = "out" /\ UNCHANGED <<hpc, tsad, tsd, sent>>
    BY <1>8 DEF SendLoad, SendIncStore, card
  <2>2. \A d \in Descriptors : tsd[d] # "given"
    BY <2>1 DEF SendInv
  <2> QED
    BY <2>1, <2>2 DEF SendInv, InSend
<1>9. CASE SendModStore
  <2>1. pc = "mod_store" /\ pc' \in {"find", "idle"} /\ hpc = "out" /\ UNCHANGED <<hpc, tsd>>
    BY <1>9 DEF SendModStore, Search
  <2>2. sent'["kernel"] = 0 /\ sent'["handler"] = sent["handler"]
    BY <1>1, <1>9 DEF SendModStore, Gone
  <2>3. \A d \in Descriptors : tsd[d] # "given"
    BY <2>1 DEF SendInv
  <2> QED
    BY <2>1, <2>2, <2>3 DEF SendInv, InSend
<1>10. CASE send_dns \/ Find \/ Sleep
  <2>1. /\ pc \in {"idle", "find", "sleep"} /\ pc' \in {"address", "find", "sleep"}
        /\ hpc = "out" /\ UNCHANGED <<hpc, tsad, tsd, trrc, sent>>
    BY <1>10 DEF send_dns, Find, Sleep, Search, GetMacReturns, card
  <2> QED
    BY <2>1 DEF SendInv, InSend
<1>11. CASE HandlerStatus \/ HandlerAck \/ HandlerReply \/ HandlerIgnore
  <2>1. hpc # "poll" /\ hpc' # "poll" /\ UNCHANGED <<pc, tsad, tsd, trrc, sent>>
    BY <1>11 DEF HandlerStatus, HandlerAck, HandlerReply, HandlerIgnore, Advance, card, kernel
  <2> QED
    BY <2>1 DEF SendInv, InSend
<1>12. CASE (\E f \in Frames : Receive(f)) \/ UNCHANGED vars
  <2>1. UNCHANGED <<hpc, pc, tsad, tsd, trrc, sent>>
    BY <1>12 DEF Receive, vars, card, kernel
  <2> QED
    BY <2>1 DEF SendInv, InSend
<1> QED
  BY <1>2, <1>3, <1>4, <1>5, <1>6, <1>7, <1>8, <1>9, <1>10, <1>11, <1>12
  DEF Next, Card, Handler, Kernel, Send, Overflow

------------------------------------------------------------------------------
(* The theorems. *)

\* The three parts together are an inductive invariant of the network.
THEOREM NetInvariant == Spec => []IInv
<1>1. Init => IInv
  <2>1. Init => SendInv
    BY DEF Init, SendInv, InSend
  <2> QED
    BY <2>1, InitRing, InitCache DEF IInv
<1>2. IInv /\ [Next]_vars => IInv'
  BY NextRing, NextCache, NextSend DEF IInv
<1> QED
  BY <1>1, <1>2, PTL DEF Spec

\* Every variable keeps its type; trrc is at most TxCount, whatever interrupts what.
THEOREM NetTypeOK == Spec => []TypeOK
<1>1. IInv => TypeOK
  BY DEF IInv, RingInv
<1> QED
  BY <1>1, NetInvariant, PTL

\* receive_packet reads the oldest frame not handled, for every ring and all lengths.
THEOREM NetFramesInOrder == Spec => []FramesInOrder
<1>1. IInv => FramesInOrder
  BY DEF IInv, RingInv, Chain, Pending, FramesInOrder
<1> QED
  BY <1>1, NetInvariant, PTL

\* The ARP cache holds what the last reply said, in one entry, up to its capacity.
THEOREM NetCacheHoldsLast == Spec => []CacheHoldsLast
<1>1. IInv => CacheHoldsLast
  BY DEF IInv, CacheInv
<1> QED
  BY <1>1, NetInvariant, PTL

\* The pointer get_mac returns stays the gateway's entry while it is used.
THEOREM NetFoundStaysValid == Spec => []FoundStaysValid
<1>1. IInv => FoundStaysValid
  <2> SUFFICES ASSUME IInv, found # 0
               PROVE  arp_cache[found].ip = Gateway /\ arp_cache[found].mac = told[Gateway]
    BY DEF FoundStaysValid
  <2>1. found \in Slots /\ arp_cache[found].ip = Gateway /\ Gateway \in Addresses \ {Zero}
    BY NetAssumption DEF IInv, RingInv, CacheInv, TypeOK, FoundIsGateway, Slots, Addresses
  <2>2. found \in {i \in Slots : arp_cache[i].ip = Gateway}
    BY <2>1
  <2> QED
    BY <2>1, <2>2 DEF IInv, CacheInv, CacheHoldsLast
<1> QED
  BY <1>1, NetInvariant, PTL

\* find_mac_in_cache misses no address that was in the cache when it began, though
\* interrupts change the cache under it.
THEOREM NetSearchFindsKnown == Spec => SearchFindsKnown
<1>1. IInv /\ [Next]_vars => [pc = "find" /\ pc' = "sleep" => ~ known]_vars
  <2> SUFFICES ASSUME IInv, Next, pc = "find", pc' = "sleep", known
               PROVE  FALSE
    OBVIOUS
  <2>1. Find
    BY DEF Next, Card, Receive, Overflow, Transmit, Handler, HandlerStatus, HandlerAck, HandlerReply,
           HandlerIgnore, HandlerAnswer, HandlerAnswered, send_dns, Kernel, Send, SendAddress, SendLength,
           SendPoll, SendLoad, SendIncStore, SendModStore, Sleep, vars, kernel
  <2>2. arp_cache[at].ip # Gateway /\ at = CacheSize
    BY <2>1 DEF Find, GetMacReturns, AtEnd
  <2>3. \E i \in at .. CacheSize : arp_cache[i].ip = Gateway
    BY DEF IInv, CacheInv, Ahead
  <2> QED
    BY <2>2, <2>3, NetAssumption
<1> QED
  BY <1>1, NetInvariant, PTL DEF Spec, SearchFindsKnown

\* As long as no send of the handler begins within one of the kernel, send_packet
\* returns when its packet has been sent once, and nothing else is ever sent.
THEOREM NetSendsOnce == Spec => SendsOnce
<1> DEFINE Once ==
      ~ overlap =>
        /\ pc = "poll" /\ pc' = "inc" => sent["kernel"] = 1
        /\ hpc = "poll" /\ hpc' = "out" => sent["handler"] = 1
        /\ \A d \in Descriptors : tsd[d] = "given" /\ tsd'[d] = "ok" => tsad[d] # "dead"
<1>1. IInv /\ [Next]_vars => [Once]_vars
  <2> SUFFICES ASSUME IInv, Next, ~ overlap
               PROVE  Once
    OBVIOUS
  <2>1. SendInv
    BY DEF IInv
  <2>2. ASSUME pc = "poll", pc' = "inc"
        PROVE  sent["kernel"] = 1
    <3>1. SendPoll
      BY <2>2 DEF Next, Card, Receive, Overflow, Transmit, Handler, HandlerStatus, HandlerAck, HandlerReply,
           HandlerIgnore, HandlerAnswer, HandlerAnswered, send_dns, Kernel, Send, SendAddress, SendLength,
           SendLoad, SendIncStore, SendModStore, Find, Sleep, vars, kernel
    <3>2. tsd[trrc] = "ok"
      BY <3>1 DEF SendPoll, TransmitOk
    <3> QED
      BY <2>1, <2>2, <3>2 DEF SendInv
  <2>3. ASSUME hpc = "poll", hpc' = "out"
        PROVE  sent["handler"] = 1
    <3>1. HandlerAnswered
      BY <2>3 DEF Next, Card, Receive, Overflow, Transmit, Handler, HandlerStatus, HandlerAck, HandlerReply,
           HandlerIgnore, HandlerAnswer, send_dns, Kernel, Send, SendAddress, SendLength, SendPoll,
           SendLoad, SendIncStore, SendModStore, Find, Sleep, vars
    <3>2. tsd[trrc] = "ok"
      BY <3>1 DEF HandlerAnswered, TransmitOk
    <3> QED
      BY <2>1, <2>3, <3>2 DEF SendInv
  <2>4. ASSUME NEW d \in Descriptors, tsd[d] = "given"
        PROVE  tsad[d] # "dead"
    BY <2>1, <2>4 DEF SendInv
  <2> QED
    BY <2>2, <2>3, <2>4
<1> QED
  BY <1>1, NetInvariant, PTL DEF Spec, SendsOnce
==============================================================================
