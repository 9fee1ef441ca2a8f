--------------------------- MODULE MantisDmaProofs ---------------------------
(***************************************************************************)
(* Proofs about the Mantis card's DMA: the block numbers and positions     *)
(* stay in their ranges, the tasklet does not read a buffer that has been  *)
(* freed, and it hands the blocks on in order, whatever the interrupts,    *)
(* the tasklet, the I2C bus and the removal of the module do in between.   *)
(***************************************************************************)
EXTENDS MantisDma, TLAPS

(* A block that the risc program reports is one of the ring.               *)
LEMMA Reported ==
  ASSUME NEW line \in Lines, NEW b \in risc_program[line]
  PROVE  b \in Blocks
<1>1. BufSize \in Nat \ {0} /\ line_bytes \in Nat \ {0} /\ line \in Int
  BY MantisConstants, MantisLines DEF Lines
<1>2. block_bytes \in Nat \ {0}
  BY <1>1, MantisConstants DEF block_bytes
<1> DEFINE buf_pos == line * line_bytes
<1>3. buf_pos \in Int
  BY <1>1
<1>4. buf_pos \div block_bytes \in Int
  BY <1>2, <1>3
<1>5. b = (buf_pos \div block_bytes + block_count - 1) % block_count
  BY DEF risc_program
<1> HIDE DEF buf_pos
<1> QED
  BY <1>4, <1>5 DEF Blocks, block_count

(* The ring has lines.                                                     *)
LEMMA FirstLine == 0 \in Lines /\ line_count \in Nat /\ 0 \in Blocks
BY MantisLines DEF Lines, line_count, block_count, Blocks

(* The driver after mantis_core_init.                                      *)
LEMMA MantisInit == Init => MantisInv
<1> SUFFICES ASSUME Init PROVE MantisInv
  OBVIOUS
<1>1. CardTypes
  BY FirstLine DEF Init, CardTypes, Bits, Idle, CardRecord, RegRecord, IrqRecord
<1>2. DriverTypes
  <2>1. past \in PastRecord
    BY DEF Init, PastRecord
  <2>2. i2c \in I2cRecord
    BY DEF Init, I2cRecord
  <2>3. due \in DueRecord
    BY FirstLine DEF Init, Block0, DueRecord
  <2> QED
    BY <2>1, <2>2, <2>3 DEF Init, DriverTypes, TaskletRecord
<1>3. RisciInv /\ RemovalInv
  BY DEF Init, RisciInv, RemovalInv, Leaving, Idle
<1> QED
  BY <1>1, <1>2, <1>3 DEF MantisInv

(* The card writes a line, and may report a block.                         *)
LEMMA CardWrites ==
  ASSUME MantisInv, WriteLine
  PROVE  MantisInv'
<1>1. card.pos \in Lines /\ card.on /\ card \in CardRecord
  BY DEF MantisInv, CardTypes, WriteLine, CardRecord
<1>2. card' \in CardRecord /\ card'.on
  <2>1. CASE card.pos = line_count - 1
    <3>1. card' = [card EXCEPT !.pos = 0, !.lap = (card.lap + 1) % 3]
      BY <2>1 DEF WriteLine
    <3>2. (card.lap + 1) % 3 \in 0 .. 2
      BY <1>1 DEF CardRecord
    <3> QED
      BY <1>1, <3>1, <3>2, FirstLine DEF CardRecord
  <2>2. CASE card.pos # line_count - 1
    <3>1. card' = [card EXCEPT !.pos = card.pos + 1]
      BY <1>1, <2>2 DEF WriteLine
    <3>2. card.pos + 1 \in Lines
      BY <1>1, <2>2, FirstLine DEF Lines
    <3> QED
      BY <1>1, <3>1, <3>2 DEF CardRecord
  <2> QED
    BY <2>1, <2>2
<1>3. reg' \in RegRecord
  <2>0. reg \in RegRecord
    BY DEF MantisInv, CardTypes
  <2>1. CASE risc_program[card.pos] = {}
    BY <2>0, <2>1 DEF WriteLine
  <2>2. CASE risc_program[card.pos] # {}
    <3> DEFINE b == CHOOSE b \in risc_program[card.pos] : TRUE
    <3>1. b \in Blocks
      BY <1>1, <2>2, Reported
    <3>2. reg' = [reg EXCEPT !.stat = @ \cup {"RISCI"}, !.risc = b]
      BY <2>2 DEF WriteLine
    <3> HIDE DEF b
    <3>3. reg.stat \cup {"RISCI"} \in SUBSET Bits
      BY <2>0 DEF Bits, RegRecord
    <3> QED
      BY <2>0, <3>1, <3>2, <3>3 DEF RegRecord
  <2> QED
    BY <2>1, <2>2
<1>4. CardTypes'
  BY <1>2, <1>3 DEF MantisInv, CardTypes, WriteLine
<1>5. past' \in PastRecord /\ past'.backlog = past.backlog
  BY DEF MantisInv, DriverTypes, WriteLine, PastRecord
<1>6. DriverTypes'
  BY <1>5 DEF MantisInv, DriverTypes, WriteLine
<1>7. RisciInv' /\ RemovalInv'
  BY <1>1, <1>2, <1>5 DEF MantisInv, RisciInv, RemovalInv, Leaving, WriteLine
<1> QED
  BY <1>4, <1>6, <1>7 DEF MantisInv

(* mantis_pci_irq hands a block number on and schedules the tasklet.       *)
LEMMA IrqHandles ==
  ASSUME MantisInv, Irq
  PROVE  MantisInv'
<1>1. CASE IrqRead
  <2>1. CardTypes' /\ irq'.pc = "seen" /\ irq'.bits = reg.stat
    BY <1>1 DEF MantisInv, CardTypes, IrqRead, RegRecord, IrqRecord, CardRecord
  <2>2. DriverTypes'
    BY <1>1 DEF MantisInv, DriverTypes, IrqRead
  <2>3. RisciInv'
    BY <1>1, <2>1 DEF MantisInv, RisciInv, IrqRead
  <2>4. RemovalInv'
    BY <1>1, <2>1 DEF MantisInv, RemovalInv, RisciInv, Leaving, IrqRead
  <2> QED
    BY <2>1, <2>2, <2>3, <2>4 DEF MantisInv
<1>2. CASE IrqHandle
  <2>1. irq' = Idle /\ Idle \in IrqRecord
        /\ "RISCI" \notin Idle.bits
    BY <1>2, FirstLine DEF IrqHandle, Idle, IrqRecord
  <2>2. reg' \in RegRecord
        /\ reg'.stat \subseteq reg.stat
    BY <1>2 DEF MantisInv, CardTypes, IrqHandle, RegRecord
  <2>3. CardTypes'
    BY <1>2, <2>1, <2>2 DEF MantisInv, CardTypes, IrqHandle, CardRecord, RegRecord, IrqRecord
  <2>4. tasklet' \in TaskletRecord
        /\ tasklet'.pc = tasklet.pc
        /\ ("RISCI" \notin irq.bits => tasklet' = tasklet)
    BY <1>2 DEF MantisInv, DriverTypes, IrqHandle, TaskletRecord
  <2>5. i2c' \in I2cRecord
    <3>1. i2c \in I2cRecord
      BY DEF MantisInv, DriverTypes
    <3>2. \E x \in BOOLEAN : i2c' = [i2c EXCEPT !.racked = x]
      <4>1. ("I2CRACK" \in irq.bits) \in BOOLEAN /\ i2c.racked \in BOOLEAN
        BY <3>1 DEF IrqRecord, I2cRecord
      <4> QED
        BY <1>2, <4>1, Zenon DEF IrqHandle
    <3> QED
      BY <3>1, <3>2 DEF IrqRecord, I2cRecord
  <2>6. DriverTypes'
    <3>1. UNCHANGED <<ctl, freed, due, past>>
      BY <1>2 DEF IrqHandle
    <3> QED
      BY <2>4, <2>5, <3>1 DEF MantisInv, DriverTypes
  <2>7. RisciInv' /\ RemovalInv'
    BY <1>2, <2>1, <2>2, <2>4 DEF MantisInv, RisciInv, RemovalInv, Leaving, IrqHandle
  <2> QED
    BY <2>3, <2>6, <2>7 DEF MantisInv
<1> QED
  BY <1>1, <1>2 DEF Irq

(* mantis_dma_xfer goes through the ring and never leaves it.              *)
LEMMA TaskletWorks ==
  ASSUME MantisInv, Tasklet
  PROVE  MantisInv'
<1>1. CASE TaskletRuns \/ Loop
  <2>1. CardTypes'
    BY <1>1 DEF MantisInv, CardTypes, TaskletRuns, Loop
  <2>2. tasklet' \in TaskletRecord
    <3>1. tasklet \in TaskletRecord
      BY DEF MantisInv, DriverTypes
    <3>2. CASE TaskletRuns
      BY <3>2 DEF TaskletRuns, TaskletRecord
    <3>3. CASE Loop
      <4>1. PICK p \in {"idle", "filter"} : tasklet' = [tasklet EXCEPT !.pc = p]
        BY <3>3, Zenon DEF Loop
      <4> QED
        BY <3>1, <4>1 DEF TaskletRecord
    <3> QED
      BY <1>1, <3>2, <3>3
  <2>3. DriverTypes'
    BY <1>1, <2>2 DEF MantisInv, DriverTypes, TaskletRuns, Loop
  <2>4. RisciInv' /\ RemovalInv'
    BY <1>1 DEF MantisInv, RisciInv, RemovalInv, Leaving, DriverTypes, TaskletRuns, Loop
  <2> QED
    BY <2>1, <2>3, <2>4 DEF MantisInv
<1>2. CASE Filtered
  <2>1. last_block' \in Blocks
    BY <1>2 DEF MantisInv, CardTypes, Filtered, Blocks, block_count
  <2>2. CardTypes'
    BY <1>2, <2>1 DEF MantisInv, CardTypes, Filtered
  <2>3. due' \in DueRecord
    <3>1. due \in DueRecord
      BY DEF MantisInv, DriverTypes
    <3>2. (due.lap + 1) % 3 \in 0 .. 2 /\ (due.block + 1) % block_count \in Blocks
      BY <3>1 DEF Blocks, block_count, DueRecord
    <3> QED
      BY <1>2, <3>1, <3>2 DEF Filtered, CardRecord, RegRecord, IrqRecord, DueRecord
  <2>4. past' \in PastRecord /\ past'.backlog = past.backlog
    <3>1. past \in PastRecord
      BY DEF MantisInv, DriverTypes
    <3>2. \E n \in Nat, w \in BOOLEAN : past' = [past EXCEPT !.old = n, !.warm = w]
      <4>1. past.old \in Nat /\ past.old + 1 \in Nat
        BY <3>1 DEF PastRecord
      <4>2. (past.warm \/ last_block = block_count - 1) \in BOOLEAN
        OBVIOUS
      <4> QED
        BY <1>2, <4>1, <4>2, Zenon DEF Filtered
    <3> QED
      BY <3>1, <3>2 DEF PastRecord
  <2>5. tasklet' = [tasklet EXCEPT !.pc = "loop"] /\ tasklet.pc = "filter"
    BY <1>2 DEF Filtered
  <2>6. DriverTypes'
    BY <1>2, <2>3, <2>4, <2>5 DEF MantisInv, DriverTypes, Filtered, TaskletRecord
  <2>7. RisciInv' /\ RemovalInv'
    BY <1>2, <2>4, <2>5 DEF MantisInv, RisciInv, RemovalInv, Leaving, Filtered
  <2> QED
    BY <2>2, <2>6, <2>7 DEF MantisInv
<1> QED
  BY <1>1, <1>2 DEF Tasklet

(* Starting, stopping and removing.                                        *)
LEMMA ControlActs ==
  ASSUME MantisInv, Control
  PROVE  MantisInv'
<1>1. CASE Start
  <2>1. past' \in PastRecord
    BY <1>1 DEF MantisInv, DriverTypes, Start, Busy, PastRecord
  <2>2. CardTypes' /\ DriverTypes'
    BY <1>1, <2>1, FirstLine DEF MantisInv, CardTypes, DriverTypes, Start
  <2>3. RisciInv' /\ RemovalInv'
    BY <1>1 DEF MantisInv, RisciInv, RemovalInv, Leaving, Start
  <2> QED
    BY <2>2, <2>3 DEF MantisInv
<1>2. CASE StartEngine
  <2>1. past' \in PastRecord
    BY <1>2 DEF MantisInv, DriverTypes, StartEngine, Busy, PastRecord
  <2>2. CardTypes'
    BY <1>2, FirstLine DEF MantisInv, CardTypes, StartEngine, CardRecord, RegRecord, IrqRecord
  <2>3. DriverTypes'
    BY <1>2, <2>1, FirstLine DEF MantisInv, DriverTypes, StartEngine, Block0, DueRecord
  <2>4. RisciInv' /\ RemovalInv'
    BY <1>2 DEF MantisInv, RisciInv, RemovalInv, Leaving, StartEngine
  <2> QED
    BY <2>2, <2>3, <2>4 DEF MantisInv
<1>3. CASE Stop
  <2>1. CardTypes' /\ ~card'.on
    BY <1>3 DEF MantisInv, CardTypes, Stop, CardRecord, RegRecord, IrqRecord
  <2>2. DriverTypes'
    BY <1>3 DEF MantisInv, DriverTypes, Stop
  <2>3. RisciInv' /\ RemovalInv'
    BY <1>3, <2>1 DEF MantisInv, RisciInv, RemovalInv, Leaving, Stop
  <2> QED
    BY <2>1, <2>2, <2>3 DEF MantisInv
<1>4. CASE StopEnd
  <2>1. reg' \in RegRecord
        /\ reg'.stat = {}
    BY <1>4 DEF MantisInv, CardTypes, StopEnd, RegRecord
  <2>2. CardTypes' /\ DriverTypes'
    BY <1>4, <2>1 DEF MantisInv, CardTypes, DriverTypes, StopEnd
  <2>3. RisciInv' /\ RemovalInv'
    BY <1>4, <2>1 DEF MantisInv, RisciInv, RemovalInv, Leaving, StopEnd
  <2> QED
    BY <2>2, <2>3 DEF MantisInv
<1>5. CASE Remove
  <2>1. past' \in PastRecord /\ past'.backlog = (Busy \/ tasklet.sched)
    BY <1>5 DEF MantisInv, DriverTypes, Remove, Busy, TaskletRecord, PastRecord
  <2>2. CardTypes' /\ DriverTypes'
    BY <1>5, <2>1 DEF MantisInv, CardTypes, DriverTypes, Remove
  <2>3. RisciInv'
    BY <1>5 DEF MantisInv, RisciInv, Remove
  <2>4. RemovalInv'
    BY <1>5, <2>1 DEF MantisInv, RisciInv, RemovalInv, Leaving, Remove, Busy
  <2> QED
    BY <2>2, <2>3, <2>4 DEF MantisInv
<1>6. CASE FreeBuffer \/ Kill
  <2>1. CardTypes'
    BY <1>6 DEF MantisInv, CardTypes, FreeBuffer, Kill
  <2>2. DriverTypes'
    BY <1>6 DEF MantisInv, DriverTypes, FreeBuffer, Kill
  <2>3. RisciInv' /\ RemovalInv'
    BY <1>6 DEF MantisInv, RisciInv, RemovalInv, Leaving, FreeBuffer, Kill
  <2> QED
    BY <2>1, <2>2, <2>3 DEF MantisInv
<1> QED
  BY <1>1, <1>2, <1>3, <1>4, <1>5, <1>6 DEF Control

(* The I2C bus, which shares the interrupt registers.                      *)
LEMMA I2cActs ==
  ASSUME MantisInv, I2c
  PROVE  MantisInv'
<1>1. CASE I2cPage \/ I2cSend \/ I2cWaited
  <2>1. CardTypes'
    BY <1>1 DEF MantisInv, CardTypes, I2cPage, I2cSend, I2cWaited
  <2>2. DriverTypes'
    <3>1. i2c' \in I2cRecord
      BY <1>1 DEF MantisInv, CardTypes, DriverTypes, I2cPage, I2cSend, I2cWaited,
         RegRecord, I2cRecord
    <3> QED
      BY <1>1, <3>1 DEF MantisInv, DriverTypes, I2cPage, I2cSend, I2cWaited
  <2>3. RisciInv' /\ RemovalInv'
    BY <1>1 DEF MantisInv, RisciInv, RemovalInv, Leaving, I2cPage, I2cSend, I2cWaited
  <2> QED
    BY <2>1, <2>2, <2>3 DEF MantisInv
<1>2. CASE I2cClear
  <2>1. reg' \in RegRecord
        /\ reg'.stat \subseteq reg.stat
    BY <1>2 DEF MantisInv, CardTypes, I2cClear, RegRecord
  <2>2. CardTypes'
    BY <1>2, <2>1 DEF MantisInv, CardTypes, I2cClear
  <2>3. past' \in PastRecord /\ past'.backlog = past.backlog
    BY <1>2 DEF MantisInv, DriverTypes, I2cClear, PastRecord
  <2>4. i2c' \in I2cRecord
    BY <1>2 DEF MantisInv, DriverTypes, I2cClear, I2cRecord
  <2>5. due' \in DueRecord
    BY <1>2, FirstLine DEF MantisInv, DriverTypes, I2cClear, Block0, DueRecord
  <2>6. DriverTypes'
    BY <1>2, <2>3, <2>4, <2>5 DEF MantisInv, DriverTypes, I2cClear
  <2>7. RisciInv' /\ RemovalInv'
    BY <1>2, <2>1, <2>3 DEF MantisInv, RisciInv, RemovalInv, Leaving, I2cClear
  <2> QED
    BY <2>2, <2>6, <2>7 DEF MantisInv
<1>3. CASE I2cDone
  <2>1. reg' \in RegRecord
        /\ ("RISCI" \in reg'.stat => "RISCI" \in reg.stat)
    BY <1>3 DEF MantisInv, CardTypes, Bits, I2cDone, RegRecord
  <2>2. CardTypes' /\ DriverTypes'
    BY <1>3, <2>1 DEF MantisInv, CardTypes, DriverTypes, I2cDone
  <2>3. RisciInv' /\ RemovalInv'
    BY <1>3, <2>1 DEF MantisInv, RisciInv, RemovalInv, Leaving, I2cDone
  <2> QED
    BY <2>2, <2>3 DEF MantisInv
<1> QED
  BY <1>1, <1>2, <1>3 DEF I2c

(* Doing nothing.                                                          *)
LEMMA Stutters ==
  ASSUME MantisInv, UNCHANGED vars
  PROVE  MantisInv'
BY DEF MantisInv, CardTypes, DriverTypes, RisciInv, RemovalInv, Leaving, vars

-----------------------------------------------------------------------------
(* The inductive invariant holds in every interleaving of the card, the    *)
(* handler, the tasklet, the I2C bus and the process that controls them.   *)
THEOREM MantisSafe == Spec => []MantisInv
<1>1. MantisInv /\ [Next]_vars => MantisInv'
  BY CardWrites, IrqHandles, TaskletWorks, ControlActs, I2cActs, Stutters DEF Next
<1> QED
  BY <1>1, MantisInit, PTL DEF Spec

(* The block numbers that the handler and the tasklet use, and the         *)
(* position of the card, stay within the ring, for every size of it.       *)
THEOREM InRing == Spec => []TypeOK
<1>1. MantisInv => TypeOK
  BY DEF MantisInv, CardTypes, DriverTypes, Bits, TypeOK, CardRecord, RegRecord,
     TaskletRecord, DueRecord
<1> QED
  BY <1>1, MantisSafe, PTL

(* mantis_core_exit frees the buffer before it kills the tasklet.  Still   *)
(* the tasklet hands on nothing from the freed buffer unless it, or the    *)
(* handler, was already at work when the removal began.                    *)
THEOREM FreedUnused == Spec => []NoUseAfterFree
<1>1. MantisInv => NoUseAfterFree
  BY DEF MantisInv, RemovalInv, NoUseAfterFree
<1> QED
  BY <1>1, MantisSafe, PTL

-----------------------------------------------------------------------------
(* The order of the blocks.                                                *)

(* How many lines the ring has.                                            *)
LEMMA Sizes ==
  /\ PerBlock \in Nat \ {0} /\ Half \in Nat /\ Half = 8 * PerBlock
  /\ line_count = 16 * PerBlock /\ Lines = 0 .. 16 * PerBlock - 1
  /\ \A m \in Modes : m.slack \in Nat /\ m.slack < 7 * PerBlock
BY MantisLines, MantisLatency, MantisConstants DEF Half, line_count, block_count, Lines

(* A multiple of a line is less than a line long only if it is none.       *)
LEMMA NoMultiple ==
  ASSUME NEW k \in Int, NEW l \in Nat, l >= 8, 0 <= k * l, k * l < 8
  PROVE  k = 0
<1>1. CASE k >= 1
  <2>1. (k - 1) * l >= 0
    BY <1>1
  <2>2. k * l = (k - 1) * l + l
    OBVIOUS
  <2> QED
    BY <2>1, <2>2
<1>2. CASE k <= -1
  <2>1. (-1 - k) * l >= 0
    BY <1>2
  <2>2. k * l = -((-1 - k) * l) - l
    OBVIOUS
  <2> QED
    BY <2>1, <2>2
<1> QED
  BY <1>1, <1>2

(* Division, by what the quotient is.                                      *)
LEMMA Quotient ==
  ASSUME NEW a \in Nat, NEW b \in Nat \ {0}, NEW q \in Nat, q * b <= a, a < q * b + b
  PROVE  a \div b = q
<1> DEFINE d == a \div b
<1>1. d \in Int /\ d * b <= a /\ a < d * b + b
  OBVIOUS
<1> HIDE DEF d
<1>2. CASE d >= q + 1
  <2>1. (d - q - 1) * b >= 0
    BY <1>1, <1>2
  <2>2. d * b = (d - q - 1) * b + q * b + b
    BY <1>1
  <2> QED
    BY <1>1, <2>1, <2>2
<1>3. CASE d + 1 <= q
  <2>1. (q - d - 1) * b >= 0
    BY <1>1, <1>3
  <2>2. q * b = (q - d - 1) * b + d * b + b
    BY <1>1
  <2> QED
    BY <1>1, <2>1, <2>2
<1>4. d = q
  BY <1>1, <1>2, <1>3
<1> QED
  BY <1>4 DEF d

(* A number below twice b that b divides is zero or b.                     *)
LEMMA Divided ==
  ASSUME NEW a \in Nat, NEW b \in Nat \ {0}, a < 2 * b
  PROVE  a % b = 0 <=> a = 0 \/ a = b
BY SMT

(* mantis_risc_program reports twice a lap: block 15 at the start of the   *)
(* ring and block 7 at its middle.                                         *)
LEMMA Program ==
  ASSUME NEW line \in Lines
  PROVE  risc_program[line] = IF line = 0 THEN {15} ELSE IF line = Half THEN {7} ELSE {}
<1> DEFINE l == line_bytes
           bb == block_bytes
           at == line * l
<1>1. l \in Nat \ {0} /\ l >= 8 /\ bb \in Nat \ {0} /\ bb = PerBlock * l /\ PerBlock \in Nat \ {0}
  BY MantisLines, MantisLatency, MantisConstants DEF block_bytes
<1>2. line \in Nat /\ line < 16 * PerBlock
  BY Sizes
<1>3. risc_program[line] = IF (at \div 8) % bb = 0 THEN {(at \div bb + 16 - 1) % 16} ELSE {}
  BY DEF risc_program, block_count
<1> HIDE DEF l, bb
<1>4. at \in Nat /\ at < 16 * bb
  <2>1. at \in Nat
    BY <1>1, <1>2
  <2>2. (16 * PerBlock - line - 1) * l >= 0
    BY <1>1, <1>2
  <2> DEFINE r == (16 * PerBlock - line - 1) * l
  <2>3. 16 * (PerBlock * l) = r + at + l
    BY <1>1, <1>2
  <2>4. r \in Int
    BY <1>1, <1>2
  <2> HIDE DEF r, at
  <2>5. r >= 0
    BY <2>2 DEF r
  <2>6. 16 * bb = r + at + l
    BY <1>1, <2>3
  <2> QED
    BY <1>1, <2>1, <2>4, <2>5, <2>6
<1>5. line - 8 * PerBlock \in Int /\ (line - 8 * PerBlock) * l = at - 8 * bb
  BY <1>1, <1>2
<1>6. ASSUME line = 0
      PROVE  risc_program[line] = {15}
  <2>1. at = 0
    BY <1>1, <1>6
  <2>2. at \div 8 = 0 /\ 0 % bb = 0 /\ at \div bb = 0
    BY <1>1, <2>1, Quotient, Divided
  <2> QED
    BY <1>3, <2>2
<1>7. ASSUME line = Half
      PROVE  risc_program[line] = {7}
  <2>1. at = 8 * bb
    BY <1>1, <1>5, <1>7, Sizes
  <2>2. at \div bb = 8 /\ at \div 8 = bb /\ bb % bb = 0
    <3>1. at \div bb = 8
      BY <1>1, <1>4, <2>1, Quotient
    <3>2. at \div 8 = bb
      BY <1>1, <2>1
    <3>3. bb % bb = 0
      BY <1>1, Divided
    <3> QED
      BY <3>1, <3>2, <3>3
  <2> QED
    BY <1>3, <2>2
<1>8. ASSUME line # 0, line # Half
      PROVE  risc_program[line] = {}
  <2> DEFINE q == at \div 8
  <2>1. q \in Nat /\ 8 * q <= at /\ at < 8 * q + 8
    BY <1>4
  <2> HIDE DEF q
  <2>2. q < 2 * bb
    BY <1>1, <1>4, <2>1
  <2>3. q # 0
    <3>1. ASSUME q = 0 PROVE FALSE
      <4>1. 0 <= line * l /\ line * l < 8
        BY <1>4, <2>1, <3>1
      <4> QED
        BY <1>1, <1>2, <1>8, <4>1, NoMultiple
    <3> QED
      BY <3>1
  <2>4. q # bb
    <3>1. ASSUME q = bb PROVE FALSE
      <4>1. 0 <= (line - 8 * PerBlock) * l /\ (line - 8 * PerBlock) * l < 8
        BY <1>1, <1>4, <1>5, <2>1, <3>1
      <4>2. line - 8 * PerBlock = 0
        BY <1>1, <1>5, <4>1, NoMultiple
      <4> QED
        BY <1>1, <1>2, <1>8, <4>2, Sizes
    <3> QED
      BY <3>1
  <2>5. q % bb # 0
    BY <1>1, <2>1, <2>2, <2>3, <2>4, Divided
  <2> QED
    BY <1>3, <2>5 DEF q
<1> QED
  BY <1>6, <1>7, <1>8, Sizes

(* The types that the order of the blocks is about.                        *)
LEMMA BlockTypes ==
  ASSUME MantisInv, LatencyInv
  PROVE  /\ card.on \in BOOLEAN /\ card.pos \in Nat /\ card.pos < 16 * PerBlock
         /\ card.lap \in 0 .. 2
         /\ last_block \in 0 .. 15 /\ finished_block \in 0 .. 15
         /\ due.lap \in 0 .. 2 /\ due.block \in 0 .. 15 /\ past.late \in Nat /\ past.old \in Nat
         /\ mode.slack \in Nat /\ mode.slack < 7 * PerBlock /\ past.late <= mode.slack
<1>1. mode.slack \in Nat /\ mode.slack < 7 * PerBlock /\ past.late <= mode.slack
  BY Sizes DEF LatencyInv
<1>2. card \in CardRecord /\ last_block \in Blocks /\ finished_block \in Blocks
      /\ due \in DueRecord /\ past \in PastRecord
  BY DEF MantisInv, CardTypes, DriverTypes
<1>3. Blocks = 0 .. 15
  BY DEF Blocks, block_count
<1>4. card.pos \in Nat /\ card.pos < 16 * PerBlock
  BY <1>2, Sizes DEF CardRecord
<1> QED
  BY <1>1, <1>2, <1>3, <1>4 DEF CardRecord, DueRecord, PastRecord

(* After mantis_core_init.                                                 *)
LEMMA BlocksInit == Init => BlocksInv
<1> SUFFICES ASSUME Init PROVE BlocksInv
  OBVIOUS
<1>1. LatencyInv
  BY Sizes DEF Init, LatencyInv
<1>2. "RISCI" \notin reg.stat /\ "RISCI" \notin irq.bits /\ ~Pending
  BY DEF Init, Idle, Pending
<1>3. ReportInv
  BY <1>2 DEF Init, ReportInv
<1>4. StreamInv
  BY <1>2 DEF Init, StreamInv, FirstRound
<1> QED
  BY <1>1, <1>3, <1>4 DEF Init, InOrder, BlocksInv

(* What a step of the card does to its position within the ring.           *)
LEMMA Moves ==
  ASSUME MantisInv, LatencyInv, WriteLine
  PROVE  /\ card.pos = 0 => Up' /\ card'.pos = 1 /\ card'.lap = card.lap /\ ~Up
                            /\ Age = Half - 1 /\ Age' = 0
         /\ card.pos = Half => ~Up' /\ card'.pos = Half + 1 /\ card'.lap = card.lap /\ Up
                               /\ Age = Half - 1 /\ Age' = 0
         /\ card.pos # 0 /\ card.pos # Half =>
              /\ Up' = Up /\ Latest' = Latest /\ Age' = Age + 1
              /\ Written(0)' = Written(0)
              /\ card.pos = 16 * PerBlock - 1 => ~Up /\ Age = Half - 2
              /\ card.pos # 16 * PerBlock - 1 => card'.pos = card.pos + 1 /\ card'.lap = card.lap
<1>0. PerBlock \in Nat \ {0} /\ Half = 8 * PerBlock /\ line_count = 16 * PerBlock
  BY Sizes
<1>1. card.pos \in Nat /\ card.pos < 16 * PerBlock /\ card.lap \in 0 .. 2
  BY BlockTypes
<1>2. card \in CardRecord
  BY DEF MantisInv, CardTypes
<1>3. card.pos # 16 * PerBlock - 1 => card'.pos = card.pos + 1 /\ card'.lap = card.lap
  BY <1>0, <1>2 DEF WriteLine, CardRecord
<1>4. card.pos = 16 * PerBlock - 1 => card'.pos = 0 /\ card'.lap = (card.lap + 1) % 3
  BY <1>0, <1>2 DEF WriteLine, CardRecord
<1>5. Half' = Half
  BY DEF Half
<1>6. CASE card.pos = 0
  BY <1>0, <1>1, <1>3, <1>5, <1>6 DEF Up, Age
<1>7. CASE card.pos = Half
  BY <1>0, <1>1, <1>3, <1>5, <1>7 DEF Up, Age
<1>8. CASE card.pos # 0 /\ card.pos # Half /\ card.pos # 16 * PerBlock - 1
  BY <1>0, <1>1, <1>3, <1>5, <1>8 DEF Up, Age, Latest, Written
<1>9. CASE card.pos = 16 * PerBlock - 1
  <2>1. ~Up /\ ~Up' /\ Age = Half - 2 /\ Age' = Half - 1 /\ card.pos # 0 /\ card.pos # Half
    BY <1>0, <1>1, <1>4, <1>5, <1>9 DEF Up, Age
  <2>2. Written(0)' = Written(0)
    BY <1>0, <1>1, <1>4, <1>9 DEF Written
  <2>3. Age' = Age + 1
    BY <1>0, <2>1
  <2>4. Up' = Up /\ Latest' = Latest
    BY <2>1 DEF Latest, Up
  <2> QED
    BY <1>9, <2>1, <2>2, <2>3, <2>4
<1> QED
  BY <1>6, <1>7, <1>8, <1>9

(* A report that the tasklet is not done with keeps the card from going    *)
(* on for longer than the delay it is allowed.                             *)
LEMMA HeldBack ==
  ASSUME MantisInv, BlocksInv, WriteLine, Steady, Pending \/ last_block # finished_block
  PROVE  /\ Outstanding /\ Age + 1 <= past'.late /\ Age + 1 < 7 * PerBlock
         /\ past'.late = past.late + 1
<1>1. "RISCI" \in reg.stat => "RISCI" \in reg.stat \cap reg.mask
  BY DEF BlocksInv, LatencyInv, WriteLine
<1>2. "RISCI" \in irq.bits => irq.pc # "idle"
  BY DEF MantisInv, RisciInv
<1>3. Outstanding
  BY <1>1, <1>2 DEF BlocksInv, ReportInv, Pending, Outstanding, Busy
<1>4. Age <= past.late
  BY DEF BlocksInv, ReportInv
<1>5. past.late < mode.slack
  BY <1>3 DEF WriteLine
<1>6. past'.late = past.late + 1
  BY <1>3 DEF WriteLine, MantisInv, DriverTypes, PastRecord
<1>7. Age \in Int
  BY Sizes, BlockTypes DEF BlocksInv, Age
<1> QED
  BY <1>3, <1>4, <1>5, <1>6, <1>7, BlockTypes, Sizes DEF BlocksInv

(* The card writes a line.                                                 *)
LEMMA CardOrder ==
  ASSUME MantisInv, BlocksInv, WriteLine
  PROVE  BlocksInv'
<1>0. PerBlock \in Nat \ {0} /\ Half = 8 * PerBlock
  BY Sizes
<1>1. card.pos \in Lines /\ reg \in RegRecord /\ past \in PastRecord /\ card.on
  BY DEF MantisInv, CardTypes, DriverTypes, CardRecord, WriteLine
<1>2. /\ UNCHANGED <<mode, irq, last_block, finished_block, tasklet, ctl, due>>
      /\ given' = "none"
  BY DEF WriteLine
<1>3. /\ past'.raced = past.raced /\ past'.eaten = past.eaten /\ past'.warm = past.warm
      /\ past'.old = past.old /\ past'.late \in Nat /\ past'.late <= mode.slack
  <2>1. mode.slack \in Nat /\ past.late \in Nat
    BY BlockTypes DEF BlocksInv
  <2>2. Outstanding => past.late + 1 <= mode.slack
    BY <2>1 DEF WriteLine
  <2> QED
    BY <1>1, <2>1, <2>2 DEF WriteLine, PastRecord
<1>4. Steady' = Steady
  BY <1>2, <1>3 DEF Steady, Undisturbed
<1>5. card'.on
  BY <1>1 DEF WriteLine, MantisInv, CardTypes, CardRecord
<1>6. /\ reg'.mask = reg.mask
      /\ card.pos = 0 => "RISCI" \in reg'.stat /\ reg'.risc = 15
      /\ card.pos = Half => "RISCI" \in reg'.stat /\ reg'.risc = 7
      /\ card.pos # 0 /\ card.pos # Half => reg' = reg
  <2>1. CASE card.pos = 0
    <3>1. risc_program[card.pos] = {15}
      BY <1>1, <2>1, Program
    <3>2. (CHOOSE b \in {15} : TRUE) = 15
      OBVIOUS
    <3>3. reg' = [reg EXCEPT !.stat = @ \cup {"RISCI"}, !.risc = 15]
      BY <3>1, <3>2 DEF WriteLine
    <3> QED
      BY <1>0, <1>1, <2>1, <3>3 DEF RegRecord
  <2>2. CASE card.pos = Half
    <3>1. risc_program[card.pos] = {7}
      BY <1>0, <1>1, <2>2, Program
    <3>2. (CHOOSE b \in {7} : TRUE) = 7
      OBVIOUS
    <3>3. reg' = [reg EXCEPT !.stat = @ \cup {"RISCI"}, !.risc = 7]
      BY <3>1, <3>2 DEF WriteLine
    <3> QED
      BY <1>0, <1>1, <2>2, <3>3 DEF RegRecord
  <2>3. CASE card.pos # 0 /\ card.pos # Half
    BY <1>1, <2>3, Program DEF WriteLine
  <2> QED
    BY <2>1, <2>2, <2>3
<1>7. LatencyInv'
  BY <1>1, <1>2, <1>3, <1>6 DEF BlocksInv, LatencyInv
<1>8. InOrder'
  BY <1>2 DEF InOrder
<1>9. ASSUME Steady, card.pos = 0 \/ card.pos = Half
      PROVE  ~Pending /\ last_block = finished_block
  <2>1. ASSUME Pending \/ last_block # finished_block PROVE FALSE
    <3>1. Age + 1 < 7 * PerBlock
      BY <1>9, <2>1, HeldBack
    <3>2. Age = Half - 1
      BY <1>9, Moves DEF BlocksInv
    <3> QED
      BY <1>0, <3>1, <3>2
  <2> QED
    BY <2>1
<1>10. ASSUME Steady
       PROVE  ReportInv'
  <2>1. CASE card.pos = 0
    <3>1. Up' /\ Age' = 0
      BY <2>1, Moves DEF BlocksInv
    <3>2. Latest' = 15
      BY <3>1 DEF Latest
    <3>3. "RISCI" \notin irq.bits /\ last_block = finished_block
      BY <1>9, <1>10, <2>1 DEF Pending
    <3> QED
      BY <1>2, <1>3, <1>6, <1>10, <2>1, <3>1, <3>2, <3>3 DEF BlocksInv, ReportInv
  <2>2. CASE card.pos = Half
    <3>1. ~Up' /\ Age' = 0
      BY <2>2, Moves DEF BlocksInv
    <3>2. Latest' = 7
      BY <3>1 DEF Latest
    <3>3. "RISCI" \notin irq.bits /\ last_block = finished_block
      BY <1>9, <1>10, <2>2 DEF Pending
    <3> QED
      BY <1>2, <1>3, <1>6, <1>10, <2>2, <3>1, <3>2, <3>3 DEF BlocksInv, ReportInv
  <2>3. CASE card.pos # 0 /\ card.pos # Half
    <3>1. Latest' = Latest /\ Age' = Age + 1
      BY <2>3, Moves DEF BlocksInv
    <3>2. Pending' = Pending
      BY <1>2, <1>6, <2>3 DEF Pending
    <3>3. Pending \/ last_block # finished_block => Age' <= past'.late
      BY <1>10, <3>1, HeldBack
    <3> QED
      BY <1>2, <1>6, <1>10, <2>3, <3>1, <3>2, <3>3 DEF BlocksInv, ReportInv
  <2> QED
    BY <2>1, <2>2, <2>3
<1>11. ASSUME Steady, card.pos = 0
       PROVE  StreamInv'
  <2>0. Pending'
    BY <1>6, <1>11 DEF Pending
  <2>1. ~Pending /\ last_block = finished_block
    BY <1>9, <1>11
  <2>2. Up' /\ card'.pos = 1 /\ card'.lap = card.lap /\ ~Up
    BY <1>11, Moves DEF BlocksInv
  <2>3. CASE ~past.warm
    <3>1. FirstRound
      BY <1>11, <2>3 DEF BlocksInv, StreamInv
    <3>2. last_block = 0 /\ finished_block = 0
      BY <1>0, <1>11, <2>2, <3>1 DEF FirstRound
    <3>3. FirstRound'
      BY <1>2, <1>3, <2>0, <2>2, <3>1, <3>2 DEF FirstRound, Unserved
    <3> QED
      BY <1>3, <2>3, <3>3 DEF StreamInv
  <2>4. CASE past.warm
    <3>1. LaterRound
      BY <1>11, <2>4 DEF BlocksInv, StreamInv
    <3>2. last_block = 7
      BY <1>1, <2>1, <2>2, <3>1 DEF LaterRound, Unserved, Served, Latest
    <3>3. due.lap = Written(0)
      BY <2>2, <3>1, <3>2 DEF LaterRound
    <3>4. Written(0) = (card.lap + 2) % 3 /\ Written(0)' = card.lap
      BY <1>11, <2>2 DEF Written
    <3>5. LaterRound'
      BY <1>2, <1>3, <2>0, <2>1, <2>2, <3>1, <3>2, <3>3, <3>4 DEF LaterRound, Unserved
    <3> QED
      BY <1>3, <2>4, <3>5 DEF StreamInv
  <2> QED
    BY <2>3, <2>4
<1>12. ASSUME Steady, card.pos = Half
       PROVE  StreamInv'
  <2>0. Pending'
    BY <1>6, <1>12 DEF Pending
  <2>1. ~Pending /\ last_block = finished_block
    BY <1>9, <1>12
  <2>2. ~Up' /\ card'.pos = Half + 1 /\ card'.lap = card.lap /\ Up /\ Half' = Half
    BY <1>12, Moves DEF BlocksInv, Half
  <2>5. card'.pos > Half
    BY <1>0, <2>2
  <2>3. CASE ~past.warm
    <3>1. FirstRound
      BY <1>12, <2>3 DEF BlocksInv, StreamInv
    <3>2. last_block = 15 /\ finished_block = 15
      BY <1>0, <1>1, <1>12, <2>1, <2>2, <3>1 DEF FirstRound, Unserved, Served, Latest
    <3>3. FirstRound'
      BY <1>2, <1>3, <2>0, <2>2, <2>5, <3>1, <3>2 DEF FirstRound, Unserved
    <3> QED
      BY <1>3, <2>3, <3>3 DEF StreamInv
  <2>4. CASE past.warm
    <3>1. LaterRound
      BY <1>12, <2>4 DEF BlocksInv, StreamInv
    <3>2. last_block = 15
      BY <1>1, <2>1, <2>2, <3>1 DEF LaterRound, Unserved, Served, Latest
    <3>3. due.lap = (Written(0) + 2) % 3
      BY <2>2, <3>1, <3>2 DEF LaterRound
    <3>4. Written(0)' = Written(0)
      BY <1>0, <1>12, <2>2 DEF Written
    <3>5. LaterRound'
      BY <1>2, <1>3, <2>0, <2>1, <2>2, <3>1, <3>2, <3>3, <3>4 DEF LaterRound, Unserved
    <3> QED
      BY <1>3, <2>4, <3>5 DEF StreamInv
  <2> QED
    BY <2>3, <2>4
<1>13. ASSUME Steady, card.pos # 0, card.pos # Half
       PROVE  StreamInv'
  <2>0. Pending' = Pending
    BY <1>2, <1>6, <1>13 DEF Pending
  <2>1. Up' = Up /\ Latest' = Latest /\ Written(0)' = Written(0)
    BY <1>13, Moves DEF BlocksInv
  <2>2. \A b : Unserved(b) => Unserved(b)'
    BY <1>1, <1>2, <2>0 DEF Unserved
  <2>3. \A bs : Served(bs) => Served(bs)'
    BY <1>2, <2>0, <2>1 DEF Served
  <2>4. CASE ~past.warm
    <3>1. FirstRound
      BY <1>13, <2>4 DEF BlocksInv, StreamInv
    <3>2. card.pos # 16 * PerBlock - 1
      <4>1. ASSUME card.pos = 16 * PerBlock - 1 PROVE FALSE
        <5>1. ~Up /\ Age = Half - 2
          BY <1>13, <4>1, Moves DEF BlocksInv
        <5>2. Pending \/ last_block # finished_block
          BY <1>1, <1>13, <3>1, <5>1 DEF FirstRound, Unserved, Served, Latest
        <5>3. Age + 1 < 7 * PerBlock
          BY <1>13, <5>2, HeldBack
        <5> QED
          BY <1>0, <5>1, <5>3
      <4> QED
        BY <4>1
    <3>3. card'.pos = card.pos + 1 /\ card'.lap = card.lap
      BY <1>13, <3>2, Moves DEF BlocksInv
    <3>4. card.pos > Half => card'.pos > Half'
      BY <1>0, <3>3, BlockTypes DEF BlocksInv, Half
    <3>5. card.lap' = 0 /\ due' = Block0 /\ past'.old = last_block'
      BY <1>2, <1>3, <3>1, <3>3 DEF FirstRound
    <3>6. \/ Up' /\ (Unserved(0)' \/ Served(Blocks)')
          \/ card'.pos > Half' /\ (Unserved(15)' \/ Served({15})')
      BY <1>13, <2>1, <2>2, <2>3, <3>1, <3>4 DEF FirstRound
    <3>7. FirstRound'
      BY <3>5, <3>6 DEF FirstRound, Served
    <3> QED
      BY <1>3, <2>4, <3>7 DEF StreamInv
  <2>5. CASE past.warm
    <3>1. LaterRound
      BY <1>13, <2>5 DEF BlocksInv, StreamInv
    <3>2. LaterRound'
      BY <1>2, <1>3, <2>1, <2>2, <2>3, <3>1 DEF LaterRound
    <3> QED
      BY <1>3, <2>5, <3>2 DEF StreamInv
  <2> QED
    BY <2>4, <2>5
<1>14. ReportInv' /\ StreamInv'
  BY <1>4, <1>10, <1>11, <1>12, <1>13 DEF ReportInv, StreamInv
<1> QED
  BY <1>7, <1>8, <1>14 DEF BlocksInv

(* mantis_pci_irq.                                                         *)
LEMMA IrqOrder ==
  ASSUME MantisInv, BlocksInv, Irq
  PROVE  BlocksInv'
<1>0. reg \in RegRecord /\ tasklet \in TaskletRecord
  BY DEF MantisInv, CardTypes, DriverTypes
<1>1. UNCHANGED <<mode, card, last_block, ctl, due, given, past>>
  BY DEF Irq, IrqRead, IrqHandle
<1>2. /\ Steady' = Steady /\ Up' = Up /\ Latest' = Latest /\ Age' = Age
      /\ Written(0)' = Written(0) /\ Half' = Half /\ reg'.mask = reg.mask /\ reg'.risc = reg.risc
      /\ reg'.stat \subseteq reg.stat
  <2>1. reg'.mask = reg.mask /\ reg'.risc = reg.risc /\ reg'.stat \subseteq reg.stat
    BY <1>0 DEF Irq, IrqRead, IrqHandle, RegRecord
  <2> QED
    BY <1>1, <2>1 DEF Steady, Undisturbed, Up, Latest, Age, Written, Half
<1>3. LatencyInv' /\ InOrder'
  BY <1>1, <1>2 DEF BlocksInv, LatencyInv, InOrder, Undisturbed
<1>4. CASE ~Steady
  BY <1>2, <1>3, <1>4 DEF BlocksInv, ReportInv, StreamInv
<1>5. CASE Steady /\ IrqRead
  <2>1. irq'.bits = reg.stat /\ irq'.risc = reg.risc /\ UNCHANGED <<reg, finished_block, tasklet>>
    BY <1>5 DEF IrqRead
  <2>2. "RISCI" \notin irq.bits
    BY <1>5 DEF MantisInv, RisciInv, IrqRead
  <2>3. Pending' = Pending
    BY <2>1, <2>2 DEF Pending
  <2>4. ReportInv'
    BY <1>1, <1>2, <1>5, <2>1, <2>2, <2>3 DEF BlocksInv, ReportInv
  <2>5. StreamInv'
    BY <1>1, <1>2, <2>1, <2>3 DEF BlocksInv, StreamInv, FirstRound, LaterRound, Unserved, Served
  <2> QED
    BY <1>3, <2>4, <2>5 DEF BlocksInv
<1>6. CASE Steady /\ IrqHandle /\ "RISCI" \notin irq.bits
  <2>1. UNCHANGED <<finished_block, tasklet>> /\ irq'.bits = {}
    BY <1>6 DEF IrqHandle, Idle
  <2>2. "RISCI" \in reg'.stat <=> "RISCI" \in reg.stat
    BY <1>0, <1>6 DEF IrqHandle, RegRecord
  <2>3. Pending' = Pending
    BY <1>6, <2>1, <2>2 DEF Pending
  <2>4. ReportInv'
    BY <1>1, <1>2, <1>6, <2>1, <2>2, <2>3 DEF BlocksInv, ReportInv
  <2>5. StreamInv'
    BY <1>1, <1>2, <2>1, <2>3 DEF BlocksInv, StreamInv, FirstRound, LaterRound, Unserved, Served
  <2> QED
    BY <1>3, <2>4, <2>5 DEF BlocksInv
<1>7. CASE Steady /\ IrqHandle /\ "RISCI" \in irq.bits
  <2>1. finished_block' = Latest /\ tasklet'.sched /\ tasklet'.pc = tasklet.pc /\ irq'.bits = {}
    BY <1>0, <1>7 DEF IrqHandle, Idle, BlocksInv, ReportInv, TaskletRecord
  <2>2. "RISCI" \notin reg'.stat
    BY <1>0, <1>7 DEF IrqHandle, RegRecord
  <2>3. Pending /\ ~Pending'
    BY <1>7, <2>1, <2>2 DEF Pending
  <2>4. last_block = finished_block
    BY <1>7, <2>3 DEF BlocksInv, StreamInv, FirstRound, LaterRound, Unserved, Served
  <2>5. ReportInv'
    BY <1>1, <1>2, <1>7, <2>1, <2>2, <2>3, <2>4 DEF BlocksInv, ReportInv
  <2>6. StreamInv'
    <3>1. CASE ~past.warm
      <4>1. FirstRound
        BY <1>7, <3>1 DEF BlocksInv, StreamInv
      <4>2. \/ Up /\ last_block = 0
            \/ card.pos > Half /\ last_block = 15
        BY <2>3, <4>1 DEF FirstRound, Unserved, Served
      <4>3. 0 \in Blocks
        BY FirstLine
      <4>4. FirstRound'
        BY <1>1, <1>2, <2>1, <2>3, <4>1, <4>2, <4>3 DEF FirstRound, Served, Blocks, block_count
      <4> QED
        BY <1>1, <3>1, <4>4 DEF StreamInv
    <3>2. CASE past.warm
      <4>1. LaterRound
        BY <1>7, <3>2 DEF BlocksInv, StreamInv
      <4>2. \/ Up /\ last_block = 7
            \/ ~Up /\ last_block = 15
        BY <2>3, <4>1 DEF LaterRound, Unserved, Served
      <4>3. LaterRound'
        BY <1>1, <1>2, <2>1, <2>3, <4>1, <4>2 DEF LaterRound, Served
      <4> QED
        BY <1>1, <3>2, <4>3 DEF StreamInv
    <3> QED
      BY <3>1, <3>2
  <2> QED
    BY <1>3, <2>5, <2>6 DEF BlocksInv
<1> QED
  BY <1>4, <1>5, <1>6, <1>7 DEF Irq

(* The steps of mantis_dma_xfer between two blocks.                        *)
LEMMA LoopOrder ==
  ASSUME MantisInv, BlocksInv, TaskletRuns \/ Loop
  PROVE  BlocksInv'
<1>1. UNCHANGED <<mode, card, reg, irq, last_block, finished_block, ctl, due, given, past>>
  BY DEF TaskletRuns, Loop
<1>2. /\ tasklet'.pc = "filter" => last_block # finished_block
      /\ last_block # finished_block => tasklet'.sched \/ tasklet'.pc # "idle"
  BY DEF TaskletRuns, Loop, MantisInv, DriverTypes, TaskletRecord
<1>3. /\ Steady' = Steady /\ Up' = Up /\ Latest' = Latest /\ Age' = Age /\ Pending' = Pending
      /\ Written(0)' = Written(0) /\ Half' = Half
  BY <1>1 DEF Steady, Undisturbed, Up, Latest, Age, Pending, Written, Half
<1>4. LatencyInv' /\ InOrder'
  BY <1>1, <1>3 DEF BlocksInv, LatencyInv, InOrder, Undisturbed
<1>5. ReportInv'
  BY <1>1, <1>2, <1>3 DEF BlocksInv, ReportInv
<1>6. StreamInv'
  BY <1>1, <1>3 DEF BlocksInv, StreamInv, FirstRound, LaterRound, Unserved, Served
<1> QED
  BY <1>4, <1>5, <1>6 DEF BlocksInv

(* The block that the tasklet hands on is the one that is due, and the     *)
(* card has not come to it again.                                          *)
LEMMA HandedOnIsDue ==
  ASSUME MantisInv, BlocksInv, Steady, past.warm, tasklet.pc = "filter"
  PROVE  IsDue(last_block)
<1>0. PerBlock \in Nat \ {0} /\ Half = 8 * PerBlock
  BY Sizes
<1>1. last_block # finished_block /\ Age <= past.late /\ LaterRound
  BY DEF BlocksInv, ReportInv, StreamInv
<1>2. finished_block = Latest
  BY <1>1 DEF LaterRound, Unserved, Served
<1>3. /\ card.pos \in Nat /\ card.lap \in 0 .. 2 /\ last_block \in 0 .. 15
      /\ Age < 7 * PerBlock
  <2>1. Age \in Int
    BY Sizes, BlockTypes DEF BlocksInv, Age
  <2> QED
    BY <1>1, <2>1, BlockTypes, Sizes DEF BlocksInv
<1>4. SUFFICES ASSUME NEW x \in last_block * PerBlock .. (last_block + 1) * PerBlock - 1
               PROVE  Written(x) = due.lap
  BY <1>1 DEF IsDue, LaterRound
<1>5. x \in Int /\ last_block * PerBlock <= x /\ x < (last_block + 1) * PerBlock
  BY <1>0, <1>3
<1>6. CASE Up
  <2>1. last_block >= 7 /\ due.lap = (Written(0) + 2) % 3 /\ Written(0) = card.lap
    BY <1>1, <1>3, <1>6, <1>0 DEF LaterRound, Unserved, Served, Written, Up
  <2>2. card.pos <= 7 * PerBlock
    BY <1>0, <1>3, <1>6 DEF Age, Up
  <2>3. 7 * PerBlock <= last_block * PerBlock
    <3>1. (last_block - 7) * PerBlock >= 0
      BY <1>0, <1>3, <2>1
    <3> QED
      BY <1>0, <1>3, <3>1
  <2>4. ~(x < card.pos)
    BY <1>0, <1>3, <1>5, <2>2, <2>3
  <2> QED
    BY <2>1, <2>4 DEF Written
<1>7. CASE ~Up
  <2>1. card.pos > Half /\ card.pos <= 15 * PerBlock
    <3>1. card.pos # 0
      BY <1>0, <1>3, <1>7 DEF Age
    <3>2. card.pos > Half
      BY <1>0, <1>3, <1>7, <3>1 DEF Up
    <3>3. Age = card.pos - 1 - Half
      BY <1>7, <3>1 DEF Age
    <3> QED
      BY <1>0, <1>3, <3>2, <3>3
  <2>2. Written(0) = card.lap
    BY <1>0, <1>3, <2>1 DEF Written
  <2>3. last_block = 15 \/ last_block \in 0 .. 6
    BY <1>1, <1>2, <1>7 DEF LaterRound, Unserved, Served, Latest
  <2>4. CASE last_block = 15
    <3>1. ~(x < card.pos)
      BY <1>0, <1>3, <1>5, <2>1, <2>4
    <3>2. due.lap = (card.lap + 2) % 3
      BY <1>1, <2>2, <2>4 DEF LaterRound
    <3> QED
      BY <3>1, <3>2 DEF Written
  <2>5. CASE last_block \in 0 .. 6
    <3>1. (last_block + 1) * PerBlock <= 7 * PerBlock
      <4>1. (6 - last_block) * PerBlock >= 0
        BY <1>0, <2>5
      <4> QED
        BY <1>0, <2>5, <4>1
    <3>2. x < card.pos
      BY <1>0, <1>3, <1>5, <2>1, <3>1
    <3>3. due.lap = card.lap
      BY <1>1, <1>7, <2>2, <2>5 DEF LaterRound
    <3> QED
      BY <3>2, <3>3 DEF Written
  <2> QED
    BY <2>3, <2>4, <2>5
<1> QED
  BY <1>6, <1>7

(* The tasklet has handed on a block.                                      *)
LEMMA FilteredOrder ==
  ASSUME MantisInv, BlocksInv, Filtered
  PROVE  BlocksInv'
<1>0. past \in PastRecord /\ tasklet \in TaskletRecord /\ due \in DueRecord
  BY DEF MantisInv, DriverTypes
<1>1. UNCHANGED <<mode, card, reg, irq, finished_block, ctl>> /\ tasklet.pc = "filter"
  BY DEF Filtered
<1>2. /\ past'.raced = past.raced /\ past'.eaten = past.eaten /\ past'.late = past.late
      /\ past'.warm = (past.warm \/ last_block = 15)
      /\ past'.old = IF past.warm \/ past.eaten THEN past.old ELSE past.old + 1
  BY <1>0 DEF Filtered, PastRecord, block_count
<1>3. /\ Steady' = Steady /\ Undisturbed' = Undisturbed /\ Up' = Up /\ Latest' = Latest
      /\ Age' = Age /\ Pending' = Pending /\ Written(0)' = Written(0) /\ Half' = Half
  BY <1>1, <1>2 DEF Steady, Undisturbed, Up, Latest, Age, Pending, Written, Half
<1>4. LatencyInv'
  BY <1>1, <1>2 DEF BlocksInv, LatencyInv
<1>5. CASE ~Steady
  <2>1. Undisturbed => given' = "any"
    BY <1>5 DEF Filtered, Steady
  <2> QED
    BY <1>3, <1>4, <1>5, <2>1 DEF BlocksInv, ReportInv, StreamInv, InOrder
<1>6. CASE Steady
  <2>1. last_block # finished_block /\ Age <= past.late
    BY <1>1, <1>6 DEF BlocksInv, ReportInv
  <2>2. tasklet'.pc = "loop"
    BY <1>0 DEF Filtered, TaskletRecord
  <2>3. last_block \in 0 .. 15 /\ past.old \in Nat /\ finished_block \in 0 .. 15
        /\ last_block' = IF last_block = 15 THEN 0 ELSE last_block + 1
    <3>1. last_block \in 0 .. 15 /\ past.old \in Nat /\ finished_block \in 0 .. 15
      BY BlockTypes DEF BlocksInv
    <3> QED
      BY <3>1 DEF Filtered, block_count
  <2>4. ReportInv'
    <3>1. ~Pending
      BY <1>6, <2>1 DEF BlocksInv, StreamInv, FirstRound, LaterRound, Unserved, Served
    <3>2. "RISCI" \notin reg.stat /\ "RISCI" \notin irq.bits
      BY <3>1 DEF Pending
    <3> QED
      BY <1>1, <1>2, <1>3, <2>1, <2>2, <3>2 DEF ReportInv
  <2>5. ~past.eaten
    BY <1>6 DEF Steady
  <2>6. CASE ~past.warm
    <3>1. FirstRound
      BY <1>6, <2>6 DEF BlocksInv, StreamInv
    <3>2. given' = "old" /\ due' = due
      BY <2>5, <2>6 DEF Filtered
    <3>3. past'.old = last_block + 1
      BY <1>2, <2>5, <2>6, <3>1 DEF FirstRound
    <3>4. ~Pending /\ finished_block = Latest
          /\ (Up \/ (card.pos > Half /\ last_block = 15))
      BY <2>1, <3>1 DEF FirstRound, Unserved, Served
    <3>5. CASE last_block = 15
      <4>1. card.pos > Half /\ ~Up
        BY <2>1, <3>4, <3>5 DEF Latest
      <4>2. Written(0) = 0
        BY <3>1, <4>1, Sizes, BlockTypes DEF FirstRound, Written, BlocksInv
      <4>3. due.lap = 0 /\ due.block = 0
        BY <3>1 DEF FirstRound, Block0
      <4>4. LaterRound'
        BY <1>1, <1>3, <2>3, <3>2, <3>3, <3>4, <3>5, <4>1, <4>2, <4>3
           DEF LaterRound, Served, block_count
      <4> QED
        BY <1>2, <1>4, <2>4, <3>2, <3>5, <4>4 DEF BlocksInv, StreamInv, InOrder
    <3>6. CASE last_block # 15
      <4>1. last_block' \in Blocks /\ last_block' = last_block + 1
        BY <2>3, <3>6 DEF Blocks, block_count
      <4>2. FirstRound'
        BY <1>1, <1>3, <3>1, <3>2, <3>3, <3>4, <3>6, <4>1 DEF FirstRound, Served, Blocks
      <4> QED
        BY <1>2, <1>4, <2>4, <2>6, <3>2, <3>6, <4>2 DEF BlocksInv, StreamInv, InOrder
    <3> QED
      BY <3>5, <3>6
  <2>7. CASE past.warm
    <3>1. LaterRound
      BY <1>6, <2>7 DEF BlocksInv, StreamInv
    <3>2. given' = "due"
      BY <1>1, <1>6, <2>5, <2>7, HandedOnIsDue DEF Filtered
    <3>3. due.block = last_block /\ due.lap \in 0 .. 2
      BY <3>1, BlockTypes DEF LaterRound, BlocksInv
    <3>4. /\ due'.lap = IF last_block = 15 THEN (due.lap + 1) % 3 ELSE due.lap
          /\ due'.block = last_block'
      BY <3>2, <3>3 DEF Filtered, block_count
    <3>5. ~Pending /\ finished_block = Latest
      BY <2>1, <3>1 DEF LaterRound, Unserved, Served
    <3>6. past'.warm /\ past'.old = block_count
      BY <1>2, <2>7, <3>1 DEF LaterRound
    <3>7. CASE Up
      <4>1. last_block \in 7 .. 14
        BY <2>1, <2>3, <3>1, <3>7 DEF LaterRound, Unserved, Served, Latest
      <4>2. last_block' \in 7 .. 15 /\ due'.lap = due.lap
        BY <2>3, <3>4, <4>1
      <4>3. due.lap = (Written(0) + 2) % 3
        BY <3>1, <3>7 DEF LaterRound
      <4>4. LaterRound'
        BY <1>1, <1>3, <3>4, <3>5, <3>6, <3>7, <4>2, <4>3 DEF LaterRound, Served
      <4> QED
        BY <1>4, <2>4, <3>2, <3>6, <4>4 DEF BlocksInv, StreamInv, InOrder
    <3>8. CASE ~Up
      <4>1. last_block = 15 \/ last_block \in 0 .. 6
        BY <2>1, <2>3, <3>1, <3>8 DEF LaterRound, Unserved, Served, Latest
      <4>2. last_block' \in 0 .. 7
        BY <2>3, <4>1
      <4>3. due'.lap = Written(0)
        <5>1. CASE last_block = 15
          <6>1. due.lap = (Written(0) + 2) % 3 /\ Written(0) \in 0 .. 2
            BY <3>1, <5>1, BlockTypes DEF LaterRound, Written, BlocksInv
          <6> QED
            BY <3>4, <5>1, <6>1
        <5>2. CASE last_block \in 0 .. 6
          BY <3>1, <3>4, <3>8, <5>2 DEF LaterRound
        <5> QED
          BY <4>1, <5>1, <5>2
      <4>4. LaterRound'
        BY <1>1, <1>3, <3>4, <3>5, <3>6, <3>8, <4>2, <4>3 DEF LaterRound, Served
      <4> QED
        BY <1>4, <2>4, <3>2, <3>6, <4>4 DEF BlocksInv, StreamInv, InOrder
    <3> QED
      BY <3>7, <3>8
  <2> QED
    BY <2>6, <2>7
<1> QED
  BY <1>5, <1>6

(* Steps that leave the DMA, the handler's numbers and the tasklet alone;  *)
(* a report may be lost only where the card is off.                        *)
LEMMA AsideOrder ==
  ASSUME BlocksInv, UNCHANGED <<mode, irq, last_block, finished_block, tasklet, due, given>>,
         ctl' = "started" <=> ctl = "started",
         card'.pos = card.pos, card'.lap = card.lap, card'.on => card.on,
         past'.raced = past.raced, past'.eaten = past.eaten, past'.warm = past.warm,
         past'.old = past.old, past'.late = past.late,
         reg'.risc = reg.risc, "RISCI" \in reg'.stat => "RISCI" \in reg.stat,
         card'.on => "RISCI" \in reg'.mask,
         Pending' = Pending \/ ~card'.on
  PROVE  BlocksInv'
<1>1. /\ Steady' = Steady /\ Undisturbed' = Undisturbed /\ Up' = Up /\ Latest' = Latest
      /\ Age' = Age /\ Written(0)' = Written(0) /\ Half' = Half
  BY DEF Steady, Undisturbed, Up, Latest, Age, Written, Half
<1>2. LatencyInv' /\ InOrder'
  BY <1>1 DEF BlocksInv, LatencyInv, InOrder
<1>3. Pending' => Pending
  BY DEF Pending
<1>4. ReportInv'
  BY <1>1, <1>3 DEF BlocksInv, ReportInv
<1>5. \A b : Unserved(b) => Unserved(b)'
  BY <1>3 DEF Unserved
<1>6. \A bs : Served(bs) => Served(bs)'
  BY <1>1, <1>3 DEF Served
<1>7. FirstRound => FirstRound'
  <2> SUFFICES ASSUME FirstRound PROVE FirstRound'
    OBVIOUS
  <2>1. card'.lap = 0 /\ due' = Block0 /\ past'.old = last_block'
    BY DEF FirstRound
  <2>2. \/ card'.pos = 0 /\ ~Pending' /\ last_block' = 0 /\ finished_block' = 0
        \/ Up' /\ (Unserved(0)' \/ Served(Blocks)')
        \/ card'.pos > Half' /\ (Unserved(15)' \/ Served({15})')
    BY <1>1, <1>3, <1>5, <1>6 DEF FirstRound
  <2> QED
    BY <2>1, <2>2 DEF FirstRound, Served
<1>8. LaterRound => LaterRound'
  BY <1>1, <1>5, <1>6 DEF LaterRound
<1>9. StreamInv'
  BY <1>1, <1>7, <1>8 DEF BlocksInv, StreamInv
<1> QED
  BY <1>2, <1>4, <1>9 DEF BlocksInv

(* Starting, stopping and removing.                                        *)
LEMMA ControlOrder ==
  ASSUME MantisInv, StartedInv, BlocksInv, Control
  PROVE  BlocksInv'
<1>0. card \in CardRecord /\ reg \in RegRecord /\ past \in PastRecord
      /\ tasklet \in TaskletRecord
  BY DEF MantisInv, CardTypes, DriverTypes
<1>1. CASE Start
  <2>1. ~Undisturbed' /\ ~Steady'
    BY <1>1 DEF Start, Steady, Undisturbed
  <2>2. LatencyInv'
    BY <1>0, <1>1 DEF BlocksInv, LatencyInv, Start, PastRecord
  <2> QED
    BY <2>1, <2>2 DEF BlocksInv, ReportInv, StreamInv, InOrder
<1>2. CASE StartEngine
  <2>1. /\ past'.raced = (past.raced \/ Busy) /\ ~past'.warm /\ past'.old = 0 /\ past'.late = 0
        /\ UNCHANGED <<mode, irq, finished_block, tasklet>> /\ last_block' = 0 /\ due' = Block0
        /\ given' = "none" /\ card'.pos = 0 /\ card'.lap = 0 /\ "RISCI" \in reg'.mask
        /\ reg'.stat = reg.stat
    BY <1>0, <1>2 DEF StartEngine, PastRecord, RegRecord
  <2>2. LatencyInv'
    BY <2>1, Sizes DEF BlocksInv, LatencyInv
  <2>3. InOrder'
    BY <2>1 DEF InOrder
  <2>4. CASE ~Steady'
    BY <2>2, <2>3, <2>4 DEF BlocksInv, ReportInv, StreamInv
  <2>5. CASE Steady'
    <3>1. irq.pc = "idle" /\ tasklet.pc = "idle" /\ ~past.raced
      BY <2>1, <2>5 DEF Steady, Undisturbed, Busy
    <3>2. "RISCI" \notin reg.stat /\ "RISCI" \notin irq.bits
      BY <1>2, <3>1 DEF MantisInv, RisciInv, StartEngine, StartedInv
    <3>3. ~Pending'
      BY <2>1, <3>2 DEF Pending
    <3>4. finished_block = 0
      BY <1>2, <3>1 DEF StartedInv, StartEngine
    <3>5. ReportInv'
      BY <2>1, <3>1, <3>2, <3>3, <3>4 DEF ReportInv
    <3>6. StreamInv'
      BY <2>1, <3>3, <3>4 DEF StreamInv, FirstRound
    <3> QED
      BY <2>2, <2>3, <3>5, <3>6 DEF BlocksInv
  <2> QED
    BY <2>4, <2>5
<1>3. CASE Stop \/ StopEnd \/ Remove \/ FreeBuffer \/ Kill
  <2>1. /\ UNCHANGED <<mode, irq, last_block, finished_block, tasklet, due, given>>
        /\ ctl' # "started" /\ ctl # "started"
    BY <1>3 DEF Stop, StopEnd, Remove, FreeBuffer, Kill
  <2>2. /\ card'.pos = card.pos /\ card'.lap = card.lap /\ (card'.on => card.on)
        /\ past'.raced = past.raced /\ past'.eaten = past.eaten /\ past'.warm = past.warm
        /\ past'.old = past.old /\ past'.late = past.late /\ reg'.risc = reg.risc
        /\ ("RISCI" \in reg'.stat => "RISCI" \in reg.stat)
    BY <1>0, <1>3 DEF Stop, StopEnd, Remove, FreeBuffer, Kill, CardRecord, RegRecord, PastRecord
  <2>3. ~card'.on
    BY <1>0, <1>3 DEF MantisInv, RemovalInv, Leaving, StartedInv, Stop, StopEnd, Remove, FreeBuffer, Kill,
       CardRecord
  <2> QED
    BY <2>1, <2>2, <2>3, AsideOrder
<1> QED
  BY <1>1, <1>2, <1>3 DEF Control

(* The I2C bus.  If it clears a report that the handler has not read, the  *)
(* order is given up (past.eaten).                                         *)
LEMMA I2cOrder ==
  ASSUME MantisInv, BlocksInv, I2c
  PROVE  BlocksInv'
<1>0. reg \in RegRecord /\ past \in PastRecord /\ i2c \in I2cRecord
  BY DEF MantisInv, CardTypes, DriverTypes
<1>1. /\ UNCHANGED <<mode, card, irq, last_block, finished_block, tasklet, ctl, given>>
      /\ reg'.risc = reg.risc /\ reg'.mask = reg.mask
      /\ ("RISCI" \in reg'.stat => "RISCI" \in reg.stat)
  BY <1>0 DEF I2c, I2cPage, I2cClear, I2cSend, I2cWaited, I2cDone, RegRecord
<1>2. card'.on => "RISCI" \in reg'.mask
  BY <1>1 DEF BlocksInv, LatencyInv
<1>3. CASE I2cPage \/ I2cSend \/ I2cWaited \/ I2cDone
  <2>1. UNCHANGED <<due, past>>
    BY <1>3 DEF I2cPage, I2cSend, I2cWaited, I2cDone
  <2>2. "RISCI" \in reg'.stat <=> "RISCI" \in reg.stat
    BY <1>0, <1>3 DEF I2cPage, I2cSend, I2cWaited, I2cDone, RegRecord
  <2>3. Pending' = Pending
    BY <1>1, <2>2 DEF Pending
  <2> QED
    BY <1>1, <1>2, <2>1, <2>3, AsideOrder
<1>4. CASE I2cClear
  <2>1. /\ past'.raced = past.raced /\ past'.warm = past.warm
        /\ past'.old = past.old /\ past'.late = past.late
        /\ past'.eaten = (past.eaten \/ "RISCI" \in (i2c.bits \cap reg.stat) \ irq.bits)
    BY <1>0, <1>4 DEF I2cClear, PastRecord
  <2>2. CASE past'.eaten
    <3>1. ~Steady' /\ Undisturbed' = Undisturbed
      BY <1>1, <2>1, <2>2 DEF Steady, Undisturbed
    <3>2. LatencyInv' /\ InOrder'
      BY <1>1, <1>2, <2>1, <3>1 DEF BlocksInv, LatencyInv, InOrder
    <3> QED
      BY <3>1, <3>2 DEF BlocksInv, ReportInv, StreamInv
  <2>3. CASE ~past'.eaten
    <3>1. due' = due /\ ~past.eaten
      BY <1>4, <2>1, <2>3 DEF I2cClear
    <3>2. reg'.stat = reg.stat \ i2c.bits
      BY <1>0, <1>4 DEF I2cClear, RegRecord
    <3>3. ~("RISCI" \in i2c.bits /\ "RISCI" \in reg.stat /\ "RISCI" \notin irq.bits)
      BY <2>1, <2>3
    <3>4. "RISCI" \in reg'.stat \/ "RISCI" \in irq.bits
          <=> "RISCI" \in reg.stat \/ "RISCI" \in irq.bits
      BY <3>2, <3>3
    <3>5. Pending' = Pending
      BY <1>1, <3>4 DEF Pending
    <3>6. past'.eaten = past.eaten
      <4>1. past.eaten = FALSE
        BY <1>0, <3>1 DEF PastRecord
      <4>2. past'.eaten = FALSE
        BY <2>1, <3>3, <4>1
      <4> QED
        BY <4>1, <4>2
    <3> QED
      BY <1>1, <1>2, <2>1, <3>1, <3>5, <3>6, AsideOrder
  <2> QED
    BY <2>2, <2>3
<1> QED
  BY <1>3, <1>4 DEF I2c

(* Doing nothing.                                                          *)
LEMMA BlocksStutter ==
  ASSUME BlocksInv, UNCHANGED vars
  PROVE  BlocksInv'
<1>1. Pending' = Pending
  BY DEF vars, Pending
<1>2. card.on => "RISCI" \in reg.mask
  BY DEF BlocksInv, LatencyInv
<1> QED
  BY <1>1, <1>2, AsideOrder DEF vars

(* No interrupt comes between the halves of mantis_dma_start.              *)
LEMMA StartedKept ==
  ASSUME MantisInv, StartedInv, [Next]_vars
  PROVE  StartedInv'
<1>0. card \in CardRecord /\ past \in PastRecord /\ irq \in IrqRecord
  BY DEF MantisInv, CardTypes, DriverTypes
<1>1. CASE WriteLine
  BY <1>0, <1>1 DEF StartedInv, WriteLine
<1>2. CASE IrqRead
  BY <1>0, <1>2 DEF StartedInv, IrqRead, MantisInv, RisciInv
<1>3. CASE IrqHandle
  BY <1>0, <1>3 DEF StartedInv, IrqHandle, Idle
<1>4. CASE TaskletRuns \/ Loop \/ FreeBuffer \/ Kill \/ UNCHANGED vars
  BY <1>4 DEF StartedInv, TaskletRuns, Loop, FreeBuffer, Kill, vars
<1>5. CASE Filtered
  <2>1. past'.raced = past.raced
    BY <1>0, <1>5 DEF Filtered, PastRecord
  <2> QED
    BY <1>5, <2>1 DEF StartedInv, Filtered
<1>6. CASE Start
  <2>1. past'.raced = Busy
    BY <1>0, <1>6 DEF Start, PastRecord
  <2>2. ~Busy => "RISCI" \notin irq.bits
    BY DEF Busy, MantisInv, RisciInv
  <2> QED
    BY <1>6, <2>1, <2>2 DEF StartedInv, Start
<1>7. CASE StartEngine \/ StopEnd
  BY <1>7 DEF StartedInv, StartEngine, StopEnd
<1>8. CASE Stop
  BY <1>0, <1>8 DEF StartedInv, Stop, CardRecord
<1>9. CASE Remove
  BY <1>9 DEF StartedInv, Remove
<1>10. CASE I2c
  <2>1. UNCHANGED <<card, irq, finished_block, ctl>> /\ past'.raced = past.raced
    BY <1>0, <1>10 DEF I2c, I2cPage, I2cClear, I2cSend, I2cWaited, I2cDone, PastRecord
  <2> QED
    BY <2>1 DEF StartedInv
<1> QED
  BY <1>1, <1>2, <1>3, <1>4, <1>5, <1>6, <1>7, <1>8, <1>9, <1>10
     DEF Next, Irq, Tasklet, Control

(* Old blocks are handed on only in the first round of the tasklet.        *)
LEMMA OldCounted == BlocksInv => OldOnce
BY DEF BlocksInv, StreamInv, Steady, LaterRound, OldOnce

-----------------------------------------------------------------------------
(* The tasklet hands on the blocks of a run of the DMA each once, in       *)
(* order, whole and before the card comes to them again, and old blocks    *)
(* only once, for every buffer whose blocks are whole lines and every      *)
(* delay below seven blocks: with a delay of seven blocks the first line   *)
(* of the oldest block is overwritten before it is handed on.              *)
THEOREM HandsOnAlways == Spec => []HandsOnStream
<1>1. Init => OrderInv
  BY BlocksInit DEF Init, OrderInv, StartedInv
<1>2. MantisInv /\ OrderInv /\ [Next]_vars => OrderInv'
  BY StartedKept, CardOrder, IrqOrder, LoopOrder, FilteredOrder, ControlOrder, I2cOrder,
     BlocksStutter DEF Next, Tasklet, OrderInv
<1>3. OrderInv => InOrder /\ OldOnce
  BY OldCounted DEF OrderInv, BlocksInv
<1>4. TypeOK /\ OrderInv => HandsOnStream
  BY <1>3 DEF HandsOnStream
<1> QED
  BY <1>1, <1>2, <1>4, MantisSafe, InRing, PTL DEF Spec
=============================================================================
