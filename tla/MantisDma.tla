------------------------------ MODULE MantisDma ------------------------------
(***************************************************************************)
(* How the Mantis card's stream gets from DMA to the demux                 *)
(* (mantis/mantis_dma.c, the handler in mantis_pci.c) while its I2C bus    *)
(* (mantis_i2c.c) uses the same interrupt registers.                       *)
(*                                                                         *)
(* The card writes lines into a ring of blocks, following a program of one *)
(* instruction per line; some raise RISCI with a block number in RISCSTAT. *)
(* The handler stores that number, the tasklet hands on all blocks before  *)
(* it.  Feeds start and stop the DMA (DemuxFeeds: start_feed, stop_feed).  *)
(*                                                                         *)
(* What a line holds is not stored: the lines before pos were written in   *)
(* this lap, the others in the one before, or before the DMA was started.  *)
(* Laps are counted modulo 3.                                              *)
(***************************************************************************)
EXTENDS Integers, FiniteSets

CONSTANTS
  BufSize,      \* bytes of the DMA buffer
  Modes         \* records with the fields
                \*   slack: lines the card may write while an interrupt or
                \*     the tasklet is outstanding
                \*   i2c: the I2C bus is in use
                \*   restart: the DMA is stopped and started again
                \*   remove: the module is removed

ASSUME MantisConstants ==
  /\ BufSize \in Nat \ {0} /\ BufSize % 16 = 0
  /\ \A m \in Modes : m.slack \in Nat /\ {m.i2c, m.restart, m.remove} \subseteq BOOLEAN

(* mantis_calc_lines                                                       *)
block_count == 16
block_bytes == BufSize \div 16
Halved[n \in Nat] == IF n > 4095 THEN Halved[n \div 2] ELSE n
line_bytes == Halved[block_bytes]
PerBlock == block_bytes \div line_bytes
line_count == block_count * PerBlock

(* What the loop of mantis_calc_lines ends with.                           *)
ASSUME MantisLines == line_bytes \in Nat \ {0} /\ PerBlock \in Nat \ {0}

(* Blocks are cut into whole lines, as the sizes of the code are, and the  *)
(* interrupt and the tasklet are served before the card comes to the       *)
(* blocks they are about: seven blocks after the line that reports them.   *)
ASSUME MantisLatency ==
  /\ PerBlock * line_bytes = block_bytes /\ line_bytes >= 8
  /\ \A m \in Modes : m.slack < 7 * PerBlock

Blocks == 0 .. block_count - 1
Lines == 0 .. line_count - 1

(* One interrupt per lap instead of two.                                   *)
risc_program_once ==
  [line \in Lines |-> LET buf_pos == line * line_bytes IN
     IF (buf_pos \div 16) % block_bytes = 0
     THEN {(buf_pos \div block_bytes + block_count - 1) % block_count} ELSE {}]

(* The block that is being written reported as finished.                   *)
risc_program_ahead ==
  [line \in Lines |-> LET buf_pos == line * line_bytes IN
     IF (buf_pos \div 8) % block_bytes = 0
     THEN {(buf_pos \div block_bytes + 1) % block_count} ELSE {}]

(* mantis_risc_program: per line the block it reports, if any.             *)
risc_program ==
  [line \in Lines |-> LET buf_pos == line * line_bytes IN
     IF (buf_pos \div 8) % block_bytes = 0
     THEN {(buf_pos \div block_bytes + block_count - 1) % block_count} ELSE {}]

VARIABLES
  mode,
  card,         \* the card: on, pos (the next line), lap
  reg,          \* INT_STAT and INT_MASK, sets of bits; risc: RISCSTAT
  irq,          \* the handler: what it has read
  last_block, finished_block,
  tasklet,      \* sched: TASKLET_STATE_SCHED; pc: idle, loop, filter
  ctl,          \* the process that starts, stops or removes: where it is
  i2c,          \* the I2C transfer: where it is, the INT_STAT it read, and
                \*   racked: I2CRACK in mantis_int_stat
  freed,        \* buf_cpu has been freed
  due,          \* history: the block of this run that is to be handed on next
  given,        \* history: what the tasklet has just handed on
  past          \* history: eaten, an interrupt was cleared unseen; raced, the
                \*   handler or the tasklet was at work when this run of the DMA began;
                \*   backlog, it was outstanding when the removal began;
                \*   warm, it has been through the ring once in this run;
                \*   old, blocks handed on before that; late, lines written
                \*   since it is outstanding

vars == <<mode, card, reg, irq, last_block, finished_block, tasklet, ctl, i2c, freed,
          due, given, past>>

Block0 == [lap |-> 0, block |-> 0]
Idle == [pc |-> "idle", bits |-> {}, risc |-> 0]

(* After mantis_core_init.                                                 *)
Init ==
  /\ mode \in Modes
  /\ card = [on |-> FALSE, pos |-> 0, lap |-> 0]
  /\ reg = [stat |-> {}, mask |-> {"I2CDONE"}, risc |-> 0]
  /\ irq = Idle
  /\ last_block = 0 /\ finished_block = 0
  /\ tasklet = [sched |-> FALSE, pc |-> "idle"]
  /\ ctl = "idle"
  /\ i2c = [pc |-> "idle", bits |-> {}, racked |-> FALSE]
  /\ freed = FALSE
  /\ due = Block0 /\ given = "none"
  /\ past = [eaten |-> FALSE, raced |-> FALSE, backlog |-> FALSE, warm |-> FALSE,
             old |-> 0, late |-> 0]

-----------------------------------------------------------------------------
(* The card                                                                *)

Busy == irq.pc # "idle" \/ tasklet.pc # "idle"

Outstanding ==
  "RISCI" \in reg.stat \cap reg.mask \/ Busy \/ tasklet.sched

WriteLine ==
  /\ card.on
  /\ Outstanding => past.late < mode.slack
  /\ LET last == card.pos = line_count - 1 IN
     card' = [card EXCEPT !.pos = IF last THEN 0 ELSE @ + 1,
                          !.lap = IF last THEN (@ + 1) % 3 ELSE @]
  /\ reg' = IF risc_program[card.pos] = {} THEN reg
            ELSE [reg EXCEPT !.stat = @ \cup {"RISCI"},
                             !.risc = CHOOSE b \in risc_program[card.pos] : TRUE]
  /\ given' = "none"
  /\ past' = [past EXCEPT !.late = IF Outstanding THEN @ + 1 ELSE 0]
  /\ UNCHANGED <<mode, irq, last_block, finished_block, tasklet, ctl, i2c, freed, due>>

(* The slave answers, or only the end of the transfer is reported.         *)
I2cDone ==
  /\ i2c.pc = "wait" /\ "I2CDONE" \notin reg.stat
  /\ \E acked \in BOOLEAN :
       reg' = [reg EXCEPT !.stat = @ \cup {"I2CDONE"} \cup (IF acked THEN {"I2CRACK"} ELSE {})]
  /\ UNCHANGED <<mode, card, irq, last_block, finished_block, tasklet, ctl, i2c, freed, due, given, past>>

-----------------------------------------------------------------------------
(* mantis_pci_irq                                                          *)

IrqRead ==
  /\ irq.pc = "idle" /\ reg.stat \cap reg.mask # {}
  /\ irq' = [pc |-> "seen", bits |-> reg.stat, risc |-> reg.risc]
  /\ UNCHANGED <<mode, card, reg, last_block, finished_block, tasklet, ctl, i2c, freed, due, given, past>>

(* The bits looked at once instead of in a loop, I2CRACK first.            *)
IrqHandleOne ==
  /\ irq.pc = "seen" /\ irq' = Idle
  /\ reg' = [reg EXCEPT !.stat = @ \ irq.bits]
  /\ IF "RISCI" \in irq.bits /\ "I2CRACK" \notin irq.bits
     THEN finished_block' = irq.risc /\ tasklet' = [tasklet EXCEPT !.sched = TRUE]
     ELSE UNCHANGED <<finished_block, tasklet>>
  /\ i2c' = [i2c EXCEPT !.racked = IF {"I2CRACK", "I2CDONE"} \cap irq.bits = {} THEN @
                                    ELSE "I2CRACK" \in irq.bits]
  /\ UNCHANGED <<mode, card, last_block, ctl, freed, due, given, past>>

IrqHandle ==
  /\ irq.pc = "seen" /\ irq' = Idle
  /\ reg' = [reg EXCEPT !.stat = @ \ irq.bits]
  /\ IF "RISCI" \in irq.bits
     THEN finished_block' = irq.risc /\ tasklet' = [tasklet EXCEPT !.sched = TRUE]
     ELSE UNCHANGED <<finished_block, tasklet>>
  /\ i2c' = [i2c EXCEPT !.racked = IF {"I2CRACK", "I2CDONE"} \cap irq.bits = {} THEN @
                                    ELSE "I2CRACK" \in irq.bits]
  /\ UNCHANGED <<mode, card, last_block, ctl, freed, due, given, past>>

-----------------------------------------------------------------------------
(* mantis_dma_xfer                                                         *)

TaskletRuns ==
  /\ tasklet.sched /\ tasklet.pc = "idle"
  /\ tasklet' = [sched |-> FALSE, pc |-> "loop"]
  /\ UNCHANGED <<mode, card, reg, irq, last_block, finished_block, ctl, i2c, freed, due, given, past>>

(* The comparison that ends the loop, or the call of dvb_dmx_swfilter.     *)
Loop ==
  /\ tasklet.pc = "loop"
  /\ tasklet' = [tasklet EXCEPT !.pc = IF last_block = finished_block THEN "idle" ELSE "filter"]
  /\ UNCHANGED <<mode, card, reg, irq, last_block, finished_block, ctl, i2c, freed, due, given, past>>

(* In which lap was line x written?                                        *)
Written(x) == IF x < card.pos THEN card.lap ELSE (card.lap + 2) % 3

(* Does block b hold the data that is due, all of it?                      *)
IsDue(b) ==
  /\ b = due.block
  /\ \A x \in b * PerBlock .. (b + 1) * PerBlock - 1 : Written(x) = due.lap

(* last_block not brought back to the start of the ring.                   *)
FilteredOver ==
  /\ tasklet.pc = "filter"
  /\ last_block' = last_block + 1
  /\ tasklet' = [tasklet EXCEPT !.pc = "loop"]
  /\ UNCHANGED <<mode, card, reg, irq, finished_block, ctl, i2c, freed, due, given, past>>

(* The end of dvb_dmx_swfilter and the step to the next block.             *)
Filtered ==
  /\ tasklet.pc = "filter"
  /\ given' = IF past.eaten THEN "any" ELSE IF ~past.warm THEN "old"
              ELSE IF IsDue(last_block) THEN "due" ELSE "wrong"
  /\ due' = IF given' # "due" THEN due
            ELSE [lap |-> IF due.block = block_count - 1 THEN (due.lap + 1) % 3 ELSE due.lap,
                  block |-> (due.block + 1) % block_count]
  /\ past' = [past EXCEPT !.old = IF past.warm \/ past.eaten THEN @ ELSE @ + 1,
                          !.warm = @ \/ last_block = block_count - 1]
  /\ last_block' = (last_block + 1) % block_count
  /\ tasklet' = [tasklet EXCEPT !.pc = "loop"]
  /\ UNCHANGED <<mode, card, reg, irq, finished_block, ctl, i2c, freed>>

-----------------------------------------------------------------------------
(* mantis_dma_start, called for the first feed                             *)


Start ==
  /\ ctl = "idle" /\ ~card.on /\ ~freed
  /\ ctl' = "started"
  /\ finished_block' = 0
  /\ past' = [past EXCEPT !.raced = Busy] /\ given' = "none"
  /\ UNCHANGED <<mode, card, reg, irq, last_block, tasklet, i2c, freed, due>>

(* last_block left where the run before has stopped.                       *)
StartEngineKeeps ==
  /\ ctl = "started" /\ ctl' = "idle"
  /\ reg' = [reg EXCEPT !.mask = @ \cup {"RISCI"}]
  /\ card' = [on |-> TRUE, pos |-> 0, lap |-> 0]
  /\ due' = Block0 /\ given' = "none"
  /\ past' = [past EXCEPT !.warm = FALSE, !.old = 0, !.late = 0, !.raced = @ \/ Busy]
  /\ UNCHANGED <<mode, irq, last_block, finished_block, tasklet, i2c, freed>>

StartEngine ==
  /\ ctl = "started" /\ ctl' = "idle"
  /\ last_block' = 0
  /\ reg' = [reg EXCEPT !.mask = @ \cup {"RISCI"}]
  /\ card' = [on |-> TRUE, pos |-> 0, lap |-> 0]
  /\ due' = Block0 /\ given' = "none"
  /\ past' = [past EXCEPT !.warm = FALSE, !.old = 0, !.late = 0, !.raced = @ \/ Busy]
  /\ UNCHANGED <<mode, irq, finished_block, tasklet, i2c, freed>>

(* mantis_dma_stop, called for the last feed and by mantis_core_exit.      *)
Stop ==
  /\ ctl = "idle" /\ card.on /\ (mode.restart \/ mode.remove)
  /\ card' = [card EXCEPT !.on = FALSE]
  /\ ctl' = "stopped"
  /\ UNCHANGED <<mode, reg, irq, last_block, finished_block, tasklet, i2c, freed, due, given, past>>

(* The interrupts neither cleared nor masked.                              *)
StopEndOpen ==
  /\ ctl \in {"stopped", "exit"}
  /\ ctl' = IF ctl = "exit" THEN "free" ELSE "idle"
  /\ UNCHANGED <<mode, card, reg, irq, last_block, finished_block, tasklet, i2c, freed, due, given, past>>

(* All pending interrupts are cleared, those of the I2C bus too.           *)
StopEnd ==
  /\ ctl \in {"stopped", "exit"}
  /\ reg' = [reg EXCEPT !.stat = {}, !.mask = @ \ {"RISCI"}]
  /\ ctl' = IF ctl = "exit" THEN "free" ELSE "idle"
  /\ UNCHANGED <<mode, card, irq, last_block, finished_block, tasklet, i2c, freed, due, given, past>>

(* mantis_core_exit: the module is not in use, so the DMA is off.          *)
Remove ==
  /\ ctl = "idle" /\ ~card.on /\ ~freed /\ mode.remove
  /\ ctl' = "exit"
  /\ past' = [past EXCEPT !.backlog = Busy \/ tasklet.sched]
  /\ UNCHANGED <<mode, card, reg, irq, last_block, finished_block, tasklet, i2c, freed, due, given>>

(* mantis_dma_exit                                                         *)
FreeBuffer ==
  /\ ctl = "free" /\ ctl' = "kill"
  /\ freed' = TRUE
  /\ UNCHANGED <<mode, card, reg, irq, last_block, finished_block, tasklet, i2c, due, given, past>>

(* tasklet_kill waits for the tasklet.                                     *)
Kill ==
  /\ ctl = "kill" /\ ~tasklet.sched /\ tasklet.pc = "idle"
  /\ ctl' = "removed"
  /\ UNCHANGED <<mode, card, reg, irq, last_block, finished_block, tasklet, i2c, freed, due, given, past>>

-----------------------------------------------------------------------------
(* mantis_i2c_xfer: page writes read INT_STAT and write it back, which     *)
(* clears what was pending; every byte is followed by mantis_ack_wait.     *)

I2cPage ==
  /\ mode.i2c /\ i2c.pc = "idle"
  /\ i2c' = [i2c EXCEPT !.pc = "clear", !.bits = reg.stat]
  /\ UNCHANGED <<mode, card, reg, irq, last_block, finished_block, tasklet, ctl, freed, due, given, past>>

I2cClear ==
  /\ i2c.pc = "clear"
  /\ i2c' = [i2c EXCEPT !.pc = "send", !.bits = {}]
  /\ reg' = [reg EXCEPT !.stat = @ \ i2c.bits]
  /\ past' = [past EXCEPT !.eaten = @ \/ "RISCI" \in (i2c.bits \cap reg.stat) \ irq.bits]
  /\ due' = IF past'.eaten THEN Block0 ELSE due
  /\ UNCHANGED <<mode, card, irq, last_block, finished_block, tasklet, ctl, freed, given>>

(* The other transfers begin here, a page goes on with its next byte.      *)
I2cSend ==
  /\ mode.i2c /\ i2c.pc \in {"idle", "send"}
  /\ i2c' = [i2c EXCEPT !.pc = "wait"]
  /\ UNCHANGED <<mode, card, reg, irq, last_block, finished_block, tasklet, ctl, freed, due, given, past>>

(* The acknowledge, of this or of an earlier byte, or the timeout.         *)
I2cWaited ==
  /\ i2c.pc = "wait"
  /\ \E pc \in {"send", "idle"} : i2c' = [i2c EXCEPT !.pc = pc]
  /\ UNCHANGED <<mode, card, reg, irq, last_block, finished_block, tasklet, ctl, freed, due, given, past>>

-----------------------------------------------------------------------------
Irq == IrqRead \/ IrqHandle
Tasklet == TaskletRuns \/ Loop \/ Filtered
Control == Start \/ StartEngine \/ Stop \/ StopEnd \/ Remove \/ FreeBuffer \/ Kill
I2c == I2cPage \/ I2cClear \/ I2cSend \/ I2cWaited \/ I2cDone

Next == WriteLine \/ Irq \/ Tasklet \/ Control \/ I2c

(* The card writes: it does not wait for anybody, that it is followed in   *)
(* time is the meaning of slack.  Interrupts are taken, a scheduled        *)
(* tasklet runs, and what was begun with the registers is finished.        *)
Spec ==
  /\ Init /\ [][Next]_vars
  /\ SF_vars(WriteLine) /\ WF_vars(Irq) /\ WF_vars(Tasklet)
  /\ WF_vars(StartEngine \/ StopEnd)

-----------------------------------------------------------------------------
TypeOK ==
  /\ card.pos \in Lines /\ card.lap \in 0 .. 2
  /\ last_block \in Blocks /\ finished_block \in Blocks
  /\ due.block \in Blocks /\ due.lap \in 0 .. 2
  /\ reg.stat \subseteq {"RISCI", "I2CRACK", "I2CDONE"} /\ reg.mask \subseteq {"RISCI", "I2CDONE"}
  /\ tasklet.pc \in {"idle", "loop", "filter"}

(* Not in the middle of mantis_dma_start, and not after a start that came  *)
(* while the handler or the tasklet was at work.                           *)
Undisturbed == ctl # "started" /\ ~past.raced

(* The demux gets the blocks of a run of the DMA each once, in order,      *)
(* whole, and not while the card writes them, from the second time the     *)
(* tasklet goes through the ring: if interrupts and tasklet are served     *)
(* within slack lines, none is lost, and the tasklet was not at work when  *)
(* the DMA was started.                                                    *)
InOrder == Undisturbed => given # "wrong"

(* Before that it hands on what the ring held before, since the first line *)
(* already reports block 15: exactly one ring of it.                       *)
OldOnce == Undisturbed /\ past.warm /\ ~past.eaten => past.old = block_count

(* What the tasklet hands on is the stream: within the buffer, in order,   *)
(* nothing overwritten, and old blocks only after a start and only once.   *)
HandsOnStream == TypeOK /\ InOrder /\ OldOnce

(* A page write of the I2C bus clears a report that the handler has not    *)
(* seen.                                                                   *)
Eats ==
  i2c.pc = "clear" /\ i2c'.pc = "send" /\ "RISCI" \in (i2c.bits \cap reg.stat) \ irq.bits

(* While the DMA runs, blocks of its stream keep reaching the demux, also  *)
(* after it was stopped and started again, and also after reports were     *)
(* lost to the I2C bus (from then on whatever block it is): the next       *)
(* report makes up for a lost one.  Only page writes that clear one report *)
(* after the other, for ever, can stop the stream.                         *)
KeepsDelivering ==
  \/ []<>(given \in {"due", "any"} \/ ~card.on)
  \/ []<><<Eats>>_vars

(* After the buffer is freed the tasklet reads it only if it was already   *)
(* scheduled or running when the removal began: no interrupt comes after.  *)
NoUseAfterFree == (freed /\ tasklet.pc = "filter") => past.backlog

-----------------------------------------------------------------------------
(* The inductive invariant.                                                *)

Bits == {"RISCI", "I2CRACK", "I2CDONE"}

CardRecord == [on : BOOLEAN, pos : Lines, lap : 0 .. 2]
RegRecord == [stat : SUBSET Bits, mask : SUBSET {"RISCI", "I2CDONE"}, risc : Blocks]
IrqRecord == [pc : {"idle", "seen"}, bits : SUBSET Bits, risc : Blocks]
TaskletRecord == [sched : BOOLEAN, pc : {"idle", "loop", "filter"}]
I2cRecord == [pc : {"idle", "clear", "send", "wait"}, bits : SUBSET Bits, racked : BOOLEAN]
DueRecord == [lap : 0 .. 2, block : Blocks]
PastRecord ==
  [eaten : BOOLEAN, raced : BOOLEAN, backlog : BOOLEAN, warm : BOOLEAN, old : Nat, late : Nat]

CardTypes ==
  /\ card \in CardRecord /\ reg \in RegRecord /\ irq \in IrqRecord
  /\ last_block \in Blocks /\ finished_block \in Blocks

DriverTypes ==
  /\ tasklet \in TaskletRecord /\ i2c \in I2cRecord /\ freed \in BOOLEAN
  /\ ctl \in {"idle", "started", "stopped", "exit", "free", "kill", "removed"}
  /\ due \in DueRecord /\ past \in PastRecord

(* RISCI is pending only while the DMA runs and until it is cleared behind *)
(* it, in the register as in what the handler has read.                    *)
RisciInv ==
  /\ ~card.on /\ ctl # "stopped" => "RISCI" \notin reg.stat
  /\ irq.pc = "idle" => "RISCI" \notin irq.bits

(* The removal begins with the DMA off, and without a backlog the tasklet  *)
(* stays away from then on.                                                *)
Leaving == ctl \in {"exit", "free", "kill", "removed"}

RemovalInv ==
  /\ freed => Leaving
  /\ Leaving => ~card.on
  /\ Leaving /\ ~past.backlog =>
       ~tasklet.sched /\ tasklet.pc = "idle" /\ "RISCI" \notin irq.bits

MantisInv == CardTypes /\ DriverTypes /\ RisciInv /\ RemovalInv

-----------------------------------------------------------------------------
(* Why the blocks are handed on in order.  The line at the start of the    *)
(* ring reports block 15, the one at its middle block 7.                   *)

Half == 8 * PerBlock
Up == card.pos \in 1 .. Half
Latest == IF Up THEN 15 ELSE 7

(* The lines written since the latest report.                              *)
Age == IF Up THEN card.pos - 1
       ELSE IF card.pos = 0 THEN Half - 1 ELSE card.pos - 1 - Half

(* A report that the handler has not passed on to the tasklet.             *)
Pending == "RISCI" \in reg.stat \cup irq.bits

Steady == Undisturbed /\ ~past.eaten

LatencyInv ==
  /\ mode \in Modes /\ past.late <= mode.slack
  /\ card.on => "RISCI" \in reg.mask

(* What is outstanding is the latest report, and it is not older than the  *)
(* delay so far.                                                           *)
ReportInv ==
  Steady =>
    /\ tasklet.pc = "filter" => last_block # finished_block
    /\ last_block # finished_block => tasklet.sched \/ tasklet.pc # "idle"
    /\ "RISCI" \in reg.stat => reg.risc = Latest
    /\ "RISCI" \in irq.bits => irq.risc = Latest
    /\ Pending \/ last_block # finished_block => Age <= past.late

(* The tasklet has dealt with the report before the latest one, or it is   *)
(* at one of the blocks that the latest one is about.                      *)
Unserved(b) == (Pending \/ ~card.on) /\ last_block = b /\ finished_block = b
Served(bs) == ~Pending /\ finished_block = Latest /\ last_block \in bs

(* The tasklet's first time through the ring, over what it held before.    *)
FirstRound ==
  /\ card.lap = 0 /\ due = Block0 /\ past.old = last_block
  /\ \/ card.pos = 0 /\ ~Pending /\ last_block = 0 /\ finished_block = 0
     \/ Up /\ (Unserved(0) \/ Served(Blocks))
     \/ card.pos > Half /\ (Unserved(15) \/ Served({15}))

(* From then on: which blocks are to be handed on, and of which lap.       *)
LaterRound ==
  /\ past.old = block_count /\ due.block = last_block
  /\ due.lap = IF ~Up /\ last_block \in 0 .. 7 THEN Written(0) ELSE (Written(0) + 2) % 3
  /\ \/ Up /\ (Unserved(7) \/ Served(7 .. 15))
     \/ ~Up /\ (Unserved(15) \/ Served({15} \cup 0 .. 7))

StreamInv == Steady => IF past.warm THEN LaterRound ELSE FirstRound

BlocksInv == LatencyInv /\ ReportInv /\ StreamInv /\ InOrder

(* What mantis_dma_start relies on between its two halves.                 *)
StartedInv ==
  /\ ctl \in {"started", "stopped"} => ~card.on
  /\ ctl = "started" /\ ~past.raced => finished_block = 0 /\ "RISCI" \notin irq.bits

OrderInv == StartedInv /\ BlocksInv
=============================================================================
