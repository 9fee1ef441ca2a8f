------------------------------ MODULE TsResync ------------------------------
(***************************************************************************)
(* dvb_dmx_swfilter and dvb_dmx_swfilter_204 (dvb-core/dvb_demux.c): the   *)
(* transport stream arrives in chunks of any size, as the DMA delivers it, *)
(* and is cut into packets at the sync bytes.  One action per pass through *)
(* the loop; demux->lock is held from Chunk until left is 0.               *)
(*                                                                         *)
(* A byte is its position in the stream.  A packet begins at every         *)
(* position that differs from lead by a multiple of Unit, and has the sync *)
(* byte there; emu are the other positions that look like a sync byte.     *)
(***************************************************************************)
EXTENDS Integers, Sequences

CONSTANTS
  Unit,          \* 188, or 204 with the error correction bytes
  Pass,          \* bytes of a unit handed on: 188
  MaxChunk,      \* bound: bytes per call
  StreamLen      \* bound: bytes of the stream

ASSUME UnitAssumption ==
  Unit \in Nat /\ Pass \in Nat /\ 0 < Pass /\ Pass <= Unit

ASSUME BoundsAssumption == MaxChunk \in Nat /\ StreamLen \in Nat

VARIABLES
  lead, emu,
  pos,           \* stream bytes taken out of chunks so far
  left,          \* count - p: bytes of the current chunk still to do
  tsbuf,         \* demux->tsbuf[0 .. tsbufp-1]
  out            \* packets handed to dvb_dmx_swfilter_packet

resync_vars == <<lead, emu, pos, left, tsbuf, out>>

IsSync(k) == (k - lead) % Unit = 0 \/ k \in emu

Bytes(from, n) == [i \in 1 .. n |-> from + i - 1]

(* The emulated sync bytes are chosen by the broadcaster; reception starts *)
(* at any byte of a packet.                                                *)
ResyncInit ==
  /\ lead \in 0 .. Unit - 1
  /\ emu \in SUBSET (0 .. StreamLen - 1)
  /\ pos = 0 /\ left = 0
  /\ tsbuf = << >> /\ out = << >>

(* The call with count bytes.                                              *)
Chunk(count) ==
  /\ left = 0 /\ pos + count <= StreamLen
  /\ left' = count
  /\ UNCHANGED <<lead, emu, pos, tsbuf, out>>

(* The bytes put at the beginning of tsbuf instead of behind tsbufp.       *)
KeepMoreOverwrites ==
  /\ left > 0 /\ tsbuf # << >> /\ left < Unit - Len(tsbuf)
  /\ tsbuf' = Bytes(pos, left) \o SubSeq(tsbuf, left + 1, Len(tsbuf))
  /\ pos' = pos + left /\ left' = 0
  /\ UNCHANGED <<lead, emu, out>>

(* "count < j": the chunk does not complete the packet kept in tsbuf.      *)
KeepMore ==
  /\ left > 0 /\ tsbuf # << >> /\ left < Unit - Len(tsbuf)
  /\ tsbuf' = tsbuf \o Bytes(pos, left)
  /\ pos' = pos + left /\ left' = 0
  /\ UNCHANGED <<lead, emu, out>>

(* tsbufp not cleared after the packet has been handed on.                 *)
CompleteKeeps ==
  /\ left > 0 /\ tsbuf # << >> /\ left >= Unit - Len(tsbuf)
  /\ LET j == Unit - Len(tsbuf)
         unit == tsbuf \o Bytes(pos, j)
     IN /\ out' = Append(out, SubSeq(unit, 1, Pass))
        /\ pos' = pos + j /\ left' = left - j
  /\ tsbuf' = <<tsbuf[1]>>
  /\ UNCHANGED <<lead, emu>>

(* The chunk completes the packet: hand it on if it begins with a sync.    *)
Complete ==
  /\ left > 0 /\ tsbuf # << >> /\ left >= Unit - Len(tsbuf)
  /\ LET j == Unit - Len(tsbuf)
         unit == tsbuf \o Bytes(pos, j)
     IN /\ out' = IF IsSync(unit[1]) THEN Append(out, SubSeq(unit, 1, Pass)) ELSE out
        /\ pos' = pos + j /\ left' = left - j
  /\ tsbuf' = << >>
  /\ UNCHANGED <<lead, emu>>

(* A byte that is no sync is dropped.                                      *)
Skip ==
  /\ left > 0 /\ tsbuf = << >> /\ ~IsSync(pos)
  /\ pos' = pos + 1 /\ left' = left - 1
  /\ UNCHANGED <<lead, emu, tsbuf, out>>

(* A whole packet in the chunk.                                            *)
Whole ==
  /\ left >= Unit /\ tsbuf = << >> /\ IsSync(pos)
  /\ out' = Append(out, Bytes(pos, Pass))
  /\ pos' = pos + Unit /\ left' = left - Unit
  /\ UNCHANGED <<lead, emu, tsbuf>>

(* "count - p > 188" instead of ">=" for the whole packet.                 *)
KeepTailFull ==
  /\ left > 0 /\ left <= Unit /\ tsbuf = << >> /\ IsSync(pos)
  /\ tsbuf' = Bytes(pos, left)
  /\ pos' = pos + left /\ left' = 0
  /\ UNCHANGED <<lead, emu, out>>

(* The beginning of a packet at the end of the chunk.                      *)
KeepTail ==
  /\ left > 0 /\ left < Unit /\ tsbuf = << >> /\ IsSync(pos)
  /\ tsbuf' = Bytes(pos, left)
  /\ pos' = pos + left /\ left' = 0
  /\ UNCHANGED <<lead, emu, out>>

ResyncNext ==
  \/ \E count \in 1 .. MaxChunk : Chunk(count)
  \/ KeepMore \/ Complete \/ Skip \/ Whole \/ KeepTail

ResyncSpec == ResyncInit /\ [][ResyncNext]_resync_vars

-----------------------------------------------------------------------------
(* The kept beginning of a packet always fits into tsbuf with room for the *)
(* byte that completes it: tsbuf is not written behind its Unit bytes.     *)
TypeOK ==
  /\ lead \in Nat /\ emu \subseteq Nat
  /\ pos \in Nat /\ left \in Nat
  /\ tsbuf \in Seq(Nat) /\ Len(tsbuf) < Unit
  /\ out \in Seq(Seq(Nat))

(* How the whole stream received so far would be cut if it came in one     *)
(* chunk: the starts of the packets from position k on.                    *)
StartsFrom(k, end) ==
  LET starts[q \in Nat] ==
        IF q + Unit > end THEN << >>
        ELSE IF IsSync(q) THEN <<q>> \o starts[q + Unit]
        ELSE starts[q + 1]
  IN starts[k]

(* The cut into packets does not depend on how the DMA cuts the stream     *)
(* into chunks, whatever the stream looks like.                            *)
ChunkingIrrelevant ==
  LET starts == StartsFrom(0, pos) IN
  out = [i \in 1 .. Len(starts) |-> Bytes(starts[i], Pass)]

(* A stream that begins with a packet stays in sync: the packets handed on *)
(* are the packets of the stream, one after the other, none lost, although *)
(* their payload may contain sync bytes.                                   *)
InSync ==
  lead = 0 =>
    /\ \A i \in 1 .. Len(out) :
         out[i] = Bytes(IF i = 1 THEN 0 ELSE out[i - 1][1] + Unit, Pass)
    /\ pos = Len(tsbuf) + (IF out = << >> THEN 0 ELSE out[Len(out)][1] + Unit)
=============================================================================
