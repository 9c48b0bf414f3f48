---------------------------- MODULE MCSegmentLog ----------------------------
(* SegmentLog on small devices.                                            *)
EXTENDS SegmentLog, TLC

CONSTANTS v1, v2

OneValue == {v1}
TwoValues == {v1, v2}
OneSector == {1}
TwoSectors == {1, 2}
TwoLbas == 0 .. 1
ThreeLbas == 0 .. 2
SevenLbas == 0 .. 6

(* A ciphertext whose record was replaced can never be opened again: a new *)
(* record has a key or at least a MAC of its own.  States that differ only *)
(* in such ciphertexts are the same to every reader and to the collector.  *)
Openable(content) == content # Garbage /\ index[content.lba] = content
Masked(content) == IF Openable(content) THEN content ELSE Garbage

(* The collector looks up marked blocks in the reverse index.  Those of    *)
(* the current segment that are not filled yet get an entry when they are. *)
Filled(b) ==
    /\ b[2] \in dst.entry[b[1]].block_validity_table
    /\ b[1] = cur_segment => b[2] < cur_block

(* A slot of the segment buffer is read through the record of its block,   *)
(* or by the first, partial write of an LBA.  No other push reads a slot   *)
(* before it fills it.                                                     *)
Readable(o) ==
    \/ \E lba \in Lbas : index[lba] = NoRecord
    \/ \E lba \in Lbas : index[lba].pba = <<cur_segment, o>>

(* Comparing a function with itself makes TLC evaluate it in full, which   *)
(* it does not do by itself for variables that the view leaves out.        *)
Evaluated(f) == f = f

View ==
    <<svt, dst, index, cur_segment, cur_block, nr_valid_segment, mode, latest,
      [b \in Blocks |-> IF Filled(b) THEN rit[b] ELSE 0],
      [b \in Blocks |-> Masked(disk[b])],
      [o \in Offsets |-> Masked(pipe[o])],
      [o \in Offsets |-> IF Readable(o) THEN buffer[o] ELSE JunkData],
      [gc EXCEPT !.buffer = [o \in Offsets |-> Masked(gc.buffer[o])]],
      Evaluated(<<buffer, rit, disk, pipe, gc>>)>>

(* The same, up to a renaming of the LBAs: a record, an open ciphertext    *)
(* and an entry of the reverse index show which block they belong to, not  *)
(* which LBA.  Live blocks are marked with their LBA, so the records of a  *)
(* state are at different blocks and the blocks tell the LBAs apart.  The  *)
(* disk under the current segment and the unfilled slots of the pipe are   *)
(* left out: without restarts both are overwritten before they are read.   *)
Opened(content) == IF Openable(content) THEN <<content.pba, content.data>> ELSE Garbage
Records == {<<index[lba].pba, index[lba].data, latest[lba]>> :
              lba \in {l \in Lbas : index[l] # NoRecord}}
LedBack(b) == Filled(b) /\ index[rit[b]] # NoRecord /\ index[rit[b]].pba = b

ViewOfBlocks ==
    <<svt, dst, Records, cur_segment, cur_block, nr_valid_segment, mode,
      [b \in Blocks |-> LedBack(b)],
      [b \in Blocks |-> IF b[1] = cur_segment THEN Garbage ELSE Opened(disk[b])],
      [o \in Offsets |-> IF o < cur_block THEN Opened(pipe[o]) ELSE Garbage],
      [o \in Offsets |-> IF Readable(o) THEN buffer[o] ELSE JunkData],
      [gc EXCEPT !.buffer = [o \in Offsets |-> Opened(gc.buffer[o])]],
      Evaluated(<<buffer, rit, disk, pipe, gc>>)>>

Symmetry == Permutations(TwoValues)
=============================================================================
