-------------------------- MODULE DataSegmentTable --------------------------
(***************************************************************************)
(* struct dst (metadata.c): for every segment the number of valid blocks   *)
(* and a bitmap of them, kept on disk, and in memory a red-black tree of   *)
(* victims ordered by nr_valid_block.                                      *)
(*                                                                         *)
(* A table is a record: `entry' is the disk array, `victims' the set of    *)
(* segments that have a node in the tree.  A node carries copies of the    *)
(* entry's two fields; every function below that changes an entry replaces *)
(* or erases the node, so the copies are not modelled.  rb_first returns a *)
(* node with the least count; which one of several is left open.           *)
(*                                                                         *)
(* A block address is the pair <<segment, offset>>, i.e. the result of     *)
(* __block_to_segment and __block_offset_whthin_segment.                   *)
(***************************************************************************)
EXTENDS Integers

CONSTANTS NrSegment, BlocksPerSegment

ASSUME DstAssumption == /\ NrSegment \in Nat \ {0}
                        /\ BlocksPerSegment \in Nat \ {0}

Segments == 0 .. NrSegment - 1
Offsets  == 0 .. BlocksPerSegment - 1
Blocks   == Segments \X Offsets

Entry == [nr_valid_block : 0 .. BlocksPerSegment, block_validity_table : SUBSET Offsets]

EmptyEntry == [nr_valid_block |-> 0, block_validity_table |-> {}]
FullEntry  == [nr_valid_block |-> BlocksPerSegment, block_validity_table |-> Offsets]

Tables == [entry : [Segments -> Entry], victims : SUBSET Segments]

(* dst_load: every segment that is not full becomes a victim, the free     *)
(* ones included.                                                          *)
LoadDst(entry) ==
    [entry |-> entry,
     victims |-> {s \in Segments : entry[s].nr_valid_block < BlocksPerSegment}]

(* dst_format: a zeroed array, loaded.                                     *)
FormatDst == LoadDst([s \in Segments |-> EmptyEntry])

(* Mistake for SetEntry: the old node is erased and no new one added.      *)
SetEntryForgetful(t, seg, e) ==
    [entry |-> [t.entry EXCEPT ![seg] = e], victims |-> t.victims \ {seg}]

(* dst_update_victim, after the entry of seg was set to e.                 *)
SetEntry(t, seg, e) ==
    [entry |-> [t.entry EXCEPT ![seg] = e],
     victims |-> IF e.nr_valid_block >= BlocksPerSegment
                 THEN t.victims \ {seg}
                 ELSE t.victims \cup {seg}]

(* Mistake for TakeSegment: blocks are left to be taken one at a time, and *)
(* the segment stays a victim meanwhile.                                   *)
TakeSegmentLazily(t, seg) == t

(* dst_take_segment refuses a segment that still counts valid blocks.      *)
CanTakeSegment(t, seg) == t.entry[seg].nr_valid_block = 0

TakeSegment(t, seg) ==
    IF CanTakeSegment(t, seg) THEN SetEntry(t, seg, FullEntry) ELSE t

(* dst_take_block                                                          *)
TakeBlock(t, blk) ==
    LET e == t.entry[blk[1]] IN
    IF e.nr_valid_block >= BlocksPerSegment THEN t
    ELSE SetEntry(t, blk[1],
                  [nr_valid_block |-> e.nr_valid_block + 1,
                   block_validity_table |-> e.block_validity_table \cup {blk[2]}])

(* dst_return_block: the count goes down whether or not the bit was set.   *)
ReturnBlock(t, blk) ==
    LET e == t.entry[blk[1]] IN
    IF e.nr_valid_block = 0 THEN t
    ELSE SetEntry(t, blk[1],
                  [nr_valid_block |-> e.nr_valid_block - 1,
                   block_validity_table |-> e.block_validity_table \ {blk[2]}])

(* dst_remove_victim                                                       *)
RemoveVictim(t, seg) == [t EXCEPT !.victims = @ \ {seg}]

(* The victims dst_peek_victim may return.                                 *)
FirstVictims(t) ==
    {v \in t.victims : \A w \in t.victims :
        t.entry[v].nr_valid_block <= t.entry[w].nr_valid_block}

(* should_threaded_logging: the emptiest victim is more than 3/4 full.     *)
ThreadedLoggingMark == (BlocksPerSegment \div 4) * 3

EmptiestAboveMark(t) ==
    /\ t.victims # {}
    /\ \A v \in t.victims : t.entry[v].nr_valid_block > ThreadedLoggingMark
=============================================================================
