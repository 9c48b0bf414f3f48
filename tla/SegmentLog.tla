----------------------------- MODULE SegmentLog -----------------------------
(***************************************************************************)
(* The data path of the C SwornDisk: writes through the segment buffer     *)
(* (segment_buffer.c), segment allocation and foreground garbage           *)
(* collection (segment_allocator.c), the tables they keep (metadata.c) and *)
(* clean restarts (dm-sworndisk.c).  The LSM tree is a map here; module    *)
(* LsmTree shows what stands behind it.                                    *)
(*                                                                         *)
(* A block that is pushed is encrypted under a fresh key, a block that is  *)
(* modified in the buffer again under the key and iv it has; either way it *)
(* is authenticated together with its address and gets a MAC of its own.   *)
(* So a ciphertext is the record of what was sealed: a record of the index *)
(* holds key, iv and MAC and opens exactly that ciphertext.  The index     *)
(* maps an LBA to the ciphertext its record opens, or to NoRecord.         *)
(*                                                                         *)
(* All writes run under rw_lock held for writing; a write that triggers GC *)
(* runs it to the end before the next one starts.  GC is cut into steps,   *)
(* one per victim picked, block moved and segment freed.                   *)
(***************************************************************************)
EXTENDS DataSegmentTable, SegValidator, FiniteSets

CONSTANTS GcReserve,    \* the 16 of GC_THREADHOLD (segment_allocator.h)
          SizeMod,      \* 2^64: the width of size_t
          Lbas,         \* logical block addresses; 0 is one of them
          Sectors,      \* the sectors of a block
          Values,       \* what one sector may hold
          Junk,         \* bytes that nobody wrote: fresh or undecryptable memory
          Garbage,      \* a block on disk or in the pipe that is no ciphertext
          NoRecord      \* the LSM tree has no record of an LBA

ASSUME LogAssumption ==
    /\ GcReserve \in Nat
    /\ SizeMod \in Nat /\ SizeMod > NrSegment + GcReserve
    /\ (NrSegment - GcReserve) % SizeMod > 0
    /\ 0 \in Lbas
    /\ Junk \notin Values

VARIABLES svt,              \* segment validity table: a seg_validator
          dst,              \* data segment table
          rit,              \* reverse index table: block -> lba
          index,            \* lba -> ciphertext of its record
          disk,             \* data region: block -> ciphertext
          cur_segment,      \* segment buffer: the segment it will be flushed to,
          cur_block,        \*   the next free slot (cur_sector / 8),
          buffer,           \*   plaintext slots,
          pipe,             \*   ciphertext slots
          nr_valid_segment, \* segment allocator's count
          gc,               \* locals of a running sa_foreground_gc
          mode,             \* "up", or why the device is gone
          latest            \* history: what the user last wrote to each sector

allocatorVars == <<svt, nr_valid_segment>>
bufferVars == <<cur_segment, cur_block, buffer, pipe>>
vars == <<svt, dst, rit, index, disk, cur_segment, cur_block, buffer, pipe,
          nr_valid_segment, gc, mode, latest>>

Data     == [Sectors -> Values \cup {Junk}]
JunkData == [s \in Sectors |-> Junk]

Seal(blk, lba, data) == [pba |-> blk, lba |-> lba, data |-> data]
Sealed   == [pba : Blocks, lba : Lbas, data : Data]

ASSUME SealAssumption == Garbage \notin Sealed /\ NoRecord \notin Sealed /\ Garbage # NoRecord

(* The locals of sa_foreground_gc: the victim and the copy of its entry,   *)
(* the offsets still to visit, the region read last and its end, `clean'.  *)
NoGc == [phase |-> "idle", victim |-> NoSegment, entry |-> EmptyEntry, todo |-> {},
         buffer |-> [o \in Offsets |-> Garbage], region_end |-> 0, clean |-> 0]
GcStart == [NoGc EXCEPT !.phase = "pick"]
-----------------------------------------------------------------------------
(* GC_THREADHOLD, and the same minus THREAD_LOGGING_AHEAD, in size_t.      *)
GcThreshold == (NrSegment - GcReserve) % SizeMod
ThreadedLoggingThreshold == (GcThreshold - 1) % SizeMod

(* sworndisk_should_threaded_logging                                       *)
ShouldThreadedLogging ==
    /\ nr_valid_segment >= ThreadedLoggingThreshold
    /\ EmptiestAboveMark(dst)

(* The slots of the segment buffer that hold blocks not yet flushed.       *)
InBuffer(blk) == blk[1] = cur_segment /\ blk[2] < cur_block

(* sworndisk_read_blocks: the disk, overlaid by the segment buffer.        *)
ReadBlock(blk) == IF InBuffer(blk) THEN pipe[blk[2]] ELSE disk[blk]

(* cipher->decrypt of what was read at a record's address.                 *)
Decrypts(content, rec) == rec # NoRecord /\ content = rec

(* What a user reads back from a mapped block (sworndisk_do_read): the     *)
(* plaintext slot while the block is buffered, otherwise the decrypted     *)
(* block.  A failed decryption completes the bio without data.             *)
ReadBack(lba) ==
    IF index[lba] = NoRecord THEN JunkData
    ELSE IF InBuffer(index[lba].pba) THEN buffer[index[lba].pba[2]]
    ELSE IF Decrypts(disk[index[lba].pba], index[lba]) THEN index[lba].data
    ELSE JunkData
-----------------------------------------------------------------------------
(* Mistake for Alloc: the new segment is not counted.                      *)
AllocUncounted(V, nr, t) ==
    LET seg == NextSegment(V, NrSegment) IN
    /\ svt' = TakeNext(V, NrSegment)
    /\ IF seg = NoSegment
       THEN cur_segment' = cur_segment /\ nr_valid_segment' = nr /\ dst' = t
       ELSE cur_segment' = seg /\ nr_valid_segment' = nr /\ dst' = TakeSegment(t, seg)

(* sa_alloc without the collection it may trigger, from the validator V,   *)
(* the count nr and the DST t.  A segment that the DST refuses is still    *)
(* handed out; without a free segment cur_segment stays.                   *)
Alloc(V, nr, t) ==
    LET seg == NextSegment(V, NrSegment) IN
    /\ svt' = TakeNext(V, NrSegment)
    /\ IF seg = NoSegment
       THEN cur_segment' = cur_segment /\ nr_valid_segment' = nr /\ dst' = t
       ELSE cur_segment' = seg /\ nr_valid_segment' = nr + 1 /\ dst' = TakeSegment(t, seg)

AllocSucceeds(V, t) ==
    LET seg == NextSegment(V, NrSegment) IN
    seg # NoSegment /\ CanTakeSegment(t, seg)

(* Mistake for AllocTriggersGc: tested before the segment is counted.      *)
AllocTriggersGcLate(V, nr, t) == AllocSucceeds(V, t) /\ nr > GcThreshold

(* sa_will_trigger_gc, as sa_alloc evaluates it after counting the segment.*)
AllocTriggersGc(V, nr, t) == AllocSucceeds(V, t) /\ nr + 1 > GcThreshold

(* segbuf_flush_bios                                                       *)
Flushed(seg, slots) ==
    [blk \in Blocks |-> IF blk[1] = seg THEN slots[blk[2]] ELSE disk[blk]]

(* Mistake for LogBlock: the reverse index is not updated.                 *)
LogBlockNoRit(lba, data, blk) ==
    /\ buffer' = [buffer EXCEPT ![cur_block] = data]
    /\ pipe' = [pipe EXCEPT ![cur_block] = Seal(blk, lba, data)]
    /\ index' = [index EXCEPT ![lba] = Seal(blk, lba, data)]
    /\ UNCHANGED rit

(* The part of segbuf_push_block that both kinds of logging share: the     *)
(* block goes through the current slot, gets address blk, and replaces the *)
(* record of lba.                                                          *)
LogBlock(lba, data, blk) ==
    /\ buffer' = [buffer EXCEPT ![cur_block] = data]
    /\ pipe' = [pipe EXCEPT ![cur_block] = Seal(blk, lba, data)]
    /\ index' = [index EXCEPT ![lba] = Seal(blk, lba, data)]
    /\ rit' = [rit EXCEPT ![blk] = lba]

(* Mistake for Invalidated: the previous version stays marked.             *)
InvalidatedNothing(lba) == dst

(* The DST after the previous version of lba was given back.               *)
Invalidated(lba) ==
    IF index[lba] = NoRecord THEN dst ELSE ReturnBlock(dst, index[lba].pba)

(* next_block for threaded logging: the first unused block of the victim.  *)
(* Without a zero bit the address runs over into the next segment.         *)
HoleIn(t, v) ==
    LET holes == Offsets \ t.entry[v].block_validity_table IN
    IF holes = {} THEN <<v + 1, 0>> ELSE <<v, Least(holes)>>

(* segbuf_push_block with threaded_logging: one block is written in place  *)
(* and the slot is not consumed.                                           *)
ThreadedLog(lba, data) ==
    LET t == Invalidated(lba) IN
    \E v \in FirstVictims(t) :
        LET blk == HoleIn(t, v) IN
        /\ LogBlock(lba, data, blk)
        /\ dst' = TakeBlock(t, blk)
        /\ disk' = [disk EXCEPT ![blk] = Seal(blk, lba, data)]
        /\ UNCHANGED <<allocatorVars, cur_segment, cur_block>>

(* Mistakes for AppendLog: the slot is not set back to the first one; the  *)
(* next segment is allocated before the flush.                             *)
AppendLogNoReset(lba, data) ==
    /\ LogBlock(lba, data, <<cur_segment, cur_block>>)
    /\ cur_block' = cur_block + 1
    /\ IF cur_block + 1 < BlocksPerSegment
       THEN /\ dst' = Invalidated(lba)
            /\ UNCHANGED <<allocatorVars, cur_segment, disk>>
       ELSE /\ disk' = Flushed(cur_segment, pipe')
            /\ Alloc(svt, nr_valid_segment, Invalidated(lba))

AppendLogAllocFirst(lba, data) ==
    /\ LogBlock(lba, data, <<cur_segment, cur_block>>)
    /\ IF cur_block + 1 < BlocksPerSegment
       THEN /\ cur_block' = cur_block + 1
            /\ dst' = Invalidated(lba)
            /\ UNCHANGED <<allocatorVars, cur_segment, disk>>
       ELSE /\ cur_block' = 0
            /\ Alloc(svt, nr_valid_segment, Invalidated(lba))
            /\ disk' = Flushed(cur_segment', pipe')

(* segbuf_push_block otherwise: append to the current segment; a full      *)
(* segment is flushed and the next one allocated.  -ENODATA from alloc is  *)
(* ignored and leaves cur_segment as it was.                               *)
AppendLog(lba, data) ==
    /\ LogBlock(lba, data, <<cur_segment, cur_block>>)
    /\ IF cur_block + 1 < BlocksPerSegment
       THEN /\ cur_block' = cur_block + 1
            /\ dst' = Invalidated(lba)
            /\ UNCHANGED <<allocatorVars, cur_segment, disk>>
       ELSE /\ cur_block' = 0
            /\ disk' = Flushed(cur_segment, pipe')
            /\ Alloc(svt, nr_valid_segment, Invalidated(lba))

PushBlock(lba, data) ==
    \/ ShouldThreadedLogging /\ ThreadedLog(lba, data)
    \/ ~ShouldThreadedLogging /\ AppendLog(lba, data)

(* Whether that push makes sa_alloc call foreground_gc.                    *)
PushTriggersGc(lba) ==
    /\ ~ShouldThreadedLogging
    /\ cur_block + 1 = BlocksPerSegment
    /\ AllocTriggersGc(svt, nr_valid_segment, Invalidated(lba))
-----------------------------------------------------------------------------
Idle == mode = "up" /\ gc.phase = "idle"

(* bio_get_data: the sectors of the bio replace those of the block.        *)
Overlay(data, secs, val) == [s \in Sectors |-> IF s \in secs THEN val ELSE data[s]]

(* Mistake for OldBlock: the old version is not read back.                 *)
OldBlockUnread(lba) == buffer[cur_block]

(* What segbuf_push_bio finds under a bio that covers part of a block: the *)
(* old version read back from disk, or, for an LBA that was never written, *)
(* whatever the slot held before.                                          *)
OldBlock(lba) ==
    IF index[lba] = NoRecord THEN buffer[cur_block]
    ELSE IF Decrypts(disk[index[lba].pba], index[lba]) THEN index[lba].data
    ELSE JunkData

(* A partial write to a block that has not been flushed yet.               *)
InPlace(lba, secs) ==
    secs # Sectors /\ index[lba] # NoRecord /\ InBuffer(index[lba].pba)

(* A write bio, MODIFY_IN_MEM_BUFFER: a partial write to a block that is   *)
(* still buffered is merged and encrypted again in its slot, with the key  *)
(* and iv of its record.  The old ciphertext is overwritten there, and the *)
(* new MAC no longer opens it.                                             *)
ModifyInBuffer(lba, secs, val) ==
    LET blk == index[lba].pba
        new == Overlay(buffer[blk[2]], secs, val) IN
    /\ Idle
    /\ InPlace(lba, secs)
    /\ buffer' = [buffer EXCEPT ![blk[2]] = new]
    /\ pipe' = [pipe EXCEPT ![blk[2]] = Seal(blk, lba, new)]
    /\ index' = [index EXCEPT ![lba] = Seal(blk, lba, new)]
    /\ latest' = [latest EXCEPT ![lba] = Overlay(@, secs, val)]
    /\ UNCHANGED <<svt, dst, rit, disk, cur_segment, cur_block, nr_valid_segment, gc, mode>>

(* A write bio, PUSH_NEW_BLOCK.                                            *)
PushNewBlock(lba, secs, val) ==
    /\ Idle
    /\ ~InPlace(lba, secs)
    /\ PushBlock(lba, Overlay(OldBlock(lba), secs, val))
    /\ gc' = IF PushTriggersGc(lba) THEN GcStart ELSE gc
    /\ latest' = [latest EXCEPT ![lba] = Overlay(@, secs, val)]
    /\ UNCHANGED mode

Write ==
    \E lba \in Lbas, secs \in SUBSET Sectors \ {{}}, val \in Values :
        ModifyInBuffer(lba, secs, val) \/ PushNewBlock(lba, secs, val)
-----------------------------------------------------------------------------
(* sa_foreground_gc, the head of the loop: enough was cleaned or nothing   *)
(* is left to clean.                                                       *)
GcEnd ==
    /\ gc.phase = "pick"
    /\ ~(gc.clean < BlocksPerSegment /\ dst.victims # {})
    /\ gc' = NoGc
    /\ mode' = "up"
    /\ UNCHANGED <<allocatorVars, bufferVars, dst, rit, index, disk, latest>>

(* The next victim, its entry copied.                                      *)
GcPick ==
    /\ gc.phase = "pick"
    /\ gc.clean < BlocksPerSegment
    /\ \E v \in FirstVictims(dst) :
        LET e == dst.entry[v]
            visit == IF e.nr_valid_block = 0 THEN {} ELSE e.block_validity_table IN
        gc' = [gc EXCEPT !.phase = IF visit = {} THEN "free" ELSE "move",
                         !.victim = v, !.entry = e, !.todo = visit, !.region_end = 0]
    /\ UNCHANGED <<allocatorVars, bufferVars, dst, rit, index, disk, mode, latest>>

(* find_next_zero_bit in the victim's bitmap.                              *)
RegionEnd(from) ==
    LET zeros == {o \in from .. BlocksPerSegment - 1 :
                    o \notin gc.entry.block_validity_table} IN
    IF zeros = {} THEN BlocksPerSegment ELSE Least(zeros)

(* One round of the inner loop.  A region of consecutive valid blocks is   *)
(* read when its first block is reached; the block is decrypted with the   *)
(* record of the LBA the reverse index names, and pushed if that succeeds. *)
(* While the device is being opened there is no segment buffer to read     *)
(* through, see BootGcOops.                                                *)
GcMove ==
    LET off == Least(gc.todo)
        fresh == off >= gc.region_end
        end == IF fresh THEN RegionEnd(off) ELSE gc.region_end
        buf == IF fresh
               THEN [o \in Offsets |-> IF o \in off .. end - 1
                                       THEN ReadBlock(<<gc.victim, o>>) ELSE Garbage]
               ELSE gc.buffer
        lba == rit[<<gc.victim, off>>]
        rest == gc.todo \ {off} IN
    /\ gc.phase = "move" /\ mode = "up"
    /\ gc' = [gc EXCEPT !.phase = IF rest = {} THEN "free" ELSE "move",
                        !.todo = rest, !.region_end = end, !.buffer = buf]
    /\ \/ /\ Decrypts(buf[off], index[lba])
          /\ PushBlock(lba, index[lba].data)
       \/ /\ ~Decrypts(buf[off], index[lba])
          /\ UNCHANGED <<allocatorVars, bufferVars, dst, rit, index, disk>>
    /\ UNCHANGED <<mode, latest>>

(* Mistake for GcFree: the victim's node stays in the tree.                *)
GcFreeKeepsVictim ==
    LET valid == gc.victim \in svt.valid IN
    /\ gc.phase = "free"
    /\ svt' = ReturnSegment(svt, gc.victim)
    /\ nr_valid_segment' = IF valid THEN nr_valid_segment - 1 ELSE nr_valid_segment
    /\ gc' = [GcStart EXCEPT !.clean =
                 IF valid THEN gc.clean + BlocksPerSegment - gc.entry.nr_valid_block
                          ELSE gc.clean]
    /\ UNCHANGED <<bufferVars, dst, rit, index, disk, mode, latest>>

(* The tail of the loop: the segment is given back and loses its node.     *)
GcFree ==
    LET valid == gc.victim \in svt.valid IN
    /\ gc.phase = "free"
    /\ svt' = ReturnSegment(svt, gc.victim)
    /\ nr_valid_segment' = IF valid THEN nr_valid_segment - 1 ELSE nr_valid_segment
    /\ dst' = RemoveVictim(dst, gc.victim)
    /\ gc' = [GcStart EXCEPT !.clean =
                 IF valid THEN gc.clean + BlocksPerSegment - gc.entry.nr_valid_block
                          ELSE gc.clean]
    /\ UNCHANGED <<bufferVars, rit, index, disk, mode, latest>>

Gc == GcEnd \/ GcPick \/ GcMove \/ GcFree
-----------------------------------------------------------------------------
(* segbuf_init: both buffers come from vmalloc.                            *)
NewBuffer == [o \in Offsets |-> JunkData]
NewPipe   == [o \in Offsets |-> Garbage]

(* A formatted device after dm_sworndisk_target_ctr: segbuf_init has taken *)
(* segment 0.                                                              *)
Init ==
    /\ svt = TakeNext([valid |-> {}, cur_segment |-> 0], NrSegment)
    /\ dst = TakeSegment(FormatDst, 0)
    /\ nr_valid_segment = 1
    /\ cur_segment = 0
    /\ cur_block = 0 /\ buffer = NewBuffer /\ pipe = NewPipe
    /\ rit = [blk \in Blocks |-> 0]
    /\ index = [lba \in Lbas |-> NoRecord]
    /\ disk = [blk \in Blocks |-> Garbage]
    /\ gc = NoGc
    /\ mode = "up"
    /\ latest = [lba \in Lbas |-> JunkData]

(* dm_sworndisk_target_dtr followed by dm_sworndisk_target_ctr on the same *)
(* devices.  The whole pipe is flushed; the validator, the victims and the *)
(* segment count are loaded again; segbuf_init allocates a segment, which  *)
(* may start a collection before sworndisk->seg_buffer is set.  An error   *)
(* from alloc fails the constructor.                                       *)
Restart ==
    LET V == ReloadValidator(svt)
        nr == Cardinality(svt.valid)
        t == LoadDst(dst.entry) IN
    /\ Idle
    /\ disk' = Flushed(cur_segment, pipe)
    /\ Alloc(V, nr, t)
    /\ cur_block' = 0 /\ buffer' = NewBuffer /\ pipe' = NewPipe
    /\ gc' = IF AllocTriggersGc(V, nr, t) THEN GcStart ELSE NoGc
    /\ mode' = IF ~AllocSucceeds(V, t) THEN "failed"
               ELSE IF AllocTriggersGc(V, nr, t) THEN "booting" ELSE "up"
    /\ UNCHANGED <<rit, index, latest>>

(* A collection that has a block to move during the constructor reads      *)
(* through sworndisk->seg_buffer, still NULL.                              *)
BootGcOops ==
    /\ gc.phase = "move" /\ mode = "booting"
    /\ mode' = "oops"
    /\ UNCHANGED <<allocatorVars, bufferVars, dst, rit, index, disk, gc, latest>>

Next == Write \/ Gc
Spec == Init /\ [][Next]_vars

(* The same with restarts.                                                 *)
RestartNext == Write \/ Gc \/ BootGcOops \/ Restart
RestartSpec == Init /\ [][RestartNext]_vars
-----------------------------------------------------------------------------
TypeOK ==
    /\ svt \in [valid : SUBSET Segments, cur_segment : 0 .. NrSegment]
    /\ dst \in Tables
    /\ rit \in [Blocks -> Lbas]
    /\ index \in [Lbas -> Sealed \cup {NoRecord}]
    /\ disk \in [Blocks -> Sealed \cup {Garbage}]
    /\ cur_segment \in Segments
    /\ cur_block \in Offsets
    /\ buffer \in [Offsets -> Data]
    /\ pipe \in [Offsets -> Sealed \cup {Garbage}]
    /\ nr_valid_segment \in 0 .. NrSegment
    /\ gc \in [phase : {"idle", "pick", "move", "free"}, victim : Segments \cup {NoSegment},
               entry : Entry, todo : SUBSET Offsets,
               buffer : [Offsets -> Sealed \cup {Garbage}],
               region_end : 0 .. BlocksPerSegment, clean : 0 .. 2 * BlocksPerSegment]
    /\ mode \in {"up", "booting", "failed", "oops"}
    /\ latest \in [Lbas -> Data]

(* Freshness: every sector reads back what was last written to it,         *)
(* whatever was overwritten, flushed or collected in between, also when    *)
(* observed between two steps of a collection (segbuf_push_bio,            *)
(* segbuf_push_block, sa_foreground_gc).                                   *)
Freshness ==
    \A lba \in Lbas, s \in Sectors :
        latest[lba][s] # Junk => ReadBack(lba)[s] = latest[lba][s]

Live(blk) == \E lba \in Lbas : index[lba] # NoRecord /\ index[lba].pba = blk

(* The collector can find every live block: its segment is taken, its bit  *)
(* is set and the reverse index leads back to the LBA whose record points  *)
(* to it (rit->set and dst->return_block in segbuf_push_block).            *)
LiveBlocksAreMarked ==
    \A lba \in Lbas : index[lba] # NoRecord =>
        LET blk == index[lba].pba IN
        /\ blk[1] \in svt.valid
        /\ blk[2] \in dst.entry[blk[1]].block_validity_table
        /\ rit[blk] = lba

(* Nothing leaks: every block that a segment counts as valid is live or is *)
(* a slot of the current segment that was not filled yet, a free segment   *)
(* counts none, and the count agrees with the bitmap ("some blocks may     *)
(* never be GC", sa_alloc).                                                *)
MarkedBlocksAreLive ==
    \A seg \in Segments :
        LET e == dst.entry[seg] IN
        /\ e.nr_valid_block = Cardinality(e.block_validity_table)
        /\ seg \notin svt.valid => e = EmptyEntry
        /\ \A off \in e.block_validity_table :
              Live(<<seg, off>>) \/ (seg = cur_segment /\ off >= cur_block)

(* The allocator's running count of taken segments, which decides when to  *)
(* collect, is the number of set bits of the SVT.                          *)
SegmentCount == nr_valid_segment = Cardinality(svt.valid)

(* The collector never works on the segment that is being filled ("don't   *)
(* GC current segment buffer", sa_foreground_gc).                          *)
GcSparesCurrentSegment ==
    gc.phase \in {"move", "free"} => gc.victim # cur_segment

(* No segment is forgotten: a taken segment with room to reclaim has a     *)
(* node in the victim tree (dst_update_victim, dst_remove_victim).         *)
ReclaimableIsVictim ==
    \A seg \in svt.valid :
        dst.entry[seg].nr_valid_block < BlocksPerSegment => seg \in dst.victims

(* A device on which a collection always finds enough to reclaim: it       *)
(* starts while at least two segments are free, and the LBAs fill less     *)
(* than all but two of the segments.                                       *)
RoomToCollect ==
    /\ GcThreshold + 2 <= NrSegment
    /\ IsFiniteSet(Lbas) /\ Cardinality(Lbas) < (NrSegment - 2) * BlocksPerSegment

(* The log never runs into -ENODATA, whose result segbuf_push_block        *)
(* ignores: on a device with room to collect, and as long as threaded      *)
(* logging does not set in, there is a free segment at every point, also   *)
(* in the middle of a collection, which allocates segments for the blocks  *)
(* it moves (sa_alloc, sa_foreground_gc).  With one LBA more than          *)
(* RoomToCollect allows, the last segment can be taken.                    *)
FreeSegmentLeft == RoomToCollect => svt.valid # Segments

(* Every collection comes to an end (the while loop of sa_foreground_gc).  *)
GcTerminates == gc.phase # "idle" ~> gc.phase = "idle"

(* The collector runs on the writer's thread, so a started one goes on.    *)
FairSpec == Spec /\ WF_vars(Gc)

Content == [lba \in Lbas |-> IF index[lba] = NoRecord THEN NoRecord ELSE ReadBack(lba)]

Device == INSTANCE BlockDevice WITH Unmapped <- NoRecord, content <- Content

(* The log implements a block device: a write bio is the only step that    *)
(* changes what reads return, and it changes just the sectors it covers.   *)
ImplementsDevice == Device!Spec
-----------------------------------------------------------------------------
(* Operation within the limits that the log handles: threaded logging does *)
(* not set in, and there is a free segment.                                *)
Steady == ~ShouldThreadedLogging /\ svt.valid # Segments
SteadySpec == Init /\ [][Next /\ Steady]_vars

(* The first of these limits alone.                                        *)
UnthreadedSpec == Init /\ [][Next /\ ~ShouldThreadedLogging]_vars

(* The inductive invariant behind Freshness, piece by piece.  Where a      *)
(* record points, the block is: in the segment buffer while its segment is *)
(* the current one, on disk otherwise.                                     *)
Stored(lba) ==
    LET blk == index[lba].pba IN
    IF blk[1] = cur_segment
    THEN /\ blk[2] < cur_block
         /\ pipe[blk[2]] = index[lba]
         /\ buffer[blk[2]] = index[lba].data
    ELSE disk[blk] = index[lba]

Owned(blk) ==
    \/ index[rit[blk]] # NoRecord /\ index[rit[blk]].pba = blk
    \/ blk[1] = cur_segment /\ blk[2] >= cur_block

RecordsInv ==
    \A lba \in Lbas : index[lba] # NoRecord =>
        /\ index[lba].lba = lba
        /\ rit[index[lba].pba] = lba
        /\ index[lba].pba[2] \in dst.entry[index[lba].pba[1]].block_validity_table
        /\ Stored(lba)

TablesInv ==
    /\ cur_segment \in svt.valid
    /\ \A seg \in Segments :
          /\ dst.entry[seg].nr_valid_block = Cardinality(dst.entry[seg].block_validity_table)
          /\ seg \notin svt.valid => dst.entry[seg] = EmptyEntry
          /\ \A off \in dst.entry[seg].block_validity_table : Owned(<<seg, off>>)
    /\ \A off \in Offsets :
          off >= cur_block => off \in dst.entry[cur_segment].block_validity_table
    /\ \A seg \in dst.victims : dst.entry[seg].nr_valid_block < BlocksPerSegment

(* A collection never sees the current segment: it is full until the       *)
(* collection ends.  What is left to visit is what is still marked.        *)
GcInv ==
    LET left == dst.entry[gc.victim].block_validity_table IN
    /\ gc.phase # "idle" => dst.entry[cur_segment].block_validity_table = Offsets
    /\ gc.phase \in {"move", "free"} =>
          /\ gc.victim \in Segments \ {cur_segment}
          /\ gc.clean < BlocksPerSegment
          /\ left = gc.todo
    /\ gc.phase = "move" =>
          /\ gc.todo # {}
          /\ gc.todo \subseteq gc.entry.block_validity_table
          /\ \A off \in gc.todo : off < gc.region_end =>
                gc.buffer[off] = disk[<<gc.victim, off>>]
    /\ gc.phase = "free" => gc.todo = {}

LatestInv ==
    \A lba \in Lbas, s \in Sectors : latest[lba][s] # Junk =>
        index[lba] # NoRecord /\ index[lba].data[s] = latest[lba][s]

(* The inductive invariant: type correctness, the allocator's count, and   *)
(* the four pieces above (segbuf_push_block, sa_alloc, sa_foreground_gc).  *)
IndInv ==
    /\ TypeOK /\ mode = "up" /\ SegmentCount
    /\ RecordsInv /\ TablesInv /\ GcInv /\ LatestInv
=============================================================================
