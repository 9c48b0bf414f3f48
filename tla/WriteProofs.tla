---------------------------- MODULE WriteProofs -----------------------------
(***************************************************************************)
(* The inductive invariant of SegmentLog holds at first and is kept by every *)
(* write that neither logs into a victim nor finds the log full.           *)
(***************************************************************************)
EXTENDS AppendProofs

(* The types of the rest of the state.                                     *)
GcType ==
    [phase : {"idle", "pick", "move", "free"}, victim : Segments \cup {NoSegment},
     entry : Entry, todo : SUBSET Offsets,
     buffer : [Offsets -> Sealed \cup {Garbage}],
     region_end : 0 .. BlocksPerSegment, clean : 0 .. 2 * BlocksPerSegment]

Rest == gc \in GcType /\ mode = "up" /\ latest \in [Lbas -> Data]

(* IndInv, cut where the steps below cut it.                               *)
LEMMA IndInvParts == IndInv <=> Core /\ Rest /\ GcInv /\ LatestInv
<1>1. SegmentCount /\ svt \in Validators => nr_valid_segment \in 0 .. NrSegment
  BY FiniteTables DEF SegmentCount, Validators
<1> QED BY <1>1 DEF IndInv, Core, Rest, GcType, TypeOK, LogTypeOK, Validators

(* The same after a step.                                                  *)
LEMMA IndInvNext == Core' /\ Rest' /\ GcInv' /\ LatestInv' => IndInv'
BY IndInvParts, PTL

(* The locals of a collection that is over and of one that begins.         *)
LEMMA NoGcType == NoGc \in GcType /\ GcStart \in GcType
<1> USE DstAssumption
<1>1. EmptyEntry \in Entry
  BY DEF EmptyEntry, Entry
<1> QED BY <1>1 DEF NoGc, GcStart, GcType

(* Copying the data of a bio over a block.                                 *)
LEMMA OverlayType ==
    ASSUME NEW data \in Data, NEW secs, NEW val \in Values
    PROVE  Overlay(data, secs, val) \in Data
BY DEF Overlay, Data

(* A step that leaves the log alone keeps Core.                            *)
LEMMA CoreStable ==
    ASSUME Core, UNCHANGED <<allocatorVars, bufferVars, dst, rit, index, disk>>
    PROVE  Core'
BY DEF Core, LogTypeOK, SegmentCount, RecordsInv, Stored, TablesInv, Owned,
       allocatorVars, bufferVars
-----------------------------------------------------------------------------
(* The invariant holds after the constructor on a formatted device.        *)
LEMMA InitIndInv == Init => IndInv
<1> SUFFICES ASSUME Init PROVE Core /\ Rest /\ GcInv /\ LatestInv
  BY IndInvParts
<1> USE DstAssumption
<1>1. svt \in Validators /\ svt.valid = {0} /\ Cardinality(svt.valid) = 1
  BY FirstSegment, FS_Singleton DEF Init
<1>2. 0 \in Segments /\ 0 \in Offsets
  BY DEF Segments, Offsets
<1>3. /\ FormatDst \in Tables
      /\ FormatDst.entry = [s \in Segments |-> EmptyEntry]
      /\ CanTakeSegment(FormatDst, 0)
  BY <1>2 DEF FormatDst, LoadDst, Tables, Entry, EmptyEntry, CanTakeSegment
<1>4. /\ dst \in Tables
      /\ dst.entry = [[s \in Segments |-> EmptyEntry] EXCEPT ![0] = FullEntry]
      /\ dst.victims = FormatDst.victims \ {0}
  BY <1>2, <1>3, TakeSegmentFacts DEF Init
<1>5. \A s \in Segments : dst.entry[s] = IF s = 0 THEN FullEntry ELSE EmptyEntry
  BY <1>4
<1>6. JunkData \in Data
  BY DEF JunkData, Data
<1>7. LogTypeOK
  BY <1>1, <1>2, <1>4, <1>6, LogAssumption
     DEF LogTypeOK, Init, NewBuffer, NewPipe
<1>8. RecordsInv /\ SegmentCount
  BY <1>1 DEF Init, RecordsInv, SegmentCount
<1>9. TablesInv
  <2>1. \A s \in Segments :
           dst.entry[s].nr_valid_block = Cardinality(dst.entry[s].block_validity_table)
    BY <1>5, FiniteTables, FS_EmptySet DEF FullEntry, EmptyEntry
  <2>2. \A s \in Segments : s \notin svt.valid => dst.entry[s] = EmptyEntry
    BY <1>1, <1>5
  <2>3. \A s \in Segments : \A off \in dst.entry[s].block_validity_table : Owned(<<s, off>>)
    BY <1>5 DEF FullEntry, EmptyEntry, Owned, Init, Offsets
  <2>4. \A off \in Offsets : off \in dst.entry[cur_segment].block_validity_table
    BY <1>2, <1>5 DEF FullEntry, Init
  <2>5. \A s \in dst.victims : dst.entry[s].nr_valid_block < BlocksPerSegment
    BY <1>4, <1>5 DEF EmptyEntry, Tables
  <2>6. cur_segment \in svt.valid
    BY <1>1 DEF Init
  <2> QED BY <2>1, <2>2, <2>3, <2>4, <2>5, <2>6 DEF TablesInv
<1>10. Rest /\ GcInv /\ LatestInv
  BY <1>6, NoGcType DEF Rest, GcInv, LatestInv, Init, NoGc, JunkData
<1> QED BY <1>7, <1>8, <1>9, <1>10 DEF Core

(* A write into a buffered block keeps the invariant.                      *)
LEMMA ModifyStep ==
    ASSUME IndInv, NEW lba \in Lbas, NEW secs \in SUBSET Sectors, NEW val \in Values,
           ModifyInBuffer(lba, secs, val)
    PROVE  IndInv'
<1> DEFINE blk == index[lba].pba
           data == Overlay(buffer[blk[2]], secs, val)
           new == Seal(blk, lba, data)
<1>0. Core /\ Rest /\ GcInv /\ LatestInv
  BY IndInvParts
<1>1. /\ gc.phase = "idle" /\ index[lba] # NoRecord
      /\ blk[1] = cur_segment /\ blk[2] < cur_block
      /\ buffer' = [buffer EXCEPT ![blk[2]] = data]
      /\ pipe' = [pipe EXCEPT ![blk[2]] = new]
      /\ index' = [index EXCEPT ![lba] = new]
      /\ latest' = [latest EXCEPT ![lba] = Overlay(@, secs, val)]
      /\ UNCHANGED <<svt, dst, rit, disk, cur_segment, cur_block, nr_valid_segment, gc, mode>>
  BY DEF ModifyInBuffer, Idle, InPlace, InBuffer
<1>2. /\ blk \in Blocks /\ blk[2] \in Offsets /\ blk = <<blk[1], blk[2]>>
      /\ index[lba].lba = lba /\ rit[blk] = lba
      /\ blk[2] \in dst.entry[blk[1]].block_validity_table
      /\ buffer[blk[2]] = index[lba].data
  BY <1>0, <1>1, RecordBlock DEF Core, RecordsInv, Stored
<1>3. data \in Data
  BY <1>0, <1>2, OverlayType DEF Core, LogTypeOK
<1>4. /\ new \in Sealed /\ new # NoRecord
      /\ new.pba = blk /\ new.lba = lba /\ new.data = data
  BY <1>2, <1>3, SealAssumption DEF Sealed, Seal
<1>5. \A s \in Sectors : data[s] = IF s \in secs THEN val ELSE index[lba].data[s]
  BY <1>2 DEF Overlay
<1> HIDE DEF new, data, blk
<1>6. /\ index'[lba] = new /\ \A l \in Lbas \ {lba} : index'[l] = index[l]
      /\ pipe'[blk[2]] = new /\ buffer'[blk[2]] = data
      /\ \A o \in Offsets \ {blk[2]} : pipe'[o] = pipe[o] /\ buffer'[o] = buffer[o]
  BY <1>0, <1>1, <1>2 DEF Core, LogTypeOK
<1>7. LogTypeOK'
  BY <1>0, <1>1, <1>2, <1>3, <1>4 DEF Core, LogTypeOK
<1>8. SegmentCount'
  BY <1>0, <1>1 DEF Core, SegmentCount
<1>9. RecordsInv'
  <2> SUFFICES ASSUME NEW l \in Lbas, index'[l] # NoRecord
               PROVE  /\ index'[l].lba = l
                      /\ rit[index'[l].pba] = l
                      /\ index'[l].pba[2] \in dst.entry[index'[l].pba[1]].block_validity_table
                      /\ Stored(l)'
    BY <1>1 DEF RecordsInv
  <2>1. CASE l = lba
    BY <1>1, <1>2, <1>4, <1>6, <2>1 DEF Stored
  <2>2. CASE l # lba
    <3> DEFINE b == index[l].pba
    <3>1. /\ index'[l] = index[l] /\ index[l] # NoRecord /\ Stored(l)
          /\ index[l].lba = l /\ rit[b] = l
          /\ b[2] \in dst.entry[b[1]].block_validity_table
      BY <1>0, <1>6, <2>2 DEF Core, RecordsInv
    <3>2. b = <<b[1], b[2]>> /\ b[2] \in Offsets /\ b # blk
      BY <1>0, <1>2, <2>2, <3>1, RecordBlock
    <3>3. CASE b[1] = cur_segment
      <4>1. b[2] \in Offsets \ {blk[2]}
        BY <1>1, <1>2, <3>2, <3>3
      <4>2. /\ b[2] < cur_block /\ pipe[b[2]] = index[l]
            /\ buffer[b[2]] = index[l].data
        BY <3>1, <3>3 DEF Stored
      <4>3. pipe'[b[2]] = pipe[b[2]] /\ buffer'[b[2]] = buffer[b[2]]
        BY <1>6, <4>1
      <4>4. Stored(l)'
        BY <1>1, <3>1, <3>3, <4>2, <4>3 DEF Stored
      <4> QED BY <3>1, <4>4
    <3>4. CASE b[1] # cur_segment
      BY <1>1, <3>1, <3>4 DEF Stored
    <3> QED BY <3>1, <3>3, <3>4
  <2> QED BY <2>1, <2>2
<1>10. TablesInv'
  <2>1. \A l \in Lbas : /\ index'[l] # NoRecord <=> index[l] # NoRecord
                        /\ index[l] # NoRecord => index'[l].pba = index[l].pba
    BY <1>1, <1>4, <1>6 DEF blk
  <2>2. ASSUME NEW seg \in Segments, NEW off \in dst.entry[seg].block_validity_table
        PROVE  Owned(<<seg, off>>)'
    <3>1. Owned(<<seg, off>>)
      BY <1>0 DEF Core, TablesInv
    <3>2. <<seg, off>> \in Blocks
      BY <1>0 DEF Core, LogTypeOK, Tables, Entry, Blocks
    <3>3. rit[<<seg, off>>] \in Lbas
      BY <1>0, <3>2 DEF Core, LogTypeOK
    <3> QED BY <1>1, <2>1, <3>1, <3>3 DEF Owned
  <2> QED BY <1>0, <1>1, <2>2 DEF Core, TablesInv
<1>11. LatestInv'
  <2> SUFFICES ASSUME NEW l \in Lbas, NEW s \in Sectors, latest'[l][s] # Junk
               PROVE  index'[l] # NoRecord /\ index'[l].data[s] = latest'[l][s]
    BY DEF LatestInv
  <2>1. CASE l = lba
    <3>1. latest'[l][s] = IF s \in secs THEN val ELSE latest[l][s]
      BY <1>0, <1>1, <2>1 DEF Rest, Overlay
    <3> QED BY <1>0, <1>4, <1>5, <1>6, <2>1, <3>1 DEF LatestInv
  <2>2. CASE l # lba
    <3>1. latest'[l] = latest[l] /\ index'[l] = index[l]
      BY <1>0, <1>1, <1>6, <2>2 DEF Rest
    <3> QED BY <1>0, <3>1 DEF LatestInv
  <2> QED BY <2>1, <2>2
<1>12. GcInv' /\ Rest'
  <2>1. latest' \in [Lbas -> Data]
    BY <1>0, <1>1, OverlayType DEF Rest
  <2> QED BY <1>0, <1>1, <2>1 DEF GcInv, Rest
<1> QED BY <1>7, <1>8, <1>9, <1>10, <1>11, <1>12, IndInvNext DEF Core

(* An append keeps Core, whether or not it fills the segment.              *)
LEMMA AppendCore ==
    ASSUME Core, Steady, NEW lba \in Lbas, NEW data \in Data, PushBlock(lba, data)
    PROVE  Core' /\ AppendEffects(lba, data)
<1>1. AppendLog(lba, data) /\ svt.valid # Segments
  BY DEF PushBlock, Steady
<1> QED BY <1>1, AppendWithinSegment, AppendFillsSegment

(* A write that logs a new block keeps the invariant.                      *)
LEMMA PushStep ==
    ASSUME IndInv, Steady, NEW lba \in Lbas, NEW secs \in SUBSET Sectors, NEW val \in Values,
           PushNewBlock(lba, secs, val)
    PROVE  IndInv'
<1> DEFINE data == Overlay(OldBlock(lba), secs, val)
           new == Seal(<<cur_segment, cur_block>>, lba, data)
<1>0. Core /\ Rest /\ GcInv /\ LatestInv
  BY IndInvParts
<1>1. /\ gc.phase = "idle" /\ mode = "up" /\ ~InPlace(lba, secs)
      /\ PushBlock(lba, data)
      /\ gc' = IF PushTriggersGc(lba) THEN GcStart ELSE gc
      /\ latest' = [latest EXCEPT ![lba] = Overlay(@, secs, val)]
      /\ mode' = mode
  BY DEF PushNewBlock, Idle
<1>2. OldBlock(lba) \in Data
  <2>1. buffer[cur_block] \in Data /\ JunkData \in Data
    BY <1>0 DEF Core, LogTypeOK, JunkData, Data
  <2>2. index[lba] # NoRecord => index[lba].data \in Data
    BY <1>0, RecordBlock DEF Sealed
  <2> QED BY <2>1, <2>2 DEF OldBlock
<1>3. data \in Data /\ new.data = data /\ new # NoRecord
  <2>1. data \in Data /\ new.data = data
    BY <1>2, OverlayType DEF Seal
  <2>2. new \in Sealed
    BY <1>0, <2>1 DEF Sealed, Seal, Core, LogTypeOK, Blocks
  <2> QED BY <2>1, <2>2, SealAssumption
<1>4. \A s \in Sectors : data[s] = IF s \in secs THEN val ELSE OldBlock(lba)[s]
  BY DEF Overlay
<1>5. secs # Sectors /\ index[lba] # NoRecord => OldBlock(lba) = index[lba].data
  <2> SUFFICES ASSUME secs # Sectors, index[lba] # NoRecord
               PROVE  OldBlock(lba) = index[lba].data
    OBVIOUS
  <2>1. ~InBuffer(index[lba].pba)
    BY <1>1 DEF InPlace
  <2>2. disk[index[lba].pba] = index[lba]
    BY <1>0, <2>1 DEF Core, RecordsInv, Stored, InBuffer
  <2> QED BY <2>2 DEF OldBlock, Decrypts
<1> HIDE DEF data, new
<1>6. Core' /\ AppendEffects(lba, data)
  BY <1>0, <1>1, <1>3, AppendCore
<1>7. /\ index'[lba] = new
      /\ \A l \in Lbas \ {lba} : index'[l] = index[l]
  BY <1>0, <1>6 DEF AppendEffects, Core, LogTypeOK, new
<1>8. LatestInv'
  <2> SUFFICES ASSUME NEW l \in Lbas, NEW s \in Sectors, latest'[l][s] # Junk
               PROVE  index'[l] # NoRecord /\ index'[l].data[s] = latest'[l][s]
    BY DEF LatestInv
  <2>1. CASE l = lba
    <3>1. latest'[l][s] = IF s \in secs THEN val ELSE latest[l][s]
      BY <1>0, <1>1, <2>1 DEF Rest, Overlay
    <3>2. CASE s \in secs
      BY <1>3, <1>4, <1>7, <2>1, <3>1, <3>2
    <3>3. CASE s \notin secs
      BY <1>0, <1>3, <1>4, <1>5, <1>7, <2>1, <3>1, <3>3 DEF LatestInv
    <3> QED BY <3>2, <3>3
  <2>2. CASE l # lba
    BY <1>0, <1>1, <1>7, <2>2 DEF LatestInv, Rest
  <2> QED BY <2>1, <2>2
<1>9. Rest'
  <2>1. latest' \in [Lbas -> Data]
    BY <1>0, <1>1, OverlayType DEF Rest
  <2> QED BY <1>0, <1>1, <2>1, NoGcType DEF Rest
<1>10. GcInv'
  <2>1. CASE PushTriggersGc(lba)
    <3>1. gc' = GcStart /\ gc'.phase = "pick"
      BY <1>1, <2>1 DEF GcStart, NoGc
    <3>2. dst'.entry[cur_segment'].block_validity_table = Offsets
      <4>1. ~(cur_block + 1 < BlocksPerSegment)
        BY <2>1, DstAssumption DEF PushTriggersGc
      <4> QED BY <1>6, <4>1 DEF AppendEffects
    <3> QED BY <3>1, <3>2 DEF GcInv
  <2>2. CASE ~PushTriggersGc(lba)
    BY <1>1, <2>2 DEF GcInv
  <2> QED BY <2>1, <2>2
<1> QED BY <1>6, <1>8, <1>9, <1>10, IndInvNext
=============================================================================
