---------------------------- MODULE DeviceProofs ----------------------------
(***************************************************************************)
(* Within the limits of SegmentLog!Steady, the log implements a block      *)
(* device, and what the collector relies on holds, for every size of the   *)
(* tables.                                                                 *)
(***************************************************************************)
EXTENDS FreshnessProofs

(* Under the invariant a mapped LBA reads as the data of its record.       *)
LEMMA ReadBackIsRecord ==
    ASSUME IndInv, NEW lba \in Lbas, index[lba] # NoRecord
    PROVE  ReadBack(lba) = index[lba].data /\ index[lba].data \in Data
<1>1. Stored(lba) /\ index[lba] \in Sealed
  BY DEF IndInv, RecordsInv, TypeOK
<1>2. ReadBack(lba) = index[lba].data
  BY <1>1 DEF ReadBack, Stored, InBuffer, Decrypts
<1> QED BY <1>1, <1>2 DEF Sealed

(* The abstract content, in terms of the records.                          *)
Records == [lba \in Lbas |-> IF index[lba] = NoRecord THEN NoRecord ELSE index[lba].data]

ContentMatches == Content = Records

(* The content a reader sees is that of the records.                       *)
LEMMA ContentIsRecords == IndInv => ContentMatches
BY ReadBackIsRecord DEF Content, Records, ContentMatches

(* The same after a step.                                                  *)
LEMMA ContentIsRecordsNext == IndInv' => ContentMatches'
BY ContentIsRecords, PTL

(* A step that replaces the record of one LBA by one with an overlay of    *)
(* the old data is a write of the device.                                  *)
LEMMA RecordWrite ==
    ASSUME IndInv, IndInv', NEW lba \in Lbas,
           NEW secs \in SUBSET Sectors \ {{}}, NEW val \in Values, NEW old \in Data,
           index[lba] # NoRecord /\ secs # Sectors => old = index[lba].data,
           index'[lba] # NoRecord /\ index'[lba].data = Overlay(old, secs, val),
           \A l \in Lbas \ {lba} : index'[l] = index[l]
    PROVE  Device!Next
<1> DEFINE base == IF index[lba] = NoRecord THEN old ELSE index[lba].data
<1>1. base \in Device!Bases(lba)
  <2>1. Content[lba] = IF index[lba] = NoRecord THEN NoRecord ELSE index[lba].data
    BY ContentIsRecords DEF Records, ContentMatches
  <2>2. base \in Data
    BY ReadBackIsRecord
  <2> QED BY <2>1, <2>2 DEF Device!Bases, Data
<1>2. Overlay(base, secs, val) = Overlay(old, secs, val)
  BY DEF Overlay
<1>3. Content' = [Content EXCEPT ![lba] = Overlay(base, secs, val)]
  BY <1>2, ContentIsRecords, ContentIsRecordsNext DEF Records, ContentMatches
<1>4. Overlay(base, secs, val) = Device!Overlay(base, secs, val)
  BY DEF Overlay, Device!Overlay
<1> HIDE DEF base
<1>5. Device!Write(lba, secs, val)
  BY <1>1, <1>3, <1>4 DEF Device!Write
<1> QED BY <1>5 DEF Device!Next

(* A step that keeps every record's data is no step of the device.         *)
LEMMA RecordsKept ==
    ASSUME IndInv, IndInv',
           \A l \in Lbas : /\ index'[l] = NoRecord <=> index[l] = NoRecord
                           /\ index[l] # NoRecord => index'[l].data = index[l].data
    PROVE  Content' = Content
BY ContentIsRecords, ContentIsRecordsNext DEF Records, ContentMatches

(* A write bio is a write of the device, in both of its forms.             *)
LEMMA WriteRefines ==
    ASSUME IndInv, IndInv', Steady, NEW lba \in Lbas,
           NEW secs \in SUBSET Sectors \ {{}}, NEW val \in Values,
           ModifyInBuffer(lba, secs, val) \/ PushNewBlock(lba, secs, val)
    PROVE  Device!Next
<1>0. Core /\ Rest
  BY IndInvParts
<1>1. CASE ModifyInBuffer(lba, secs, val)
  <2> DEFINE blk == index[lba].pba
             old == buffer[blk[2]]
             new == Seal(blk, lba, Overlay(old, secs, val))
  <2>1. index[lba] # NoRecord /\ InBuffer(blk) /\ index' = [index EXCEPT ![lba] = new]
    BY <1>1 DEF ModifyInBuffer, InPlace
  <2>2. old = index[lba].data /\ old \in Data /\ blk \in Blocks
    BY <1>0, <2>1, RecordBlock DEF Core, RecordsInv, Stored, InBuffer, Sealed
  <2>3. Overlay(old, secs, val) \in Data
    BY <2>2, OverlayType
  <2>4. new \in Sealed /\ new.data = Overlay(old, secs, val)
    BY <2>2, <2>3 DEF Seal, Sealed
  <2> HIDE DEF new, old
  <2>5. /\ index'[lba] = new /\ new # NoRecord
        /\ \A l \in Lbas \ {lba} : index'[l] = index[l]
    BY <1>0, <2>1, <2>4, SealAssumption DEF Core, LogTypeOK
  <2> QED BY <2>2, <2>4, <2>5, RecordWrite
<1>2. CASE PushNewBlock(lba, secs, val)
  <2> DEFINE old == OldBlock(lba)
             data == Overlay(old, secs, val)
             new == Seal(<<cur_segment, cur_block>>, lba, data)
  <2>1. PushBlock(lba, data) /\ ~InPlace(lba, secs)
    BY <1>2 DEF PushNewBlock
  <2>2. old \in Data
    <3>1. buffer[cur_block] \in Data /\ JunkData \in Data
      BY <1>0 DEF Core, LogTypeOK, JunkData, Data
    <3> QED BY <3>1, ReadBackIsRecord DEF OldBlock
  <2>3. index[lba] # NoRecord /\ secs # Sectors => old = index[lba].data
    BY <1>0, <2>1 DEF InPlace, InBuffer, Core, RecordsInv, Stored, OldBlock, Decrypts
  <2> HIDE DEF old
  <2>4. data \in Data
    BY <2>2, OverlayType
  <2>5. new \in Sealed /\ new.data = data
    BY <1>0, <2>4 DEF Seal, Sealed, Core, LogTypeOK, Blocks
  <2>6. index' = [index EXCEPT ![lba] = new]
    BY <1>0, <2>1, <2>4, AppendCore DEF AppendEffects
  <2> HIDE DEF new
  <2>7. /\ index'[lba] = new /\ new # NoRecord
        /\ \A l \in Lbas \ {lba} : index'[l] = index[l]
    BY <1>0, <2>5, <2>6, SealAssumption DEF Core, LogTypeOK
  <2> QED BY <2>2, <2>3, <2>5, <2>7, RecordWrite
<1> QED BY <1>1, <1>2

(* A collection changes nothing that the device shows.                     *)
LEMMA GcRefines ==
    ASSUME IndInv, IndInv', Steady, Gc
    PROVE  Content' = Content
<1>0. Core
  BY IndInvParts
<1>1. CASE UNCHANGED index
  BY <1>1, RecordsKept
<1>2. CASE GcMove /\ ~UNCHANGED index
  <2>1. PICK lba : PushBlock(lba, index[lba].data) /\ lba = rit[<<gc.victim, Least(gc.todo)>>]
                   /\ index[lba] # NoRecord
    BY <1>2 DEF GcMove, Decrypts
  <2>2. gc.victim \in Segments /\ Least(gc.todo) \in Offsets
    <3>1. gc.phase = "move" /\ gc.todo \subseteq Offsets /\ gc.todo # {} /\ gc.victim \in Segments
      BY <1>2 DEF GcMove, IndInv, GcInv, TypeOK
    <3>2. gc.todo \in SUBSET Nat
      BY <3>1 DEF Offsets
    <3>3. Least(gc.todo) \in gc.todo
      BY <3>1, <3>2, LeastIsMin
    <3> QED BY <3>1, <3>3
  <2>3. lba \in Lbas /\ index[lba].data \in Data
    BY <1>0, <2>1, <2>2, ReadBackIsRecord DEF Core, LogTypeOK, Blocks
  <2> DEFINE data == index[lba].data
             new == Seal(<<cur_segment, cur_block>>, lba, data)
  <2>4. index' = [index EXCEPT ![lba] = new]
    BY <1>0, <2>1, <2>3, AppendCore DEF AppendEffects
  <2>5. new \in Sealed /\ new.data = data
    BY <1>0, <2>3 DEF Seal, Sealed, Core, LogTypeOK, Blocks
  <2> HIDE DEF new
  <2>6. /\ index'[lba] = new /\ new # NoRecord
        /\ \A l \in Lbas \ {lba} : index'[l] = index[l]
    BY <1>0, <2>3, <2>4, <2>5, SealAssumption DEF Core, LogTypeOK
  <2> QED BY <2>1, <2>3, <2>5, <2>6, RecordsKept
<1> QED BY <1>1, <1>2 DEF Gc, GcEnd, GcPick, GcFree

(* The initial states are those of an unwritten device.                    *)
LEMMA InitRefines == Init => Device!Init
BY DEF Init, Device!Init, Content

(* One step of the log within its limits is a step of the device or none.  *)
LEMMA StepRefines ==
    IndInv /\ IndInv' /\ [Next /\ Steady]_vars => [Device!Next]_Content
<1> SUFFICES ASSUME IndInv, IndInv', [Next /\ Steady]_vars
             PROVE  Device!Next \/ Content' = Content
  OBVIOUS
<1>1. CASE Write /\ Steady
  BY <1>1, WriteRefines DEF Write
<1>2. CASE Gc /\ Steady
  BY <1>2, GcRefines
<1>3. CASE UNCHANGED vars
  BY <1>3, RecordsKept DEF vars
<1> QED BY <1>1, <1>2, <1>3 DEF Next

(* Within the limits, the log with its buffering, flushing and collecting  *)
(* implements the block device: reads change only by write bios, each in   *)
(* the sectors it covers (segbuf_push_bio, sa_foreground_gc).              *)
THEOREM ImplementsDeviceWithinLimits == SteadySpec => ImplementsDevice
<1>1. SteadySpec => []IndInv
  BY SteadyInvariant
<1> QED BY <1>1, InitRefines, StepRefines, PTL DEF SteadySpec, ImplementsDevice, Device!Spec
-----------------------------------------------------------------------------
(* Within the limits the collector finds every live block through the SVT, *)
(* the DST and the reverse index.                                          *)
THEOREM LiveBlocksMarkedWithinLimits == SteadySpec => []LiveBlocksAreMarked
<1>1. IndInv => LiveBlocksAreMarked
  BY IndInvParts, RecordBlock DEF Core, RecordsInv, LiveBlocksAreMarked
<1> QED BY <1>1, SteadyInvariant, PTL

(* Within the limits no block is marked valid for ever: a marked block is  *)
(* live or still to be filled, and a free segment marks none.              *)
THEOREM MarkedBlocksLiveWithinLimits == SteadySpec => []MarkedBlocksAreLive
<1>1. ASSUME IndInv PROVE MarkedBlocksAreLive
  <2>1. Core
    BY <1>1, IndInvParts
  <2>2. ASSUME NEW seg \in Segments, NEW off \in dst.entry[seg].block_validity_table
        PROVE  Live(<<seg, off>>) \/ (seg = cur_segment /\ off >= cur_block)
    <3>1. Owned(<<seg, off>>)
      BY <2>1 DEF Core, TablesInv
    <3>2. rit[<<seg, off>>] \in Lbas
      BY <2>1 DEF Core, LogTypeOK, Tables, Entry, Blocks
    <3> QED BY <3>1, <3>2 DEF Owned, Live
  <2> QED BY <2>1, <2>2 DEF MarkedBlocksAreLive, Core, TablesInv
<1> QED BY <1>1, SteadyInvariant, PTL

(* Within the limits the collector never works on the segment that is      *)
(* being filled, although sa_foreground_gc does not test for it.           *)
THEOREM GcSparesCurrentWithinLimits == SteadySpec => []GcSparesCurrentSegment
<1>1. IndInv => GcSparesCurrentSegment
  BY DEF IndInv, GcInv, GcSparesCurrentSegment
<1> QED BY <1>1, SteadyInvariant, PTL
=============================================================================
