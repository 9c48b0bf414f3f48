-------------------------- MODULE FreshnessProofs ---------------------------
(***************************************************************************)
(* Collections keep the inductive invariant of SegmentLog as well; hence   *)
(* Freshness, in every behaviour in which threaded logging does not set in *)
(* and the log does not fill up.                                           *)
(***************************************************************************)
EXTENDS WriteProofs

(* The end of a collection keeps the invariant.                            *)
LEMMA GcEndStep == IndInv /\ GcEnd => IndInv'
<1> SUFFICES ASSUME IndInv, GcEnd PROVE IndInv'
  OBVIOUS
<1>1. Core /\ Rest /\ LatestInv
  BY IndInvParts
<1>2. Core'
  BY <1>1, CoreStable DEF GcEnd
<1>3. Rest' /\ GcInv' /\ LatestInv'
  BY <1>1, NoGcType DEF GcEnd, Rest, GcInv, LatestInv, NoGc
<1> QED BY <1>2, <1>3, IndInvNext

(* An entry that counts no block has an empty bitmap.                      *)
LEMMA CountZero ==
    ASSUME Core, NEW seg \in Segments
    PROVE  dst.entry[seg].nr_valid_block = 0 <=> dst.entry[seg].block_validity_table = {}
<1>1. IsFiniteSet(dst.entry[seg].block_validity_table)
  BY FiniteTables DEF Core, LogTypeOK, Tables, Entry
<1>2. dst.entry[seg].nr_valid_block = Cardinality(dst.entry[seg].block_validity_table)
  BY DEF Core, TablesInv
<1> QED BY <1>1, <1>2, FS_EmptySet

(* Picking a victim keeps the invariant: it is not the current segment,    *)
(* which is full.                                                          *)
LEMMA GcPickStep == IndInv /\ GcPick => IndInv'
<1> SUFFICES ASSUME IndInv, GcPick PROVE IndInv'
  OBVIOUS
<1>1. Core /\ Rest /\ GcInv /\ LatestInv
  BY IndInvParts
<1>2. Core'
  BY <1>1, CoreStable DEF GcPick
<1>3. PICK v \in FirstVictims(dst) :
        LET e == dst.entry[v]
            visit == IF e.nr_valid_block = 0 THEN {} ELSE e.block_validity_table IN
        gc' = [gc EXCEPT !.phase = IF visit = {} THEN "free" ELSE "move",
                         !.victim = v, !.entry = e, !.todo = visit, !.region_end = 0]
  BY DEF GcPick
<1> DEFINE e == dst.entry[v]
<1>4. /\ v \in Segments /\ e \in Entry /\ e.nr_valid_block < BlocksPerSegment
      /\ e.block_validity_table \subseteq Offsets
  BY <1>1 DEF FirstVictims, Core, LogTypeOK, TablesInv, Tables, Entry
<1>5. gc.phase = "pick" /\ gc.clean < BlocksPerSegment
  BY DEF GcPick
<1>6. v # cur_segment
  <2>1. dst.entry[cur_segment].nr_valid_block = BlocksPerSegment
    BY <1>1, <1>5, FiniteTables DEF GcInv, Core, TablesInv, LogTypeOK
  <2> QED BY <1>4, <2>1, DstAssumption
<1>7. gc' = [gc EXCEPT !.phase = IF e.block_validity_table = {} THEN "free" ELSE "move",
                       !.victim = v, !.entry = e, !.todo = e.block_validity_table,
                       !.region_end = 0]
  BY <1>1, <1>3, <1>4, CountZero
<1> HIDE DEF e
<1>8. /\ gc' \in GcType /\ gc'.victim = v /\ gc'.entry = e
      /\ gc'.todo = e.block_validity_table /\ gc'.region_end = 0
      /\ gc'.clean = gc.clean
      /\ gc'.phase = IF e.block_validity_table = {} THEN "free" ELSE "move"
  <2> DEFINE ph == IF e.block_validity_table = {} THEN "free" ELSE "move"
             bits == e.block_validity_table
  <2>1. gc' = [gc EXCEPT !.phase = ph, !.victim = v, !.entry = e, !.todo = bits,
                         !.region_end = 0]
    BY <1>7
  <2>2. /\ ph \in {"idle", "pick", "move", "free"} /\ bits \in SUBSET Offsets
        /\ v \in Segments \cup {NoSegment} /\ e \in Entry
        /\ 0 \in 0 .. BlocksPerSegment
    BY <1>4, DstAssumption DEF e
  <2> HIDE DEF ph, bits
  <2>3. gc' \in GcType
    BY <1>1, <2>1, <2>2 DEF Rest, GcType
  <2>4. /\ gc'.victim = v /\ gc'.entry = e /\ gc'.todo = bits /\ gc'.region_end = 0
        /\ gc'.clean = gc.clean /\ gc'.phase = ph
    BY <1>1, <2>1 DEF Rest, GcType
  <2> QED BY <2>3, <2>4 DEF ph, bits
<1>9. dst' = dst /\ disk' = disk /\ cur_segment' = cur_segment /\ mode' = mode
      /\ latest' = latest /\ index' = index
  BY DEF GcPick, bufferVars
<1>10. GcInv'
  <2>1. /\ gc'.victim \in Segments \ {cur_segment'}
        /\ gc'.clean < BlocksPerSegment
        /\ dst'.entry[gc'.victim].block_validity_table = gc'.todo
    BY <1>4, <1>5, <1>6, <1>8, <1>9 DEF e
  <2>2. dst'.entry[cur_segment'].block_validity_table = Offsets
    BY <1>1, <1>5, <1>9 DEF GcInv
  <2>3. \A off \in gc'.todo : ~(off < gc'.region_end)
    BY <1>4, <1>8 DEF Offsets
  <2> QED BY <1>8, <2>1, <2>2, <2>3 DEF GcInv
<1>11. Rest' /\ LatestInv'
  BY <1>1, <1>8, <1>9 DEF Rest, LatestInv
<1> QED BY <1>2, <1>10, <1>11, IndInvNext

(* find_next_zero_bit from a set bit ends the region behind that bit.      *)
LEMMA RegionEndBehind ==
    ASSUME gc \in GcType, NEW off \in gc.entry.block_validity_table
    PROVE  RegionEnd(off) \in 0 .. BlocksPerSegment /\ off < RegionEnd(off)
<1> USE DstAssumption
<1> DEFINE zeros == {o \in off .. BlocksPerSegment - 1 : o \notin gc.entry.block_validity_table}
<1>1. off \in Offsets
  BY DEF GcType, Entry
<1>2. zeros \subseteq Offsets /\ zeros \subseteq Nat /\ off \notin zeros
      /\ \A o \in zeros : off <= o
  BY <1>1 DEF Offsets
<1>3. CASE zeros = {}
  <2>1. RegionEnd(off) = BlocksPerSegment
    BY <1>3 DEF RegionEnd
  <2> QED BY <1>1, <2>1 DEF Offsets
<1>4. CASE zeros # {}
  <2>1. Least(zeros) \in zeros
    BY <1>2, <1>4, LeastIsMin
  <2>2. RegionEnd(off) = Least(zeros)
    BY <1>4 DEF RegionEnd
  <2> HIDE DEF zeros
  <2>3. RegionEnd(off) \in Offsets /\ off <= RegionEnd(off) /\ off # RegionEnd(off)
    BY <1>2, <2>1, <2>2
  <2> QED BY <1>1, <2>3 DEF Offsets
<1> QED BY <1>3, <1>4

(* Moving a block keeps the invariant: what was read of the victim is what *)
(* the record of the LBA opens, and the move clears just this block's bit. *)
LEMMA GcMoveStep == IndInv /\ Steady /\ GcMove => IndInv'
<1> SUFFICES ASSUME IndInv, Steady, GcMove PROVE IndInv'
  OBVIOUS
<1> USE DstAssumption
<1> DEFINE off == Least(gc.todo)
           fresh == off >= gc.region_end
           end == IF fresh THEN RegionEnd(off) ELSE gc.region_end
           buf == IF fresh
                  THEN [o \in Offsets |-> IF o \in off .. end - 1
                                          THEN ReadBlock(<<gc.victim, o>>) ELSE Garbage]
                  ELSE gc.buffer
           blk == <<gc.victim, off>>
           lba == rit[blk]
           rest == gc.todo \ {off}
           ph == IF rest = {} THEN "free" ELSE "move"
<1>0. Core /\ Rest /\ GcInv /\ LatestInv
  BY IndInvParts
<1>1. /\ gc.phase = "move"
      /\ gc' = [gc EXCEPT !.phase = ph, !.todo = rest, !.region_end = end, !.buffer = buf]
      /\ \/ Decrypts(buf[off], index[lba]) /\ PushBlock(lba, index[lba].data)
         \/ ~Decrypts(buf[off], index[lba])
      /\ mode' = mode /\ latest' = latest
  BY DEF GcMove
<1>2. /\ gc.victim \in Segments /\ gc.victim # cur_segment
      /\ gc.clean < BlocksPerSegment
      /\ dst.entry[gc.victim].block_validity_table = gc.todo
      /\ gc.todo # {} /\ gc.todo \subseteq gc.entry.block_validity_table
      /\ \A o \in gc.todo : o < gc.region_end => gc.buffer[o] = disk[<<gc.victim, o>>]
      /\ dst.entry[cur_segment].block_validity_table = Offsets
  BY <1>0, <1>1 DEF GcInv
<1>3. gc.todo \subseteq Offsets /\ gc.todo \subseteq Nat /\ gc \in GcType
  BY <1>0 DEF Rest, GcType, Offsets
<1>4. off \in gc.todo /\ off \in Offsets /\ \A o \in gc.todo : off <= o
  BY <1>2, <1>3, LeastIsMin
<1> HIDE DEF off
<1>5. blk \in Blocks /\ lba \in Lbas
  BY <1>0, <1>2, <1>4 DEF Core, LogTypeOK, Blocks
<1>6. index[lba] # NoRecord /\ index[lba].pba = blk
  <2>1. Owned(blk)
    BY <1>0, <1>2, <1>4 DEF Core, TablesInv
  <2> QED BY <1>2, <2>1 DEF Owned
<1>7. disk[blk] = index[lba]
  BY <1>0, <1>2, <1>5, <1>6 DEF Core, RecordsInv, Stored
<1>8. end \in 0 .. BlocksPerSegment /\ off < end
  <2>1. RegionEnd(off) \in 0 .. BlocksPerSegment /\ off < RegionEnd(off)
    BY <1>2, <1>3, <1>4, RegionEndBehind
  <2>2. gc.region_end \in 0 .. BlocksPerSegment /\ off \in Int
    BY <1>3, <1>4 DEF GcType, Offsets
  <2> QED BY <2>1, <2>2
<1>9. \A o \in Offsets : ReadBlock(<<gc.victim, o>>) = disk[<<gc.victim, o>>]
  BY <1>2 DEF ReadBlock, InBuffer
<1> HIDE DEF end
<1>10. ASSUME NEW o \in gc.todo, o < end PROVE buf[o] = disk[<<gc.victim, o>>]
  <2>1. CASE fresh
    <3>1. o \in off .. end - 1 /\ o \in Offsets
      BY <1>3, <1>4, <1>8, <1>10 DEF Offsets
    <3> QED BY <1>9, <2>1, <3>1
  <2>2. CASE ~fresh
    BY <1>2, <1>10, <2>2 DEF end
  <2> QED BY <2>1, <2>2
<1>11. buf \in [Offsets -> Sealed \cup {Garbage}]
  <2>1. gc.buffer \in [Offsets -> Sealed \cup {Garbage}]
    BY <1>3 DEF GcType
  <2>2. \A o \in Offsets : ReadBlock(<<gc.victim, o>>) \in Sealed \cup {Garbage}
    BY <1>0, <1>2, <1>9 DEF Core, LogTypeOK, Blocks
  <2> QED BY <2>1, <2>2
<1> HIDE DEF buf
<1>12. Decrypts(buf[off], index[lba])
  BY <1>4, <1>6, <1>7, <1>8, <1>10 DEF Decrypts
<1> DEFINE data == index[lba].data
<1>13. data \in Data
  BY <1>0, <1>5, <1>6, RecordBlock DEF Sealed
<1>14. Core' /\ AppendEffects(lba, data)
  BY <1>0, <1>1, <1>5, <1>12, <1>13, AppendCore
<1>15. \A s, o : Holds(lba, <<s, o>>) <=> s = gc.victim /\ o = off
  BY <1>6 DEF Holds
<1>16. gc.victim \in svt.valid /\ cur_segment \in svt.valid
  BY <1>0, <1>2, <1>4 DEF Core, TablesInv, EmptyEntry
<1>17. dst'.entry[gc.victim].block_validity_table = rest
  <2>1. dst'.entry[gc.victim].block_validity_table =
          {o \in gc.todo : ~ Holds(lba, <<gc.victim, o>>)}
    BY <1>2, <1>14, <1>16 DEF AppendEffects
  <2> QED BY <1>15, <2>1
<1>18. dst'.entry[cur_segment].block_validity_table = Offsets
  <2>1. dst'.entry[cur_segment].block_validity_table =
          {o \in Offsets : ~ Holds(lba, <<cur_segment, o>>)}
    BY <1>2, <1>14, <1>16 DEF AppendEffects
  <2> QED BY <1>2, <1>15, <2>1
<1>19. dst'.entry[cur_segment'].block_validity_table = Offsets /\ cur_segment' # gc.victim
  BY <1>2, <1>14, <1>16, <1>18 DEF AppendEffects
<1>20. \A o \in Offsets : disk'[<<gc.victim, o>>] = disk[<<gc.victim, o>>]
  BY <1>2, <1>14 DEF AppendEffects, Blocks
<1>21. /\ index'[lba].data = data /\ index'[lba] # NoRecord
       /\ \A l \in Lbas \ {lba} : index'[l] = index[l]
  <2> DEFINE new == Seal(<<cur_segment, cur_block>>, lba, data)
  <2>1. new \in Sealed /\ new.data = data
    BY <1>0, <1>5, <1>13 DEF Seal, Sealed, Core, LogTypeOK, Blocks
  <2>2. index' = [index EXCEPT ![lba] = new] /\ DOMAIN index = Lbas
    BY <1>0, <1>14 DEF AppendEffects, Core, LogTypeOK
  <2> HIDE DEF new, lba, data
  <2>3. index'[lba] = new /\ \A l \in Lbas \ {lba} : index'[l] = index[l]
    BY <1>5, <2>2
  <2> QED BY <2>1, <2>3, SealAssumption
<1>22. LatestInv'
  BY <1>0, <1>1, <1>21 DEF LatestInv
<1>23. rest \subseteq Offsets /\ rest \subseteq gc.todo
  BY <1>3
<1>24. ph \in {"free", "move"} /\ (ph = "free" <=> rest = {})
  OBVIOUS
<1> HIDE DEF rest, ph, lba, data, blk
<1>25. /\ gc' \in GcType
       /\ gc'.phase = ph /\ gc'.todo = rest /\ gc'.region_end = end /\ gc'.buffer = buf
       /\ gc'.victim = gc.victim /\ gc'.clean = gc.clean /\ gc'.entry = gc.entry
  BY <1>1, <1>3, <1>8, <1>11, <1>23, <1>24 DEF GcType
<1>26. GcInv'
  <2>1. \A o \in gc'.todo : o < gc'.region_end => gc'.buffer[o] = disk'[<<gc'.victim, o>>]
    BY <1>10, <1>20, <1>23, <1>25
  <2>2. gc'.todo \subseteq gc'.entry.block_validity_table
    BY <1>2, <1>23, <1>25
  <2>3. /\ gc'.victim \in Segments \ {cur_segment'}
        /\ gc'.clean < BlocksPerSegment
        /\ dst'.entry[gc'.victim].block_validity_table = gc'.todo
    BY <1>2, <1>17, <1>19, <1>25
  <2> QED BY <1>19, <1>24, <1>25, <2>1, <2>2, <2>3 DEF GcInv
<1>27. Rest'
  BY <1>0, <1>1, <1>25 DEF Rest
<1> QED BY <1>14, <1>22, <1>26, <1>27, IndInvNext

(* Giving back the victim keeps the invariant: all its blocks have moved.  *)
LEMMA GcFreeStep == IndInv /\ GcFree => IndInv'
<1> SUFFICES ASSUME IndInv, GcFree PROVE IndInv'
  OBVIOUS
<1> USE DstAssumption
<1> DEFINE v == gc.victim
           add == gc.clean + BlocksPerSegment - gc.entry.nr_valid_block
           cl == IF v \in svt.valid THEN add ELSE gc.clean
<1>0. Core /\ Rest /\ GcInv /\ LatestInv
  BY IndInvParts
<1>1. /\ gc.phase = "free"
      /\ dst' = RemoveVictim(dst, v)
      /\ gc' = [GcStart EXCEPT !.clean = cl]
      /\ UNCHANGED <<cur_segment, cur_block, buffer, pipe, rit, index, disk, mode, latest>>
  BY DEF GcFree, bufferVars
<1>2. /\ v \in Segments /\ v # cur_segment /\ gc.clean < BlocksPerSegment
      /\ dst.entry[v].block_validity_table = {}
      /\ dst.entry[cur_segment].block_validity_table = Offsets
  BY <1>0, <1>1 DEF GcInv
<1>3. dst.entry[v] = EmptyEntry
  <2>1. dst.entry[v].nr_valid_block = 0
    BY <1>0, <1>2, CountZero
  <2>2. dst.entry[v] \in Entry
    BY <1>0, <1>2 DEF Core, LogTypeOK, Tables
  <2> QED BY <1>2, <2>1, <2>2 DEF Entry, EmptyEntry
<1>4. CountInv' /\ svt'.valid = svt.valid \ {v}
  BY <1>0, GcFreeCounts DEF Core, LogTypeOK, CountInv
<1>5. dst' \in Tables /\ dst'.entry = dst.entry /\ dst'.victims = dst.victims \ {v}
  BY <1>0, <1>1 DEF RemoveVictim, Core, LogTypeOK, Tables
<1>6. LogTypeOK' /\ SegmentCount'
  BY <1>0, <1>1, <1>4, <1>5 DEF Core, LogTypeOK, CountInv
<1>7. RecordsInv'
  BY <1>0, <1>1, <1>5 DEF Core, RecordsInv, Stored
<1>8. TablesInv'
  <2>1. cur_segment' \in svt'.valid
    BY <1>0, <1>1, <1>2, <1>4 DEF Core, TablesInv
  <2>2. \A seg \in Segments : seg \notin svt'.valid => dst'.entry[seg] = EmptyEntry
    BY <1>0, <1>3, <1>4, <1>5 DEF Core, TablesInv
  <2>3. \A seg \in Segments : \A off \in dst'.entry[seg].block_validity_table : Owned(<<seg, off>>)'
    BY <1>0, <1>1, <1>5 DEF Core, TablesInv, Owned
  <2> QED BY <1>0, <1>1, <1>5, <2>1, <2>2, <2>3 DEF Core, TablesInv
<1>9. cl \in 0 .. 2 * BlocksPerSegment
  BY <1>0, <1>2 DEF Rest, GcType, Entry
<1> HIDE DEF cl
<1>10. gc' \in GcType /\ gc'.phase = "pick"
  BY <1>1, <1>9, NoGcType DEF GcType, GcStart, NoGc
<1>11. Rest' /\ GcInv' /\ LatestInv'
  BY <1>0, <1>1, <1>2, <1>5, <1>10 DEF Rest, GcInv, LatestInv
<1> QED BY <1>6, <1>7, <1>8, <1>11, IndInvNext DEF Core
-----------------------------------------------------------------------------
(* One step within the limits keeps the invariant.                         *)
LEMMA StepIndInv == IndInv /\ [Next /\ Steady]_vars => IndInv'
<1>1. ASSUME IndInv, Steady, Write PROVE IndInv'
  <2>1. PICK lba \in Lbas, secs \in SUBSET Sectors \ {{}}, val \in Values :
          ModifyInBuffer(lba, secs, val) \/ PushNewBlock(lba, secs, val)
    BY <1>1 DEF Write
  <2> QED BY <1>1, <2>1, ModifyStep, PushStep
<1>2. ASSUME IndInv, Steady, Gc PROVE IndInv'
  BY <1>2, GcEndStep, GcPickStep, GcMoveStep, GcFreeStep DEF Gc
<1>3. ASSUME IndInv, UNCHANGED vars PROVE IndInv'
  <2>1. Core /\ Rest /\ GcInv /\ LatestInv
    BY <1>3, IndInvParts
  <2>2. Core'
    BY <1>3, <2>1, CoreStable DEF vars, allocatorVars, bufferVars
  <2> QED BY <1>3, <2>1, <2>2, IndInvNext DEF vars, Rest, GcInv, LatestInv
<1> QED BY <1>1, <1>2, <1>3 DEF Next

(* A record opens what is stored, so what is stored reads back.            *)
LEMMA IndInvFresh == IndInv => Freshness
<1> SUFFICES ASSUME IndInv, NEW lba \in Lbas, NEW s \in Sectors, latest[lba][s] # Junk
             PROVE  ReadBack(lba)[s] = latest[lba][s]
  BY DEF Freshness
<1>1. /\ index[lba] # NoRecord /\ index[lba].data[s] = latest[lba][s]
      /\ Stored(lba)
  BY DEF IndInv, LatestInv, RecordsInv
<1>2. ReadBack(lba) = index[lba].data
  BY <1>1 DEF ReadBack, Stored, InBuffer, Decrypts
<1> QED BY <1>1, <1>2

(* The invariant of operation within the limits, for devices of any size.  *)
THEOREM SteadyInvariant == SteadySpec => []IndInv
BY InitIndInv, StepIndInv, PTL DEF SteadySpec

(* Freshness for any number of segments, blocks, LBAs and sectors: while   *)
(* threaded logging does not set in and a free segment is left, every read *)
(* returns the data written last, at every point of a collection too.      *)
THEOREM FreshnessWithinLimits == SteadySpec => []Freshness
BY SteadyInvariant, IndInvFresh, PTL
=============================================================================
