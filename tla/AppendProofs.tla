---------------------------- MODULE AppendProofs ----------------------------
(***************************************************************************)
(* What appending a block to the log does to the tables, the index and the *)
(* stored blocks of SegmentLog: within a segment, and when it fills one.   *)
(***************************************************************************)
EXTENDS SegmentLogProofs

LogTypeOK ==
    /\ svt \in Validators
    /\ dst \in Tables
    /\ rit \in [Blocks -> Lbas]
    /\ index \in [Lbas -> Sealed \cup {NoRecord}]
    /\ disk \in [Blocks -> Sealed \cup {Garbage}]
    /\ cur_segment \in Segments
    /\ cur_block \in Offsets
    /\ buffer \in [Offsets -> Data]
    /\ pipe \in [Offsets -> Sealed \cup {Garbage}]

(* The part of the invariant that does not mention a running collection.   *)
Core == LogTypeOK /\ SegmentCount /\ RecordsInv /\ TablesInv

(* The block of a record.                                                  *)
Holds(lba, blk) == index[lba] # NoRecord /\ index[lba].pba = blk

(* A record points to a block of a taken segment, at a marked offset.      *)
LEMMA RecordBlock ==
    ASSUME Core, NEW lba \in Lbas, index[lba] # NoRecord
    PROVE  /\ index[lba] \in Sealed
           /\ index[lba].pba \in Blocks
           /\ index[lba].pba[1] \in svt.valid
           /\ index[lba].pba[1] \in Segments
           /\ index[lba].pba[2] \in Offsets
           /\ index[lba].pba = <<index[lba].pba[1], index[lba].pba[2]>>
<1>1. index[lba] \in Sealed
  BY DEF Core, LogTypeOK
<1>2. /\ index[lba].pba \in Blocks
      /\ index[lba].pba[1] \in Segments /\ index[lba].pba[2] \in Offsets
      /\ index[lba].pba = <<index[lba].pba[1], index[lba].pba[2]>>
  BY <1>1 DEF Sealed, Blocks
<1>3. index[lba].pba[1] \in svt.valid
  BY <1>2 DEF Core, RecordsInv, TablesInv, EmptyEntry
<1> QED BY <1>1, <1>2, <1>3

(* What giving back the previous version of lba leaves of the DST.         *)
LEMMA InvalidatedFacts ==
    ASSUME Core, NEW lba \in Lbas
    PROVE  LET t == Invalidated(lba) IN
           /\ t \in Tables
           /\ \A seg \in Segments :
                 /\ Counted(t.entry[seg])
                 /\ seg \notin svt.valid => t.entry[seg] = EmptyEntry
                 /\ t.entry[seg].block_validity_table =
                      {off \in dst.entry[seg].block_validity_table : ~ Holds(lba, <<seg, off>>)}
           /\ \A seg \in t.victims : t.entry[seg].nr_valid_block < BlocksPerSegment
<1>0. /\ dst \in Tables
      /\ \A seg \in Segments : Counted(dst.entry[seg])
      /\ \A seg \in dst.victims : dst.entry[seg].nr_valid_block < BlocksPerSegment
  BY DEF Core, LogTypeOK, TablesInv, Counted
<1>1. CASE index[lba] = NoRecord
  BY <1>0, <1>1 DEF Invalidated, Holds, Core, TablesInv
<1>2. CASE index[lba] # NoRecord
  <2> DEFINE blk == index[lba].pba
             t == ReturnBlock(dst, blk)
             e == [nr_valid_block |-> dst.entry[blk[1]].nr_valid_block - 1,
                   block_validity_table |->
                       dst.entry[blk[1]].block_validity_table \ {blk[2]}]
  <2>1. /\ blk \in Blocks /\ blk[1] \in svt.valid /\ blk[1] \in Segments
        /\ blk = <<blk[1], blk[2]>>
    BY <1>2, RecordBlock
  <2>2. blk[2] \in dst.entry[blk[1]].block_validity_table
    BY <1>2 DEF Core, RecordsInv
  <2>3. /\ t \in Tables
        /\ t.entry = [dst.entry EXCEPT ![blk[1]] = e]
        /\ t.victims = dst.victims \cup {blk[1]}
        /\ Counted(e) /\ e.nr_valid_block < BlocksPerSegment
    <3> HIDE DEF blk
    <3> QED BY <1>0, <2>1, <2>2, ReturnBlockFacts
  <2>4. e.block_validity_table = dst.entry[blk[1]].block_validity_table \ {blk[2]}
    OBVIOUS
  <2>5. \A seg \in Segments : \A off :
            Holds(lba, <<seg, off>>) <=> seg = blk[1] /\ off = blk[2]
    BY <1>2, <2>1 DEF Holds
  <2>6. Invalidated(lba) = t
    BY <1>2 DEF Invalidated
  <2>7. DOMAIN dst.entry = Segments /\ dst.victims \subseteq Segments
    BY <1>0 DEF Tables
  <2>8. \A seg \in Segments : seg \notin svt.valid => dst.entry[seg] = EmptyEntry
    BY DEF Core, TablesInv
  <2> HIDE DEF t, e, blk
  <2>9. \A seg \in Segments :
            t.entry[seg] = IF seg = blk[1] THEN e ELSE dst.entry[seg]
    BY <2>1, <2>3, <2>7
  <2>10. \A seg \in Segments : Counted(t.entry[seg])
    BY <1>0, <2>3, <2>9
  <2>11. \A seg \in Segments : seg \notin svt.valid => t.entry[seg] = EmptyEntry
    BY <2>1, <2>8, <2>9
  <2>12. \A seg \in Segments : t.entry[seg].block_validity_table =
            {off \in dst.entry[seg].block_validity_table : ~ Holds(lba, <<seg, off>>)}
    BY <2>4, <2>5, <2>9
  <2>13. \A seg \in t.victims : t.entry[seg].nr_valid_block < BlocksPerSegment
    BY <1>0, <2>1, <2>3, <2>7, <2>9
  <2> QED BY <2>3, <2>6, <2>10, <2>11, <2>12, <2>13
<1> QED BY <1>1, <1>2

(* Logging a block at the current slot: the new record, the other records  *)
(* and the marks that Invalidated leaves fit together again.               *)
LEMMA LogBlockFacts ==
    ASSUME Core, NEW lba \in Lbas, NEW data \in Data,
           LogBlock(lba, data, <<cur_segment, cur_block>>)
    PROVE  LET new == Seal(<<cur_segment, cur_block>>, lba, data)
               t == Invalidated(lba) IN
           /\ new \in Sealed
           /\ rit' \in [Blocks -> Lbas]
           /\ index' \in [Lbas -> Sealed \cup {NoRecord}]
           /\ buffer' \in [Offsets -> Data]
           /\ pipe' \in [Offsets -> Sealed \cup {Garbage}]
           /\ index'[lba] = new
           /\ \A l \in Lbas \ {lba} : index'[l] = index[l]
           /\ \A o \in Offsets \ {cur_block} : pipe'[o] = pipe[o] /\ buffer'[o] = buffer[o]
           /\ pipe'[cur_block] = new /\ buffer'[cur_block] = data
           /\ \A l \in Lbas : index'[l] # NoRecord =>
                 /\ index'[l].lba = l
                 /\ rit'[index'[l].pba] = l
                 /\ index'[l].pba[2] \in t.entry[index'[l].pba[1]].block_validity_table
           /\ \A seg \in Segments : \A off \in t.entry[seg].block_validity_table :
                 \/ index'[rit'[<<seg, off>>]] # NoRecord
                    /\ index'[rit'[<<seg, off>>]].pba = <<seg, off>>
                 \/ seg = cur_segment /\ off > cur_block
<1> DEFINE blk == <<cur_segment, cur_block>>
           new == Seal(blk, lba, data)
           t == Invalidated(lba)
<1>1. cur_segment \in Segments /\ cur_block \in Offsets /\ blk \in Blocks
  BY DEF Core, LogTypeOK, Blocks
<1>2. /\ new \in Sealed /\ new # NoRecord
      /\ new.pba = blk /\ new.lba = lba /\ new.data = data
  BY <1>1, SealAssumption DEF Sealed, Seal
<1>3. /\ index' = [index EXCEPT ![lba] = new]
      /\ rit' = [rit EXCEPT ![blk] = lba]
      /\ pipe' = [pipe EXCEPT ![cur_block] = new]
      /\ buffer' = [buffer EXCEPT ![cur_block] = data]
  BY DEF LogBlock
<1> HIDE DEF new
<1>4. /\ rit' \in [Blocks -> Lbas]
      /\ index' \in [Lbas -> Sealed \cup {NoRecord}]
      /\ buffer' \in [Offsets -> Data]
      /\ pipe' \in [Offsets -> Sealed \cup {Garbage}]
  BY <1>1, <1>2, <1>3 DEF Core, LogTypeOK
<1>5. /\ index'[lba] = new
      /\ \A l \in Lbas \ {lba} : index'[l] = index[l]
      /\ \A o \in Offsets \ {cur_block} : pipe'[o] = pipe[o] /\ buffer'[o] = buffer[o]
      /\ pipe'[cur_block] = new /\ buffer'[cur_block] = data
      /\ rit'[blk] = lba
      /\ \A b \in Blocks : b # blk => rit'[b] = rit[b]
  BY <1>1, <1>3 DEF Core, LogTypeOK
<1>6. ASSUME NEW l \in Lbas, index[l] # NoRecord PROVE index[l].pba # blk
  <2>1. Stored(l) /\ cur_block \in Int
    BY <1>1, <1>6 DEF Core, RecordsInv, Offsets
  <2>2. CASE index[l].pba[1] = cur_segment
    BY <2>1, <2>2 DEF Stored
  <2>3. CASE index[l].pba[1] # cur_segment
    BY <2>3
  <2> QED BY <2>2, <2>3
<1>7. \A seg \in Segments : t.entry[seg].block_validity_table =
        {off \in dst.entry[seg].block_validity_table : ~ Holds(lba, <<seg, off>>)}
  BY InvalidatedFacts
<1>8. cur_block \in t.entry[cur_segment].block_validity_table
  <2>1. cur_block \in dst.entry[cur_segment].block_validity_table
    BY <1>1 DEF Core, TablesInv, Offsets
  <2>2. ~ Holds(lba, blk)
    BY <1>6 DEF Holds
  <2> QED BY <1>1, <1>7, <2>1, <2>2
<1> HIDE DEF t
<1>9. ASSUME NEW l \in Lbas, index'[l] # NoRecord
      PROVE  /\ index'[l].lba = l
             /\ rit'[index'[l].pba] = l
             /\ index'[l].pba[2] \in t.entry[index'[l].pba[1]].block_validity_table
  <2>1. CASE l = lba
    BY <1>2, <1>5, <1>8, <2>1
  <2>2. CASE l # lba
    <3> DEFINE b == index[l].pba
    <3>1. index'[l] = index[l] /\ index[l] # NoRecord
      BY <1>5, <1>9, <2>2
    <3>2. /\ index[l].lba = l /\ rit[b] = l
          /\ b[2] \in dst.entry[b[1]].block_validity_table
      BY <3>1 DEF Core, RecordsInv
    <3>3. b \in Blocks /\ b # blk /\ b = <<b[1], b[2]>> /\ b[1] \in Segments
      BY <1>6, <3>1, RecordBlock
    <3>4. ~ Holds(lba, b)
      BY <2>2, <3>2 DEF Holds, Core, RecordsInv
    <3> HIDE DEF b
    <3>5. b[2] \in t.entry[b[1]].block_validity_table
      BY <1>7, <3>2, <3>3, <3>4
    <3>6. rit'[b] = l
      BY <1>5, <3>2, <3>3
    <3> QED BY <3>1, <3>2, <3>5, <3>6 DEF b
  <2> QED BY <2>1, <2>2
<1>10. ASSUME NEW seg \in Segments, NEW off \in t.entry[seg].block_validity_table
       PROVE  \/ /\ index'[rit'[<<seg, off>>]] # NoRecord
                 /\ index'[rit'[<<seg, off>>]].pba = <<seg, off>>
              \/ seg = cur_segment /\ off > cur_block
  <2> DEFINE b == <<seg, off>>
  <2>1. off \in dst.entry[seg].block_validity_table /\ ~ Holds(lba, b)
    BY <1>7
  <2>2. off \in Offsets /\ b \in Blocks /\ b[1] = seg /\ b[2] = off
    BY <2>1 DEF Core, LogTypeOK, Tables, Entry, Blocks
  <2>3. CASE b = blk
    BY <1>2, <1>5, <2>3
  <2>4. CASE b # blk
    <3>1. Owned(b)
      BY <2>1 DEF Core, TablesInv
    <3>2. rit'[b] = rit[b] /\ rit[b] \in Lbas
      BY <1>5, <2>2, <2>4 DEF Core, LogTypeOK
    <3>3. CASE Holds(rit[b], b)
      BY <1>5, <2>1, <3>2, <3>3 DEF Holds
    <3>4. CASE b[1] = cur_segment /\ b[2] >= cur_block
      BY <1>1, <2>2, <2>4, <3>4 DEF Offsets
    <3> QED BY <3>1, <3>3, <3>4 DEF Owned, Holds
  <2> QED BY <2>3, <2>4
<1> QED BY <1>2, <1>4, <1>5, <1>9, <1>10 DEF new, t

(* What one append does besides keeping Core, for the steps that call it.  *)
AppendEffects(lba, data) ==
    /\ index' = [index EXCEPT ![lba] = Seal(<<cur_segment, cur_block>>, lba, data)]
    /\ \A blk \in Blocks : blk[1] # cur_segment => disk'[blk] = disk[blk]
    /\ svt.valid \subseteq svt'.valid
    /\ \/ /\ cur_segment' = cur_segment
          /\ cur_block + 1 < BlocksPerSegment
       \/ /\ cur_segment' \notin svt.valid
          /\ dst'.entry[cur_segment'].block_validity_table = Offsets
    /\ \A seg \in svt.valid : dst'.entry[seg].block_validity_table =
          {off \in dst.entry[seg].block_validity_table : ~ Holds(lba, <<seg, off>>)}

(* An append that leaves room in the current segment.                      *)
LEMMA AppendWithinSegment ==
    ASSUME Core, NEW lba \in Lbas, NEW data \in Data, AppendLog(lba, data),
           cur_block + 1 < BlocksPerSegment
    PROVE  Core' /\ AppendEffects(lba, data)
<1> DEFINE blk == <<cur_segment, cur_block>>
           new == Seal(blk, lba, data)
           t == Invalidated(lba)
<1>1. /\ LogBlock(lba, data, blk)
      /\ cur_block' = cur_block + 1 /\ dst' = t
      /\ svt' = svt /\ nr_valid_segment' = nr_valid_segment
      /\ cur_segment' = cur_segment /\ disk' = disk
  BY DEF AppendLog, allocatorVars
<1>2. /\ new \in Sealed
      /\ rit' \in [Blocks -> Lbas]
      /\ index' \in [Lbas -> Sealed \cup {NoRecord}]
      /\ buffer' \in [Offsets -> Data]
      /\ pipe' \in [Offsets -> Sealed \cup {Garbage}]
      /\ index'[lba] = new
      /\ \A l \in Lbas \ {lba} : index'[l] = index[l]
      /\ \A o \in Offsets \ {cur_block} : pipe'[o] = pipe[o] /\ buffer'[o] = buffer[o]
      /\ pipe'[cur_block] = new /\ buffer'[cur_block] = data
  BY <1>1, LogBlockFacts
<1>3. \A l \in Lbas : index'[l] # NoRecord =>
                 /\ index'[l].lba = l
                 /\ rit'[index'[l].pba] = l
                 /\ index'[l].pba[2] \in t.entry[index'[l].pba[1]].block_validity_table
  BY <1>1, LogBlockFacts
<1>4. \A seg \in Segments : \A off \in t.entry[seg].block_validity_table :
                 \/ index'[rit'[<<seg, off>>]] # NoRecord
                    /\ index'[rit'[<<seg, off>>]].pba = <<seg, off>>
                 \/ seg = cur_segment /\ off > cur_block
  BY <1>1, LogBlockFacts
<1>5. /\ t \in Tables
      /\ \A seg \in Segments :
                 /\ Counted(t.entry[seg])
                 /\ seg \notin svt.valid => t.entry[seg] = EmptyEntry
                 /\ t.entry[seg].block_validity_table =
                      {off \in dst.entry[seg].block_validity_table : ~ Holds(lba, <<seg, off>>)}
      /\ \A seg \in t.victims : t.entry[seg].nr_valid_block < BlocksPerSegment
  BY InvalidatedFacts
<1>6. new.pba = blk /\ new.data = data /\ blk[1] = cur_segment /\ blk[2] = cur_block
  BY DEF Seal
<1>7. index' = [index EXCEPT ![lba] = new]
  BY <1>1 DEF LogBlock
<1> HIDE DEF t, new
<1>8. LogTypeOK'
  <2>1. cur_block + 1 \in Offsets
    BY DstAssumption DEF Core, LogTypeOK, Offsets
  <2> QED BY <1>1, <1>2, <1>5, <2>1 DEF LogTypeOK, Core
<1>9. SegmentCount'
  BY <1>1 DEF Core, SegmentCount
<1>10. RecordsInv'
  <2> SUFFICES ASSUME NEW l \in Lbas, index'[l] # NoRecord PROVE Stored(l)'
    BY <1>1, <1>3 DEF RecordsInv
  <2>0. cur_block \in Int
    BY DEF Core, LogTypeOK, Offsets
  <2>1. CASE l = lba
    BY <1>1, <1>2, <1>6, <2>0, <2>1 DEF Stored
  <2>2. CASE l # lba
    <3>1. index'[l] = index[l] /\ index[l] # NoRecord /\ Stored(l)
      BY <1>2, <2>2 DEF Core, RecordsInv
    <3>2. index[l].pba[2] \in Offsets
      BY <3>1, RecordBlock
    <3>3. CASE index[l].pba[1] = cur_segment
      <4>1. index[l].pba[2] \in Offsets \ {cur_block} /\ index[l].pba[2] < cur_block + 1
        BY <2>0, <3>1, <3>2, <3>3 DEF Stored, Offsets
      <4> QED BY <1>1, <1>2, <3>1, <3>3, <4>1 DEF Stored
    <3>4. CASE index[l].pba[1] # cur_segment
      BY <1>1, <3>1, <3>4 DEF Stored
    <3> QED BY <3>3, <3>4
  <2> QED BY <2>1, <2>2
<1>11. TablesInv'
  <2>1. cur_segment' \in svt'.valid
    BY <1>1 DEF Core, TablesInv
  <2>2. ASSUME NEW seg \in Segments
        PROVE  /\ t.entry[seg].nr_valid_block = Cardinality(t.entry[seg].block_validity_table)
               /\ seg \notin svt'.valid => t.entry[seg] = EmptyEntry
    BY <1>1, <1>5 DEF Counted
  <2>3. ASSUME NEW seg \in Segments, NEW off \in t.entry[seg].block_validity_table
        PROVE  Owned(<<seg, off>>)'
    <3>1. off \in Int /\ cur_block \in Int
      BY <1>5 DEF Core, LogTypeOK, Tables, Entry, Offsets
    <3> QED BY <1>1, <1>4, <3>1 DEF Owned
  <2>4. ASSUME NEW off \in Offsets, off >= cur_block'
        PROVE  off \in t.entry[cur_segment].block_validity_table
    <3>1. off >= cur_block /\ cur_block \in Int
      BY <1>1, <2>4 DEF Core, LogTypeOK, Offsets
    <3>2. ~ Holds(lba, <<cur_segment, off>>)
      BY <3>1 DEF Core, RecordsInv, Stored, Holds, Offsets
    <3>3. off \in dst.entry[cur_segment].block_validity_table /\ cur_segment \in Segments
      BY <3>1 DEF Core, TablesInv, LogTypeOK
    <3> QED BY <1>5, <3>2, <3>3
  <2> QED BY <1>1, <1>5, <2>1, <2>2, <2>3, <2>4 DEF TablesInv
<1>12. AppendEffects(lba, data)
  <2>1. svt.valid \subseteq Segments
    BY DEF Core, LogTypeOK, Validators
  <2> QED BY <1>1, <1>5, <1>7, <2>1 DEF AppendEffects, new
<1> QED BY <1>8, <1>9, <1>10, <1>11, <1>12 DEF Core

(* An append that fills the current segment: it is flushed, and the next   *)
(* free segment becomes the current one.                                   *)
LEMMA AppendFillsSegment ==
    ASSUME Core, svt.valid # Segments, NEW lba \in Lbas, NEW data \in Data,
           AppendLog(lba, data), ~(cur_block + 1 < BlocksPerSegment)
    PROVE  Core' /\ AppendEffects(lba, data)
<1> DEFINE blk == <<cur_segment, cur_block>>
           new == Seal(blk, lba, data)
           t == Invalidated(lba)
           seg == NextSegment(svt, NrSegment)
<1> USE DstAssumption
<1>1. /\ LogBlock(lba, data, blk)
      /\ cur_block' = 0
      /\ disk' = Flushed(cur_segment, pipe')
      /\ Alloc(svt, nr_valid_segment, t)
  BY DEF AppendLog
<1>2. /\ new \in Sealed
      /\ rit' \in [Blocks -> Lbas]
      /\ index' \in [Lbas -> Sealed \cup {NoRecord}]
      /\ buffer' \in [Offsets -> Data]
      /\ pipe' \in [Offsets -> Sealed \cup {Garbage}]
      /\ index'[lba] = new
      /\ \A l \in Lbas \ {lba} : index'[l] = index[l]
      /\ \A o \in Offsets \ {cur_block} : pipe'[o] = pipe[o] /\ buffer'[o] = buffer[o]
      /\ pipe'[cur_block] = new /\ buffer'[cur_block] = data
  BY <1>1, LogBlockFacts
<1>3. \A l \in Lbas : index'[l] # NoRecord =>
                 /\ index'[l].lba = l
                 /\ rit'[index'[l].pba] = l
                 /\ index'[l].pba[2] \in t.entry[index'[l].pba[1]].block_validity_table
  BY <1>1, LogBlockFacts
<1>4. \A s \in Segments : \A off \in t.entry[s].block_validity_table :
                 \/ index'[rit'[<<s, off>>]] # NoRecord
                    /\ index'[rit'[<<s, off>>]].pba = <<s, off>>
                 \/ s = cur_segment /\ off > cur_block
  BY <1>1, LogBlockFacts
<1>5. /\ t \in Tables
      /\ \A s \in Segments :
                 /\ Counted(t.entry[s])
                 /\ s \notin svt.valid => t.entry[s] = EmptyEntry
                 /\ t.entry[s].block_validity_table =
                      {off \in dst.entry[s].block_validity_table : ~ Holds(lba, <<s, off>>)}
      /\ \A s \in t.victims : t.entry[s].nr_valid_block < BlocksPerSegment
  BY InvalidatedFacts
<1>6. new.pba = blk /\ blk[1] = cur_segment /\ blk[2] = cur_block
  BY DEF Seal
<1>7. index' = [index EXCEPT ![lba] = new]
  BY <1>1 DEF LogBlock
<1>8. svt \in Validators /\ cur_segment \in svt.valid /\ cur_segment \in Segments
  BY DEF Core, LogTypeOK, TablesInv
<1>9. seg # NoSegment /\ seg \in Segments /\ seg \notin svt.valid
  BY <1>8, NextSegmentIsFree
<1> HIDE DEF t, new, seg
<1>10. /\ svt' \in Validators /\ svt'.valid = svt.valid \cup {seg}
       /\ cur_segment' = seg /\ dst' = TakeSegment(t, seg)
  BY <1>1, <1>8, <1>9, TakeNextType DEF Alloc, seg
<1>11. SegmentCount'
  BY <1>1, <1>8, AllocCounts DEF Core, SegmentCount, CountInv
<1>12. /\ dst' \in Tables
       /\ dst'.entry = [t.entry EXCEPT ![seg] = FullEntry]
       /\ dst'.victims = t.victims \ {seg}
  <2>1. t.entry[seg] = EmptyEntry
    BY <1>5, <1>9
  <2>2. CanTakeSegment(t, seg)
    BY <2>1 DEF CanTakeSegment, EmptyEntry
  <2> QED BY <1>5, <1>9, <1>10, <2>2, TakeSegmentFacts
<1>13. /\ dst'.entry[seg] = FullEntry
       /\ \A s \in Segments \ {seg} : dst'.entry[s] = t.entry[s]
       /\ t.entry[seg].block_validity_table = {}
       /\ seg # cur_segment
  BY <1>5, <1>8, <1>9, <1>12 DEF Tables, EmptyEntry
<1>14. /\ disk' \in [Blocks -> Sealed \cup {Garbage}]
       /\ \A b \in Blocks : b[1] # cur_segment => disk'[b] = disk[b]
       /\ \A b \in Blocks : b[1] = cur_segment => disk'[b] = pipe'[b[2]]
  BY <1>1, <1>2 DEF Flushed, Blocks, Core, LogTypeOK
<1>15. cur_block \in Offsets /\ cur_block = BlocksPerSegment - 1 /\ 0 \in Offsets /\ blk \in Blocks
  BY DEF Core, LogTypeOK, Offsets, Blocks
<1>16. LogTypeOK'
  BY <1>1, <1>2, <1>9, <1>10, <1>12, <1>14, <1>15 DEF LogTypeOK
<1>17. RecordsInv'
  <2> SUFFICES ASSUME NEW l \in Lbas, index'[l] # NoRecord
               PROVE  /\ index'[l].pba[2] \in dst'.entry[index'[l].pba[1]].block_validity_table
                      /\ Stored(l)'
    BY <1>3 DEF RecordsInv
  <2> DEFINE b == index'[l].pba
  <2>1. b \in Blocks /\ b[1] \in Segments
    BY <1>2 DEF Sealed, Blocks
  <2>2. b[1] # seg /\ b[2] \in dst'.entry[b[1]].block_validity_table
    BY <1>3, <1>13, <2>1
  <2>3. disk'[b] = index'[l]
    <3>1. CASE l = lba
      BY <1>2, <1>6, <1>14, <1>15, <3>1
    <3>2. CASE l # lba
      <4>1. index'[l] = index[l] /\ index[l] # NoRecord /\ Stored(l)
        BY <1>2, <3>2 DEF Core, RecordsInv
      <4>2. index[l].pba \in Blocks /\ index[l].pba[2] \in Offsets
        BY <4>1, RecordBlock
      <4>3. CASE index[l].pba[1] = cur_segment
        <5>1. index[l].pba[2] \in Offsets \ {cur_block}
          <6>1. index[l].pba[2] < cur_block
            BY <4>1, <4>3 DEF Stored
          <6> QED BY <4>2, <6>1 DEF Offsets
        <5> QED BY <1>2, <1>14, <4>1, <4>2, <4>3, <5>1 DEF Stored
      <4>4. CASE index[l].pba[1] # cur_segment
        BY <1>14, <4>1, <4>2, <4>4 DEF Stored
      <4> QED BY <4>3, <4>4
    <3> QED BY <3>1, <3>2
  <2>4. Stored(l)'
    BY <1>10, <2>2, <2>3 DEF Stored
  <2> QED BY <2>2, <2>4
<1>18. TablesInv'
  <2>1. cur_segment' \in svt'.valid
    BY <1>10
  <2>2. ASSUME NEW s \in Segments
        PROVE  /\ dst'.entry[s].nr_valid_block = Cardinality(dst'.entry[s].block_validity_table)
               /\ s \notin svt'.valid => dst'.entry[s] = EmptyEntry
    <3>1. CASE s = seg
      BY <1>10, <1>13, <3>1, FiniteTables DEF FullEntry
    <3>2. CASE s # seg
      BY <1>5, <1>10, <1>13, <3>2 DEF Counted
    <3> QED BY <3>1, <3>2
  <2>3. ASSUME NEW s \in Segments, NEW off \in dst'.entry[s].block_validity_table
        PROVE  Owned(<<s, off>>)'
    <3>1. off \in Offsets /\ off >= 0
      BY <1>12 DEF Tables, Entry, Offsets
    <3>2. CASE s = seg
      BY <1>1, <1>10, <3>1, <3>2 DEF Owned
    <3>3. CASE s # seg
      <4>1. off \in t.entry[s].block_validity_table
        BY <1>13, <3>3
      <4>2. ~(off > cur_block)
        BY <1>15, <3>1 DEF Offsets
      <4> QED BY <1>4, <4>1, <4>2 DEF Owned
    <3> QED BY <3>2, <3>3
  <2>4. \A off \in Offsets : off \in dst'.entry[cur_segment'].block_validity_table
    BY <1>10, <1>13 DEF FullEntry
  <2>5. \A s \in dst'.victims : dst'.entry[s].nr_valid_block < BlocksPerSegment
    BY <1>5, <1>12, <1>13 DEF Tables
  <2> QED BY <2>1, <2>2, <2>3, <2>4, <2>5 DEF TablesInv
<1>19. AppendEffects(lba, data)
  <2>1. \A s \in svt.valid : s \in Segments /\ s # seg
    BY <1>8, <1>9 DEF Validators
  <2>2. dst'.entry[cur_segment'].block_validity_table = Offsets /\ cur_segment' \notin svt.valid
    <3>1. dst'.entry[cur_segment'] = FullEntry /\ cur_segment' \notin svt.valid
      BY <1>9, <1>10, <1>13
    <3> QED BY <3>1 DEF FullEntry
  <2>3. \A s \in svt.valid : dst'.entry[s].block_validity_table =
          {off \in dst.entry[s].block_validity_table : ~ Holds(lba, <<s, off>>)}
    BY <1>5, <1>13, <2>1
  <2>4. svt.valid \subseteq svt'.valid
    BY <1>10
  <2> QED BY <1>7, <1>14, <2>2, <2>3, <2>4 DEF AppendEffects, new
<1> QED BY <1>11, <1>16, <1>17, <1>18, <1>19 DEF Core
=============================================================================
