-------------------------- MODULE SegmentLogProofs --------------------------
(***************************************************************************)
(* Theorems about SegmentLog, for every number and size of segments, every *)
(* GC reserve and every set of LBAs, sectors and values.                   *)
(***************************************************************************)
EXTENDS SegmentLog, TableLemmas

-----------------------------------------------------------------------------
(* The allocator's count.                                                  *)

CountInv == svt \in Validators /\ SegmentCount

(* The first allocation on a formatted device takes segment 0.             *)
LEMMA FirstSegment ==
    LET V == TakeNext([valid |-> {}, cur_segment |-> 0], NrSegment)
    IN  V \in Validators /\ V.valid = {0}
<1> USE DstAssumption
<1> DEFINE V == [valid |-> {}, cur_segment |-> 0]
<1>1. V \in Validators /\ V.valid # Segments
  BY DEF Validators, Segments
<1>2. FreeFrom(V, NrSegment, V.cur_segment) = Segments
  BY DEF FreeFrom, Segments
<1>3. 0 \in Segments /\ Segments \subseteq Nat /\ Segments # {}
  BY DEF Segments
<1>4. Least(Segments) = 0
  <2>1. Least(Segments) \in Segments /\ Least(Segments) <= 0
    BY <1>3, LeastIsMin
  <2> QED BY <2>1 DEF Segments
<1>5. NextSegment(V, NrSegment) = 0
  BY <1>2, <1>3, <1>4 DEF NextSegment
<1>6. V.valid = {}
  OBVIOUS
<1> HIDE DEF V
<1>7. TakeNext(V, NrSegment) \in Validators /\ TakeNext(V, NrSegment).valid = {0}
  BY <1>1, <1>5, <1>6, TakeNextType DEF NoSegment
<1> QED BY <1>7 DEF V

(* sa_alloc counts the one bit that it sets.                               *)
LEMMA AllocCounts ==
    ASSUME NEW V \in Validators, NEW nr, nr = Cardinality(V.valid), NEW t,
           Alloc(V, nr, t)
    PROVE  CountInv'
<1>1. svt' = TakeNext(V, NrSegment) /\ svt' \in Validators
  BY TakeNextType DEF Alloc
<1>2. IsFiniteSet(V.valid)
  BY FiniteTables DEF Validators
<1>3. CASE NextSegment(V, NrSegment) = NoSegment
  BY <1>1, <1>3, TakeNextType DEF Alloc, CountInv, SegmentCount
<1>4. CASE NextSegment(V, NrSegment) # NoSegment
  <2> DEFINE seg == NextSegment(V, NrSegment)
  <2>1. svt'.valid = V.valid \cup {seg} /\ seg \notin V.valid
    BY <1>1, <1>4, TakeNextType, NextSegmentIsFree
  <2>2. nr_valid_segment' = nr + 1
    BY <1>4 DEF Alloc
  <2>3. Cardinality(V.valid \cup {seg}) = Cardinality(V.valid) + 1
    <3> HIDE DEF seg
    <3> QED BY <1>2, <2>1, FS_AddElement
  <2> QED BY <1>1, <2>1, <2>2, <2>3 DEF CountInv, SegmentCount
<1> QED BY <1>3, <1>4

(* No push of a block makes the count and the table disagree.              *)
LEMMA PushCounts ==
    ASSUME CountInv, NEW lba, NEW data, PushBlock(lba, data)
    PROVE  CountInv'
<1>1. CASE UNCHANGED allocatorVars
  BY <1>1 DEF CountInv, SegmentCount, allocatorVars
<1>2. CASE Alloc(svt, nr_valid_segment, Invalidated(lba))
  BY <1>2, AllocCounts DEF CountInv, SegmentCount
<1> QED BY <1>1, <1>2 DEF PushBlock, ThreadedLog, AppendLog

(* sa_foreground_gc gives back a segment and counts it out at once.        *)
LEMMA GcFreeCounts ==
    ASSUME CountInv, GcFree
    PROVE  CountInv' /\ svt'.valid = svt.valid \ {gc.victim}
<1>1. svt' \in Validators
  BY DEF GcFree, ReturnSegment, CountInv, Validators
<1>2. IsFiniteSet(svt.valid)
  BY FiniteTables DEF CountInv, Validators
<1>3. svt'.valid = svt.valid \ {gc.victim}
  BY DEF GcFree, ReturnSegment, CountInv, Validators
<1>4. nr_valid_segment' = Cardinality(svt.valid \ {gc.victim})
  BY <1>2, FS_RemoveElement DEF GcFree, CountInv, SegmentCount
<1> QED BY <1>1, <1>3, <1>4 DEF CountInv, SegmentCount

(* The first segment is counted ...                                        *)
LEMMA InitCounts == Init => CountInv
<1> SUFFICES ASSUME Init PROVE CountInv
  OBVIOUS
<1>1. svt \in Validators /\ svt.valid = {0}
  BY FirstSegment DEF Init
<1>2. Cardinality(svt.valid) = 1
  BY <1>1, FS_Singleton
<1> QED BY <1>1, <1>2 DEF Init, CountInv, SegmentCount

(* ... and every step keeps the count.                                     *)
LEMMA StepCounts == CountInv /\ [RestartNext]_vars => CountInv'
<1> SUFFICES ASSUME CountInv, [RestartNext]_vars PROVE CountInv'
  OBVIOUS
<1>1. CASE UNCHANGED allocatorVars
  BY <1>1 DEF CountInv, SegmentCount, allocatorVars
<1>2. CASE Write
  <2>1. PICK lba \in Lbas, secs \in SUBSET Sectors \ {{}}, val \in Values :
          ModifyInBuffer(lba, secs, val) \/ PushNewBlock(lba, secs, val)
    BY <1>2 DEF Write
  <2>2. CASE ModifyInBuffer(lba, secs, val)
    BY <1>1, <2>2 DEF ModifyInBuffer, allocatorVars
  <2>3. CASE PushNewBlock(lba, secs, val)
    BY <2>3, PushCounts DEF PushNewBlock
  <2> QED BY <2>1, <2>2, <2>3
<1>3. CASE GcMove
  BY <1>1, <1>3, PushCounts DEF GcMove
<1>4. CASE GcFree
  BY <1>4, GcFreeCounts
<1>5. CASE Restart
  <2>1. ReloadValidator(svt) \in Validators /\ ReloadValidator(svt).valid = svt.valid
    BY DstAssumption DEF ReloadValidator, CountInv, Validators
  <2> QED BY <1>5, <2>1, AllocCounts DEF Restart
<1> QED BY <1>1, <1>2, <1>3, <1>4, <1>5
      DEF RestartNext, Gc, GcEnd, GcPick, BootGcOops, allocatorVars, vars

(* The segment count that decides about collections (sa_will_trigger_gc)   *)
(* and about threaded logging is the number of taken segments, in every    *)
(* behaviour: with threaded logging, a full log and restarts.              *)
THEOREM SegmentCountCorrect == RestartSpec => []SegmentCount
<1>1. CountInv => SegmentCount
  BY DEF CountInv
<1> QED BY <1>1, InitCounts, StepCounts, PTL DEF RestartSpec
=============================================================================
