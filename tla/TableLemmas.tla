----------------------------- MODULE TableLemmas -----------------------------
(***************************************************************************)
(* Facts about the operators of SegValidator and DataSegmentTable, for     *)
(* every size of the tables.                                               *)
(***************************************************************************)
EXTENDS DataSegmentTable, SegValidator, FiniteSets, FiniteSetTheorems,
        WellFoundedInduction, TLAPS

Validators == [valid : SUBSET Segments, cur_segment : 0 .. NrSegment]

(* The count of an entry is the size of its bitmap.                        *)
Counted(e) == e.nr_valid_block = Cardinality(e.block_validity_table)

(* A non-empty set of naturals has a least element, which Least returns    *)
(* (the bit scans of seg_validator_next and find_first_bit).               *)
LEMMA LeastIsMin ==
    ASSUME NEW S, S \subseteq Nat, S # {}
    PROVE  Least(S) \in S /\ \A y \in S : Least(S) <= y
<1>1. \E x \in S : \A y \in S : ~ (<<y, x>> \in OpToRel(<, Nat))
  BY NatLessThanWellFounded, WFMin
<1>2. \E x \in S : \A y \in S : x <= y
  <2>1. PICK x \in S : \A y \in S : ~ (<<y, x>> \in OpToRel(<, Nat))
    BY <1>1
  <2>2. \A y \in S : ~ (y < x)
    BY <2>1 DEF OpToRel
  <2> QED BY <2>2
<1> QED BY <1>2 DEF Least

(* seg_validator_next returns a slot whose bit is clear, or -ENODATA, and  *)
(* the latter only when every bit is set.                                  *)
LEMMA NextSegmentIsFree ==
    ASSUME NEW V \in Validators
    PROVE  /\ NextSegment(V, NrSegment) # NoSegment
                => NextSegment(V, NrSegment) \in Segments \ V.valid
           /\ V.valid # Segments => NextSegment(V, NrSegment) # NoSegment
<1> USE DstAssumption
<1>1. \A from \in 0 .. NrSegment :
        /\ FreeFrom(V, NrSegment, from) \subseteq Nat
        /\ FreeFrom(V, NrSegment, from) \subseteq Segments \ V.valid
  BY DEF FreeFrom, Segments, Validators
<1>2. \A from \in 0 .. NrSegment : FreeFrom(V, NrSegment, from) # {} =>
        Least(FreeFrom(V, NrSegment, from)) \in Segments \ V.valid
  BY <1>1, LeastIsMin
<1>3. V.valid # Segments => FreeFrom(V, NrSegment, 0) # {}
  BY DEF FreeFrom, Segments, Validators
<1>4. NoSegment \notin Segments
  BY DEF NoSegment, Segments
<1>5. V.cur_segment \in 0 .. NrSegment /\ 0 \in 0 .. NrSegment
  BY DEF Validators
<1> QED BY <1>2, <1>3, <1>4, <1>5 DEF NextSegment

(* Taking the next slot sets one bit that was clear.                       *)
LEMMA TakeNextType ==
    ASSUME NEW V \in Validators
    PROVE  /\ TakeNext(V, NrSegment) \in Validators
           /\ NextSegment(V, NrSegment) = NoSegment
                => TakeNext(V, NrSegment).valid = V.valid
           /\ NextSegment(V, NrSegment) # NoSegment
                => TakeNext(V, NrSegment).valid = V.valid \cup {NextSegment(V, NrSegment)}
<1> USE DstAssumption
<1>1. CASE NextSegment(V, NrSegment) = NoSegment
  BY <1>1 DEF TakeNext, Validators
<1>2. CASE NextSegment(V, NrSegment) # NoSegment
  BY <1>2, NextSegmentIsFree DEF TakeNext, Validators, Segments
<1> QED BY <1>1, <1>2

(* Sets of segments and of offsets are finite.                             *)
LEMMA FiniteTables ==
    /\ \A S \in SUBSET Segments : IsFiniteSet(S) /\ Cardinality(S) \in 0 .. NrSegment
    /\ \A S \in SUBSET Offsets : IsFiniteSet(S) /\ Cardinality(S) \in 0 .. BlocksPerSegment
    /\ Cardinality(Offsets) = BlocksPerSegment
<1> USE DstAssumption
<1>1. IsFiniteSet(Segments) /\ Cardinality(Segments) = NrSegment
  BY FS_Interval DEF Segments
<1>2. IsFiniteSet(Offsets) /\ Cardinality(Offsets) = BlocksPerSegment
  BY FS_Interval DEF Offsets
<1>3. \A S \in SUBSET Segments : IsFiniteSet(S) /\ Cardinality(S) \in 0 .. NrSegment
  BY <1>1, FS_Subset, FS_CardinalityType
<1>4. \A S \in SUBSET Offsets : IsFiniteSet(S) /\ Cardinality(S) \in 0 .. BlocksPerSegment
  BY <1>2, FS_Subset, FS_CardinalityType
<1> QED BY <1>2, <1>3, <1>4

(* dst_take_segment on an empty segment marks it full and drops its node;  *)
(* no other entry changes.                                                 *)
LEMMA TakeSegmentFacts ==
    ASSUME NEW t \in Tables, NEW seg \in Segments, CanTakeSegment(t, seg)
    PROVE  /\ TakeSegment(t, seg) \in Tables
           /\ TakeSegment(t, seg).entry = [t.entry EXCEPT ![seg] = FullEntry]
           /\ TakeSegment(t, seg).victims = t.victims \ {seg}
<1> USE DstAssumption
<1>1. FullEntry \in Entry
  BY DEF FullEntry, Entry
<1> QED BY <1>1 DEF TakeSegment, SetEntry, Tables, FullEntry

(* dst_return_block of a marked block clears one bit, lowers the count by  *)
(* one and makes the segment a victim; no other entry changes.             *)
LEMMA ReturnBlockFacts ==
    ASSUME NEW t \in Tables, NEW blk \in Blocks,
           Counted(t.entry[blk[1]]),
           blk[2] \in t.entry[blk[1]].block_validity_table
    PROVE  LET r == ReturnBlock(t, blk)
               e == [nr_valid_block |-> t.entry[blk[1]].nr_valid_block - 1,
                     block_validity_table |-> t.entry[blk[1]].block_validity_table \ {blk[2]}]
           IN  /\ r \in Tables
               /\ r.entry = [t.entry EXCEPT ![blk[1]] = e]
               /\ r.victims = t.victims \cup {blk[1]}
               /\ e \in Entry /\ Counted(e) /\ e.nr_valid_block < BlocksPerSegment
<1> USE DstAssumption
<1> DEFINE seg == blk[1]
           nr == t.entry[seg].nr_valid_block
           bits == t.entry[seg].block_validity_table
           e == [nr_valid_block |-> nr - 1, block_validity_table |-> bits \ {blk[2]}]
<1>1. /\ seg \in Segments /\ t.entry[seg] \in Entry
      /\ nr \in 0 .. BlocksPerSegment /\ bits \in SUBSET Offsets
  BY DEF Blocks, Tables, Entry
<1>2. nr = Cardinality(bits) /\ IsFiniteSet(bits) /\ blk[2] \in bits
  BY <1>1, FiniteTables DEF Counted
<1>3. nr # 0 /\ Cardinality(bits \ {blk[2]}) = nr - 1
  <2> HIDE DEF nr, bits
  <2> QED BY <1>2, FS_EmptySet, FS_RemoveElement
<1>4. e \in Entry /\ Counted(e) /\ e.nr_valid_block < BlocksPerSegment
  <2> HIDE DEF nr, bits
  <2> QED BY <1>1, <1>3 DEF Entry, Counted
<1>5. ReturnBlock(t, blk) = SetEntry(t, seg, e)
  BY <1>3 DEF ReturnBlock
<1>6. SetEntry(t, seg, e) = [entry |-> [t.entry EXCEPT ![seg] = e],
                             victims |-> t.victims \cup {seg}]
  <2>1. ~ (e.nr_valid_block >= BlocksPerSegment)
    <3> HIDE DEF e
    <3> QED BY <1>4 DEF Entry
  <2> HIDE DEF e
  <2> QED BY <2>1 DEF SetEntry
<1>7. ReturnBlock(t, blk) \in Tables
  <2> HIDE DEF e, seg
  <2> QED BY <1>1, <1>4, <1>5, <1>6 DEF Tables
<1>8. /\ ReturnBlock(t, blk).entry = [t.entry EXCEPT ![seg] = e]
      /\ ReturnBlock(t, blk).victims = t.victims \cup {seg}
  <2> HIDE DEF e, seg
  <2> QED BY <1>5, <1>6
<1> QED BY <1>4, <1>7, <1>8
=============================================================================
