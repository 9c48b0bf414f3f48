----------------------------- MODULE RoomProofs -----------------------------
(***************************************************************************)
(* Whether the log runs out of segments.  No segment that has blocks to    *)
(* reclaim is forgotten; hence a device with room to collect always has a  *)
(* free segment, and one with still more room never comes to threaded      *)
(* logging: on it the log is a block device without further conditions.  A *)
(* device smaller than the reserve never collects at all.                  *)
(***************************************************************************)
EXTENDS DeviceProofs

-----------------------------------------------------------------------------
(* No segment is forgotten.                                                *)

(* Giving back a block makes its segment a victim.                         *)
LEMMA InvalidatedReclaimable ==
    ASSUME Core, ReclaimableIsVictim, NEW lba \in Lbas
    PROVE  /\ Invalidated(lba) \in Tables
           /\ \A seg \in svt.valid :
                Invalidated(lba).entry[seg].nr_valid_block < BlocksPerSegment
                  => seg \in Invalidated(lba).victims
           /\ \A seg \in Segments :
                seg \notin svt.valid => Invalidated(lba).entry[seg] = EmptyEntry
<1>1. /\ dst \in Tables /\ svt.valid \subseteq Segments
      /\ \A seg \in Segments : Counted(dst.entry[seg])
  BY DEF Core, LogTypeOK, TablesInv, Counted, Validators
<1>2. CASE index[lba] = NoRecord
  BY Zenon, <1>1, <1>2 DEF Invalidated, ReclaimableIsVictim, Core, TablesInv
<1>3. CASE index[lba] # NoRecord
  <2> DEFINE blk == index[lba].pba
             t == ReturnBlock(dst, blk)
  <2>1. blk \in Blocks /\ blk[1] \in Segments
    BY Zenon, <1>3, RecordBlock
  <2>2. blk[2] \in dst.entry[blk[1]].block_validity_table
    BY Zenon, <1>3 DEF Core, RecordsInv
  <2>3. /\ DOMAIN t.entry = Segments
        /\ \A seg \in Segments \ {blk[1]} : t.entry[seg] = dst.entry[seg]
        /\ t.victims = dst.victims \cup {blk[1]}
    <3> HIDE DEF blk
    <3>1. /\ t.victims = dst.victims \cup {blk[1]}
          /\ t.entry = [dst.entry EXCEPT ![blk[1]] =
                          [nr_valid_block |-> dst.entry[blk[1]].nr_valid_block - 1,
                           block_validity_table |->
                             dst.entry[blk[1]].block_validity_table \ {blk[2]}]]
      BY Zenon, <1>1, <2>1, <2>2, ReturnBlockFacts
    <3>2. DOMAIN dst.entry = Segments
      BY <1>1 DEF Tables
    <3> HIDE DEF t
    <3> QED BY ONLY <2>1, <3>1, <3>2
  <2>4. Invalidated(lba) = t
    BY ONLY <1>3 DEF Invalidated
  <2> HIDE DEF t, blk
  <2>5. \A seg \in svt.valid : t.entry[seg].nr_valid_block < BlocksPerSegment => seg \in t.victims
    BY <1>1, <2>3 DEF ReclaimableIsVictim
  <2> QED BY <2>4, <2>5, InvalidatedFacts
<1> QED BY ONLY <1>2, <1>3

(* Appending a block puts a segment that has one to reclaim into the       *)
(* victim tree.                                                            *)
LEMMA PushReclaimable ==
    ASSUME Core, Steady, ReclaimableIsVictim, NEW lba \in Lbas, NEW data, PushBlock(lba, data)
    PROVE  ReclaimableIsVictim'
<1> DEFINE t == Invalidated(lba)
           seg == NextSegment(svt, NrSegment)
<1> USE DstAssumption
<1>1. AppendLog(lba, data) /\ svt.valid # Segments
  BY DEF PushBlock, Steady
<1>2. /\ t \in Tables
      /\ \A s \in svt.valid : t.entry[s].nr_valid_block < BlocksPerSegment => s \in t.victims
      /\ \A s \in Segments : s \notin svt.valid => t.entry[s] = EmptyEntry
  BY InvalidatedReclaimable
<1>3. svt \in Validators
  BY DEF Core, LogTypeOK
<1> HIDE DEF t
<1>4. CASE cur_block + 1 < BlocksPerSegment
  <2>1. dst' = t /\ svt' = svt
    BY ONLY <1>1, <1>4 DEF AppendLog, allocatorVars, t
  <2> QED BY <1>2, <2>1 DEF ReclaimableIsVictim
<1>5. CASE ~(cur_block + 1 < BlocksPerSegment)
  <2>1. Alloc(svt, nr_valid_segment, t)
    BY ONLY <1>1, <1>5 DEF AppendLog, t
  <2>2. seg # NoSegment /\ seg \in Segments /\ seg \notin svt.valid
    BY ONLY <1>1, <1>3, NextSegmentIsFree
  <2>3. svt'.valid = svt.valid \cup {seg} /\ dst' = TakeSegment(t, seg)
    BY Zenon, <1>3, <2>1, <2>2, TakeNextType DEF Alloc
  <2> HIDE DEF seg
  <2>4. CanTakeSegment(t, seg)
    <3>1. t.entry[seg] = EmptyEntry
      BY ONLY Zenon, <1>2, <2>2
    <3> QED BY ONLY <3>1 DEF CanTakeSegment, EmptyEntry
  <2>5. dst'.entry = [t.entry EXCEPT ![seg] = FullEntry] /\ dst'.victims = t.victims \ {seg}
    BY Zenon, <1>2, <2>2, <2>3, <2>4, TakeSegmentFacts
  <2>6. /\ dst'.entry[seg].nr_valid_block = BlocksPerSegment
        /\ \A s \in svt.valid : s # seg /\ dst'.entry[s] = t.entry[s]
    BY ONLY <1>2, <1>3, <2>2, <2>5 DEF Tables, FullEntry, Validators
  <2> QED BY <1>2, <2>3, <2>5, <2>6 DEF ReclaimableIsVictim
<1> QED BY <1>4, <1>5

(* The constructor on a formatted device leaves no segment to reclaim.      *)
LEMMA InitReclaimable == Init => ReclaimableIsVictim
<1> SUFFICES ASSUME Init PROVE ReclaimableIsVictim
  OBVIOUS
<1> USE DstAssumption
<1>1. svt.valid = {0} /\ 0 \in Segments
  BY FirstSegment DEF Init, Segments
<1>2. FormatDst \in Tables /\ CanTakeSegment(FormatDst, 0)
  BY <1>1 DEF FormatDst, LoadDst, Tables, Entry, EmptyEntry, CanTakeSegment
<1>3. dst.entry = [FormatDst.entry EXCEPT ![0] = FullEntry] /\ DOMAIN FormatDst.entry = Segments
  BY Zenon, <1>1, <1>2, TakeSegmentFacts DEF Init, Tables
<1>4. dst.entry[0].nr_valid_block = BlocksPerSegment
  BY <1>1, <1>3 DEF FullEntry
<1> QED BY <1>1, <1>4 DEF ReclaimableIsVictim

(* No step within the limits forgets a segment.                            *)
LEMMA StepReclaimable ==
    IndInv /\ ReclaimableIsVictim /\ [Next /\ Steady]_vars => ReclaimableIsVictim'
<1> SUFFICES ASSUME IndInv, ReclaimableIsVictim, [Next /\ Steady]_vars
             PROVE  ReclaimableIsVictim'
  OBVIOUS
<1>1. Core
  BY IndInvParts
<1>2. CASE dst' = dst /\ svt' = svt
  BY <1>2 DEF ReclaimableIsVictim
<1>3. ASSUME NEW lba \in Lbas, NEW secs, NEW val, PushNewBlock(lba, secs, val), Steady
      PROVE  ReclaimableIsVictim'
  BY <1>1, <1>3, PushReclaimable DEF PushNewBlock
<1>4. CASE GcMove /\ Steady
  <2> DEFINE lba == rit[<<gc.victim, Least(gc.todo)>>]
  <2>1. gc.victim \in Segments /\ Least(gc.todo) \in Offsets
    <3>1. gc.phase = "move" /\ gc.todo \subseteq Offsets /\ gc.todo # {} /\ gc.victim \in Segments
      BY <1>4 DEF GcMove, IndInv, GcInv, TypeOK
    <3>2. gc.todo \in SUBSET Nat
      BY <3>1 DEF Offsets
    <3> QED BY <3>1, <3>2, LeastIsMin
  <2>2. lba \in Lbas
    BY <1>1, <2>1 DEF Core, LogTypeOK, Blocks
  <2>3. PushBlock(lba, index[lba].data) \/ (dst' = dst /\ svt' = svt)
    BY <1>4 DEF GcMove, allocatorVars
  <2> HIDE DEF lba
  <2> QED BY Zenon, <1>1, <1>2, <1>4, <2>2, <2>3, PushReclaimable
<1>5. CASE GcFree
  <2>1. svt'.valid = svt.valid \ {gc.victim}
    BY <1>1, <1>5, GcFreeCounts DEF Core, LogTypeOK, CountInv
  <2>2. dst'.entry = dst.entry /\ dst'.victims = dst.victims \ {gc.victim}
    BY ONLY <1>1, <1>5 DEF GcFree, RemoveVictim, Core, LogTypeOK, Tables
  <2> QED BY Zenon, <2>1, <2>2 DEF ReclaimableIsVictim
<1>6. ASSUME NEW lba \in Lbas, NEW secs, NEW val, ModifyInBuffer(lba, secs, val)
      PROVE  ReclaimableIsVictim'
  BY Zenon, <1>2, <1>6 DEF ModifyInBuffer
<1>7. CASE GcEnd \/ GcPick \/ UNCHANGED vars
  BY Zenon, <1>2, <1>7 DEF GcEnd, GcPick, allocatorVars, vars
<1> QED BY <1>3, <1>4, <1>5, <1>6, <1>7 DEF Next, Write, Gc

(* Within the limits no segment is forgotten: whatever is overwritten,     *)
(* moved or freed, a taken segment that is not full has its node in the    *)
(* victim tree (dst_update_victim, dst_remove_victim).                     *)
THEOREM ReclaimableIsVictimWithinLimits == SteadySpec => []ReclaimableIsVictim
BY InitReclaimable, StepReclaimable, SteadyInvariant, PTL DEF SteadySpec
-----------------------------------------------------------------------------
(* With room to collect a segment is always free.                          *)

(* How many blocks of the victim the collector has visited.                *)
Visited ==
    IF gc.phase \in {"move", "free"} THEN gc.entry.nr_valid_block - Cardinality(gc.todo) ELSE 0

(* The segments that a collection takes are paid for by those it frees: it *)
(* starts on an empty segment, appends at most the blocks it visits, and   *)
(* counts in `clean' what is left over of every segment freed.             *)
Space ==
    /\ gc.phase = "idle" => nr_valid_segment <= NrSegment - 2
    /\ gc.phase # "idle" =>
          gc.clean + cur_block - Visited <= (NrSegment - 1 - nr_valid_segment) * BlocksPerSegment
    /\ gc.phase \in {"move", "free"} =>
          /\ gc.entry.nr_valid_block < BlocksPerSegment
          /\ gc.victim \notin svt.valid => gc.entry.nr_valid_block = 0

SpaceInv == ReclaimableIsVictim /\ Space

(* Numbers of a device with room to collect.                               *)
LEMMA RoomFacts ==
    ASSUME RoomToCollect
    PROVE  /\ GcThreshold \in Nat \ {0} /\ GcThreshold <= NrSegment - 2
           /\ IsFiniteSet(Lbas) /\ Cardinality(Lbas) \in Nat
           /\ Cardinality(Lbas) < (NrSegment - 2) * BlocksPerSegment
<1>1. GcThreshold \in Nat \ {0}
  BY LogAssumption, DstAssumption DEF GcThreshold
<1> QED BY <1>1, DstAssumption, FS_CardinalityType DEF RoomToCollect

(* A product that exceeds minus one factor has no negative other factor.   *)
LEMMA ProductSign ==
    ASSUME NEW x \in Int, NEW b \in Nat \ {0}, x * b > -b
    PROVE  x >= 0
<1> SUFFICES ASSUME x <= -1 PROVE FALSE
  OBVIOUS
<1>1. \E y \in Nat : x = -1 - y
  <2>1. -1 - x \in Nat /\ x = -1 - (-1 - x)
    OBVIOUS
  <2> QED BY <2>1
<1>2. PICK y \in Nat : x = -1 - y
  BY <1>1
<1>3. y * b \in Nat
  OBVIOUS
<1>4. x * b = -b - y * b
  BY <1>2
<1> QED BY <1>3, <1>4

(* Products of naturals grow with both factors.                            *)
LEMMA ProductGrows ==
    ASSUME NEW a \in Nat, NEW b \in Nat, NEW c \in Nat, NEW d \in Nat, a <= c, b <= d
    PROVE  a * b <= c * d
<1>1. PICK x \in Nat : c = a + x
  <2>1. c - a \in Nat /\ c = a + (c - a)
    OBVIOUS
  <2> QED BY <2>1
<1>2. PICK y \in Nat : d = b + y
  <2>1. d - b \in Nat /\ d = b + (d - b)
    OBVIOUS
  <2> QED BY <2>1
<1>3. a * y \in Nat /\ x * b \in Nat /\ x * y \in Nat /\ a * b \in Nat
  OBVIOUS
<1>4. c * d = a * b + a * y + x * b + x * y
  BY <1>1, <1>2
<1> QED BY <1>3, <1>4

(* A finite set with at least m elements has m different ones.             *)
LEMMA Enumerates ==
    ASSUME NEW S, IsFiniteSet(S), NEW m \in Nat, m <= Cardinality(S)
    PROVE  \E f \in [1 .. m -> S] : \A i, j \in 1 .. m : f[i] = f[j] => i = j
<1>1. PICK g \in Bijection(1 .. Cardinality(S), S) : TRUE
  BY FS_CardinalityType DEF ExistsBijection
<1>2. /\ Cardinality(S) \in Nat
      /\ g \in [1 .. Cardinality(S) -> S]
      /\ \A i, j \in 1 .. Cardinality(S) : g[i] = g[j] => i = j
  BY <1>1, FS_CardinalityType DEF Bijection, Injection, IsInjective
<1> DEFINE f == [i \in 1 .. m |-> g[i]]
<1>3. f \in [1 .. m -> S] /\ \A i, j \in 1 .. m : f[i] = f[j] => i = j
  BY <1>2
<1> QED BY Zenon, <1>3

(* If every taken segment counts at least m valid blocks, then those of    *)
(* all but the current one belong to as many different LBAs: the reverse   *)
(* index leads from a marked block to the one LBA whose record points to   *)
(* it.                                                                     *)
LEMMA MarkedBlocksFit ==
    ASSUME Core, IsFiniteSet(Lbas), NEW m \in Nat,
           \A seg \in svt.valid : m <= dst.entry[seg].nr_valid_block
    PROVE  (nr_valid_segment - 1) * m <= Cardinality(Lbas)
<1> DEFINE B(seg) == dst.entry[seg].block_validity_table
           Others == svt.valid \ {cur_segment}
           Enum(seg) == CHOOSE f \in [1 .. m -> B(seg)] :
                          \A i, j \in 1 .. m : f[i] = f[j] => i = j
           owner == [p \in Others \X (1 .. m) |-> rit[<<p[1], Enum(p[1])[p[2]]>>]]
<1>1. /\ svt.valid \subseteq Segments /\ dst \in Tables /\ rit \in [Blocks -> Lbas]
      /\ cur_segment \in svt.valid /\ nr_valid_segment = Cardinality(svt.valid)
  BY DEF Core, LogTypeOK, TablesInv, SegmentCount, Validators
<1>2. ASSUME NEW seg \in svt.valid
      PROVE  /\ Enum(seg) \in [1 .. m -> B(seg)]
             /\ \A i, j \in 1 .. m : Enum(seg)[i] = Enum(seg)[j] => i = j
  <2>1. B(seg) \in SUBSET Offsets /\ m <= Cardinality(B(seg))
    BY Zenon, <1>1 DEF Core, TablesInv, Tables, Entry
  <2>2. IsFiniteSet(B(seg))
    BY ONLY <2>1, FiniteTables
  <2>3. \E f \in [1 .. m -> B(seg)] : \A i, j \in 1 .. m : f[i] = f[j] => i = j
    BY ONLY <2>1, <2>2, Enumerates
  <2> QED BY ONLY <2>3
<1> HIDE DEF Enum
<1>3. ASSUME NEW seg \in Others, NEW i \in 1 .. m
      PROVE  LET blk == <<seg, Enum(seg)[i]>> IN
             /\ blk \in Blocks /\ rit[blk] \in Lbas
             /\ index[rit[blk]].pba = blk
  <2>1. seg \in Segments /\ seg # cur_segment /\ Enum(seg)[i] \in B(seg)
    BY ONLY <1>1, <1>2
  <2>2. Enum(seg)[i] \in Offsets
    BY ONLY <1>1, <2>1 DEF Tables, Entry
  <2>3. Owned(<<seg, Enum(seg)[i]>>)
    BY <2>1 DEF Core, TablesInv
  <2>4. <<seg, Enum(seg)[i]>> \in Blocks
    BY <2>1, <2>2 DEF Blocks
  <2> QED BY Zenon, <1>1, <2>1, <2>3, <2>4 DEF Owned
<1>4. owner \in Injection(Others \X (1 .. m), Lbas)
  <2>1. owner \in [Others \X (1 .. m) -> Lbas]
    BY <1>3
  <2>2. ASSUME NEW p \in Others \X (1 .. m), NEW q \in Others \X (1 .. m), owner[p] = owner[q]
        PROVE  p = q
    <3>1. p = <<p[1], p[2]>> /\ q = <<q[1], q[2]>>
          /\ p[1] \in Others /\ q[1] \in Others /\ p[2] \in 1 .. m /\ q[2] \in 1 .. m
      OBVIOUS
    <3>2. <<p[1], Enum(p[1])[p[2]]>> = <<q[1], Enum(q[1])[q[2]]>>
      <4>1. rit[<<p[1], Enum(p[1])[p[2]]>>] = rit[<<q[1], Enum(q[1])[q[2]]>>]
        BY ONLY <2>2
      <4>2. /\ index[rit[<<p[1], Enum(p[1])[p[2]]>>]].pba = <<p[1], Enum(p[1])[p[2]]>>
            /\ index[rit[<<q[1], Enum(q[1])[q[2]]>>]].pba = <<q[1], Enum(q[1])[q[2]]>>
        BY ONLY <1>3, <3>1
      <4> QED BY ONLY Zenon, <4>1, <4>2
    <3>3. p[1] = q[1] /\ Enum(p[1])[p[2]] = Enum(p[1])[q[2]]
      BY <3>2
    <3>4. p[2] = q[2]
      BY ONLY <1>2, <3>1, <3>3
    <3> QED BY ONLY <3>1, <3>3, <3>4
  <2> HIDE DEF owner
  <2> QED BY ONLY <2>1, <2>2 DEF Injection, IsInjective
<1>5. /\ IsFiniteSet(Others) /\ Cardinality(Others) = nr_valid_segment - 1
  <2>1. IsFiniteSet(svt.valid)
    BY <1>1, FiniteTables
  <2> QED BY ONLY <1>1, <2>1, FS_RemoveElement
<1>6. IsFiniteSet(1 .. m) /\ Cardinality(1 .. m) = m
  <2>1. 1 .. m = 1 .. (m + 1 - 1)
    OBVIOUS
  <2> QED BY FS_Interval
<1> HIDE DEF Others, owner
<1>7. Cardinality(Others \X (1 .. m)) = (nr_valid_segment - 1) * m
  BY ZenonT(60), <1>5, <1>6, FS_Product
<1> QED BY <1>4, <1>7, FS_Injection

(* What a push does to the count of taken segments.                        *)
LEMMA PushTakes ==
    ASSUME Core, Steady, NEW lba \in Lbas, NEW data, PushBlock(lba, data)
    PROVE  \/ cur_block' = cur_block + 1 /\ nr_valid_segment' = nr_valid_segment
              /\ ~PushTriggersGc(lba)
           \/ /\ cur_block + 1 = BlocksPerSegment /\ cur_block' = 0
              /\ nr_valid_segment' = nr_valid_segment + 1
              /\ ~PushTriggersGc(lba) => nr_valid_segment + 1 <= GcThreshold
<1> USE DstAssumption
<1>1. AppendLog(lba, data) /\ svt.valid # Segments /\ ~ShouldThreadedLogging
  BY DEF PushBlock, Steady
<1>2. cur_block \in Offsets /\ svt \in Validators /\ nr_valid_segment \in Nat
  BY FiniteTables DEF Core, LogTypeOK, SegmentCount, Validators
<1>3. CASE cur_block + 1 < BlocksPerSegment
  BY <1>1, <1>2, <1>3 DEF AppendLog, allocatorVars, PushTriggersGc
<1>4. CASE ~(cur_block + 1 < BlocksPerSegment)
  <2> DEFINE t == Invalidated(lba)
             seg == NextSegment(svt, NrSegment)
  <2>1. cur_block + 1 = BlocksPerSegment
    BY <1>2, <1>4 DEF Offsets
  <2>2. seg # NoSegment /\ seg \in Segments \ svt.valid
    BY Zenon, <1>1, <1>2, NextSegmentIsFree
  <2>3. cur_block' = 0 /\ Alloc(svt, nr_valid_segment, t)
    BY ONLY <1>1, <1>4 DEF AppendLog
  <2>4. nr_valid_segment' = nr_valid_segment + 1
    BY Zenon, <2>2, <2>3 DEF Alloc
  <2>5. t.entry[seg] = EmptyEntry
    BY Zenon, <2>2, InvalidatedFacts
  <2> HIDE DEF t
  <2>6. AllocSucceeds(svt, t)
    BY <2>2, <2>5 DEF AllocSucceeds, CanTakeSegment, EmptyEntry
  <2>7. PushTriggersGc(lba) <=> nr_valid_segment + 1 > GcThreshold
    BY <1>1, <2>1, <2>6 DEF PushTriggersGc, AllocTriggersGc, t
  <2>8. GcThreshold \in Int
    BY LogAssumption DEF GcThreshold
  <2> QED BY ONLY <1>2, <2>1, <2>3, <2>4, <2>7, <2>8
<1> QED BY <1>3, <1>4

(* The numbers that the count of segments is made of.                      *)
LEMMA SpaceTypes ==
    ASSUME IndInv
    PROVE  /\ nr_valid_segment \in Nat /\ nr_valid_segment = Cardinality(svt.valid)
           /\ cur_block \in 0 .. BlocksPerSegment - 1
           /\ gc.clean \in 0 .. 2 * BlocksPerSegment
           /\ gc.entry.nr_valid_block \in 0 .. BlocksPerSegment
           /\ IsFiniteSet(gc.todo) /\ Cardinality(gc.todo) \in 0 .. BlocksPerSegment
<1>1. svt.valid \in SUBSET Segments /\ gc.todo \in SUBSET Offsets
  BY DEF IndInv, TypeOK
<1>2. /\ cur_block \in 0 .. BlocksPerSegment - 1
      /\ gc.clean \in 0 .. 2 * BlocksPerSegment
      /\ gc.entry.nr_valid_block \in 0 .. BlocksPerSegment
      /\ nr_valid_segment = Cardinality(svt.valid)
  BY DEF IndInv, TypeOK, SegmentCount, Offsets, Entry
<1> QED BY ONLY <1>1, <1>2, FiniteTables

(* A collection never takes the last segment.                              *)
LEMMA SpaceLeavesSegment ==
    ASSUME IndInv, Space
    PROVE  svt.valid # Segments /\ nr_valid_segment <= NrSegment - 1
<1> USE DstAssumption
<1>1. /\ nr_valid_segment \in Nat /\ nr_valid_segment = Cardinality(svt.valid)
      /\ cur_block \in 0 .. BlocksPerSegment - 1
      /\ gc.clean \in 0 .. 2 * BlocksPerSegment
      /\ gc.entry.nr_valid_block \in 0 .. BlocksPerSegment
      /\ Cardinality(gc.todo) \in 0 .. BlocksPerSegment
  BY SpaceTypes
<1>2. nr_valid_segment <= NrSegment - 1
  <2>1. CASE gc.phase = "idle"
    BY <1>1, <2>1 DEF Space
  <2>2. CASE gc.phase # "idle"
    <3>1. Visited < BlocksPerSegment /\ Visited \in Int
      BY <1>1 DEF Visited, Space
    <3>2. gc.clean + cur_block - Visited > -BlocksPerSegment
      BY <1>1, <3>1
    <3>3. gc.clean + cur_block - Visited <= (NrSegment - 1 - nr_valid_segment) * BlocksPerSegment
      BY <2>2 DEF Space
    <3> DEFINE x == NrSegment - 1 - nr_valid_segment
    <3>4. x \in Int
      BY <1>1
    <3>5. x * BlocksPerSegment > -BlocksPerSegment
      <4>1. x * BlocksPerSegment \in Int
        BY <3>4
      <4> HIDE DEF x
      <4> QED BY <1>1, <3>1, <3>2, <3>3, <4>1 DEF x
    <3>6. x >= 0
      <4> HIDE DEF x
      <4> QED BY <3>4, <3>5, ProductSign
    <3> QED BY <1>1, <3>6
  <2> QED BY ONLY <2>1, <2>2
<1>3. Cardinality(Segments) = NrSegment
  BY FS_Interval DEF Segments
<1> QED BY ONLY <1>1, <1>2, <1>3

(* A push of the collector or of a write, in terms of segments and blocks. *)
LEMMA SpaceStep ==
    ASSUME NEW n \in Nat, NEW m, NEW c \in Nat, NEW d, NEW B \in Nat \ {0}, NEW N \in Nat,
           NEW x \in Int, x + c <= (N - n) * B,
           \/ d = c + 1 /\ m = n
           \/ c + 1 = B /\ d = 0 /\ m = n + 1
    PROVE  x - 1 + d <= (N - m) * B
<1>1. CASE d = c + 1 /\ m = n
  BY <1>1
<1>2. CASE c + 1 = B /\ d = 0 /\ m = n + 1
  <2>1. (N - m) * B = (N - n) * B - B
    BY <1>2
  <2>2. (N - n) * B \in Int
    OBVIOUS
  <2> QED BY <1>2, <2>1, <2>2
<1> QED BY <1>1, <1>2

(* A write keeps two segments free, or starts a collection with one.       *)
LEMMA WriteSpace ==
    ASSUME RoomToCollect, IndInv, Steady, Space, NEW lba \in Lbas, NEW secs, NEW val,
           PushNewBlock(lba, secs, val)
    PROVE  Space'
<1> USE DstAssumption
<1>1. gc.phase = "idle" /\ PushBlock(lba, Overlay(OldBlock(lba), secs, val))
      /\ gc' = IF PushTriggersGc(lba) THEN GcStart ELSE gc
  BY DEF PushNewBlock, Idle
<1>2. \/ cur_block' = cur_block + 1 /\ nr_valid_segment' = nr_valid_segment
         /\ ~PushTriggersGc(lba)
      \/ /\ cur_block' = 0 /\ nr_valid_segment' = nr_valid_segment + 1
         /\ ~PushTriggersGc(lba) => nr_valid_segment + 1 <= GcThreshold
  BY Zenon, <1>1, IndInvParts, PushTakes
<1>3. nr_valid_segment \in Nat /\ nr_valid_segment <= NrSegment - 2
  BY <1>1, SpaceTypes DEF Space
<1>4. GcThreshold \in Nat /\ GcThreshold <= NrSegment - 2
  BY RoomFacts
<1>5. CASE PushTriggersGc(lba)
  <2>1. gc'.phase = "pick" /\ gc'.clean = 0 /\ Visited' = 0
    BY <1>1, <1>5 DEF GcStart, NoGc, Visited
  <2>2. cur_block' = 0 /\ nr_valid_segment' = nr_valid_segment + 1
    BY <1>2, <1>5
  <2>3. NrSegment - 1 - nr_valid_segment' \in Nat
    BY <1>3, <2>2
  <2>4. 0 <= (NrSegment - 1 - nr_valid_segment') * BlocksPerSegment
    BY ONLY DstAssumption, <2>3
  <2>5. gc'.clean + cur_block' - Visited' = 0
    BY ONLY <2>1, <2>2
  <2>6. gc'.phase # "idle" /\ gc'.phase \notin {"move", "free"}
    BY ONLY <2>1
  <2>7. gc'.clean + cur_block' - Visited'
          <= (NrSegment - 1 - nr_valid_segment') * BlocksPerSegment
    BY ONLY Zenon, <2>4, <2>5
  <2> QED BY ONLY Zenon, <2>6, <2>7 DEF Space
<1>6. CASE ~PushTriggersGc(lba)
  <2>1. gc' = gc
    BY <1>1, <1>6
  <2>2. nr_valid_segment' <= NrSegment - 2
    BY <1>2, <1>3, <1>4, <1>6
  <2> QED BY <1>1, <2>1, <2>2 DEF Space
<1> QED BY ONLY <1>5, <1>6

(* Picking a victim: nothing of it has been visited.                       *)
LEMMA PickSpace ==
    ASSUME IndInv, Space, GcPick
    PROVE  Space'
<1> USE DstAssumption
<1>1. PICK v \in FirstVictims(dst) :
        LET e == dst.entry[v]
            visit == IF e.nr_valid_block = 0 THEN {} ELSE e.block_validity_table IN
        gc' = [gc EXCEPT !.phase = IF visit = {} THEN "free" ELSE "move",
                         !.victim = v, !.entry = e, !.todo = visit, !.region_end = 0]
  BY Zenon DEF GcPick
<1>2. gc.phase = "pick" /\ nr_valid_segment' = nr_valid_segment /\ svt' = svt
      /\ cur_block' = cur_block
  BY DEF GcPick, allocatorVars, bufferVars
<1> DEFINE e == dst.entry[v]
           visit == IF e.nr_valid_block = 0 THEN {} ELSE e.block_validity_table
<1>3. v \in dst.victims /\ v \in Segments
  BY Zenon, IndInvParts DEF FirstVictims, Core, LogTypeOK, Tables
<1>4. /\ e.nr_valid_block = Cardinality(e.block_validity_table)
      /\ e.nr_valid_block < BlocksPerSegment
      /\ v \notin svt.valid => e.nr_valid_block = 0
  BY <1>3, IndInvParts DEF Core, TablesInv, EmptyEntry
<1>5. /\ gc'.phase \in {"move", "free"}
      /\ gc'.victim = v /\ gc'.entry = e /\ gc'.todo = visit /\ gc'.clean = gc.clean
  BY ONLY <1>1, IndInvParts DEF Rest, GcType
<1>6. Cardinality(visit) = e.nr_valid_block
  BY ONLY <1>4, FS_EmptySet
<1> HIDE DEF visit, e
<1>7. Visited' = 0 /\ Visited = 0
  <2>1. e.nr_valid_block \in Nat
    BY <1>3, IndInvParts DEF Core, LogTypeOK, Tables, Entry, e
  <2> QED BY ONLY <1>2, <1>5, <1>6, <2>1 DEF Visited
<1> QED BY Zenon, <1>2, <1>4, <1>5, <1>7 DEF Space

(* Moving a block: what it appends it has visited.                         *)
LEMMA MoveSpace ==
    ASSUME IndInv, Steady, Space, GcMove
    PROVE  Space'
<1> USE DstAssumption
<1> DEFINE off == Least(gc.todo)
           rest == gc.todo \ {off}
           lba == rit[<<gc.victim, off>>]
<1>1. /\ gc.phase = "move"
      /\ gc'.phase \in {"free", "move"} /\ gc'.todo = rest
      /\ gc'.victim = gc.victim /\ gc'.entry = gc.entry /\ gc'.clean = gc.clean
  BY IndInvParts DEF GcMove, Rest, GcType
<1>2. \/ PushBlock(lba, index[lba].data)
      \/ cur_block' = cur_block /\ nr_valid_segment' = nr_valid_segment /\ svt' = svt
  BY DEF GcMove, allocatorVars, bufferVars
<1>3. off \in gc.todo /\ off \in Offsets /\ gc.victim \in Segments
  <2>1. gc.todo \subseteq Offsets /\ gc.todo # {} /\ gc.victim \in Segments
    BY Zenon, <1>1 DEF IndInv, GcInv, TypeOK
  <2>2. gc.todo \in SUBSET Nat
    BY ONLY <2>1 DEF Offsets
  <2> QED BY ONLY <2>1, <2>2, LeastIsMin
<1>4. /\ nr_valid_segment \in Nat /\ cur_block \in 0 .. BlocksPerSegment - 1
      /\ gc.clean \in 0 .. 2 * BlocksPerSegment
      /\ gc.entry.nr_valid_block \in 0 .. BlocksPerSegment
      /\ IsFiniteSet(gc.todo) /\ Cardinality(gc.todo) \in 0 .. BlocksPerSegment
  BY Zenon, SpaceTypes
<1>5. Cardinality(rest) = Cardinality(gc.todo) - 1
  BY Zenon, <1>3, <1>4, FS_RemoveElement
<1>6. lba \in Lbas
  BY Zenon, <1>3 DEF IndInv, TypeOK, Blocks
<1>7. svt.valid \subseteq svt'.valid
  <2>1. CASE PushBlock(lba, index[lba].data)
    <3>1. svt' = svt \/ Alloc(svt, nr_valid_segment, Invalidated(lba))
      BY Zenon, <2>1 DEF PushBlock, AppendLog, ThreadedLog, allocatorVars
    <3>2. svt \in Validators
      BY IndInvParts DEF Core, LogTypeOK
    <3> QED BY Zenon, <3>1, <3>2, TakeNextType DEF Alloc
  <2> QED BY ONLY <1>2, <2>1
<1> HIDE DEF rest, off, lba
<1>8. \/ cur_block' = cur_block /\ nr_valid_segment' = nr_valid_segment
      \/ cur_block' = cur_block + 1 /\ nr_valid_segment' = nr_valid_segment
      \/ /\ cur_block + 1 = BlocksPerSegment /\ cur_block' = 0
         /\ nr_valid_segment' = nr_valid_segment + 1
  BY Zenon, <1>2, <1>6, IndInvParts, PushTakes
<1>9. Visited' = Visited + 1 /\ Visited \in Int
  BY <1>1, <1>4, <1>5 DEF Visited
<1>10. gc'.clean + cur_block' - Visited' <= (NrSegment - 1 - nr_valid_segment') * BlocksPerSegment
  <2>1. gc.clean - Visited + cur_block <= (NrSegment - 1 - nr_valid_segment) * BlocksPerSegment
    BY <1>1, <1>4, <1>9 DEF Space
  <2>2. CASE cur_block' = cur_block /\ nr_valid_segment' = nr_valid_segment
    <3>1. (NrSegment - 1 - nr_valid_segment) * BlocksPerSegment \in Int
      BY <1>4
    <3> QED BY ONLY <1>1, <1>4, <1>9, <2>1, <2>2, <3>1
  <2>3. CASE \/ cur_block' = cur_block + 1 /\ nr_valid_segment' = nr_valid_segment
             \/ /\ cur_block + 1 = BlocksPerSegment /\ cur_block' = 0
                /\ nr_valid_segment' = nr_valid_segment + 1
    <3>1. gc.clean - Visited - 1 + cur_block'
            <= (NrSegment - 1 - nr_valid_segment') * BlocksPerSegment
      <4>1. NrSegment - 1 \in Nat /\ cur_block \in Nat /\ gc.clean - Visited \in Int
        BY <1>4, <1>9
      <4> QED BY ONLY <1>4, <2>1, <2>3, <4>1, SpaceStep
    <3>2. cur_block' \in Int
      BY ONLY <1>4, <2>3
    <3> QED BY ONLY <1>1, <1>4, <1>9, <3>1, <3>2
  <2> QED BY ONLY <1>8, <2>2, <2>3
<1> QED BY <1>1, <1>7, <1>10 DEF Space

(* Giving back a victim: what of it was not visited is clean.              *)
LEMMA FreeSpace ==
    ASSUME IndInv, Space, GcFree
    PROVE  Space'
<1> USE DstAssumption
<1> DEFINE v == gc.victim
           cl == IF v \in svt.valid THEN gc.clean + BlocksPerSegment - gc.entry.nr_valid_block
                                    ELSE gc.clean
           n == IF v \in svt.valid THEN nr_valid_segment - 1 ELSE nr_valid_segment
<1>1. /\ gc.phase = "free" /\ gc' = [GcStart EXCEPT !.clean = cl]
      /\ nr_valid_segment' = n /\ cur_block' = cur_block
  BY DEF GcFree, bufferVars
<1>2. gc'.phase = "pick" /\ gc'.clean = cl /\ Visited' = 0
  BY <1>1 DEF GcStart, NoGc, Visited
<1>3. /\ nr_valid_segment \in Nat /\ cur_block \in 0 .. BlocksPerSegment - 1
      /\ gc.clean \in 0 .. 2 * BlocksPerSegment
      /\ gc.entry.nr_valid_block \in 0 .. BlocksPerSegment
  BY SpaceTypes
<1>4. Visited = gc.entry.nr_valid_block
  <2>1. gc.todo = {}
    BY <1>1 DEF IndInv, GcInv
  <2> QED BY <1>1, <1>3, <2>1, FS_EmptySet DEF Visited
<1>5. /\ gc.clean + cur_block - gc.entry.nr_valid_block
           <= (NrSegment - 1 - nr_valid_segment) * BlocksPerSegment
      /\ v \notin svt.valid => gc.entry.nr_valid_block = 0
  BY Zenon, <1>1, <1>4 DEF Space
<1>6. cl + cur_block <= (NrSegment - 1 - n) * BlocksPerSegment
  <2>1. CASE v \in svt.valid
    <3>1. (NrSegment - 1 - n) * BlocksPerSegment
            = (NrSegment - 1 - nr_valid_segment) * BlocksPerSegment + BlocksPerSegment
      BY <1>3, <2>1
    <3>2. (NrSegment - 1 - nr_valid_segment) * BlocksPerSegment \in Int
      BY <1>3
    <3> HIDE DEF n
    <3> QED BY <1>3, <1>5, <2>1, <3>1, <3>2
  <2>2. CASE v \notin svt.valid
    BY <1>3, <1>5, <2>2
  <2> QED BY ONLY <2>1, <2>2
<1> HIDE DEF cl, n
<1>7. gc'.clean + cur_block' - Visited' <= (NrSegment - 1 - nr_valid_segment') * BlocksPerSegment
  <2>1. cl \in Int
    BY <1>3 DEF cl
  <2> QED BY ONLY <1>1, <1>2, <1>3, <1>6, <2>1
<1> QED BY <1>2, <1>7 DEF Space

(* The end of a collection: a segment's worth was cleaned, or every taken  *)
(* segment is full, and then there are few of them.                        *)
LEMMA EndSpace ==
    ASSUME RoomToCollect, IndInv, ReclaimableIsVictim, Space, GcEnd
    PROVE  Space'
<1> USE DstAssumption
<1>1. /\ gc.phase = "pick" /\ gc'.phase = "idle" /\ nr_valid_segment' = nr_valid_segment
      /\ gc.clean >= BlocksPerSegment \/ dst.victims = {}
  <2>1. gc.phase = "pick" /\ gc' = NoGc /\ nr_valid_segment' = nr_valid_segment
        /\ (~(gc.clean < BlocksPerSegment) \/ dst.victims = {})
    BY ONLY GcEnd DEF GcEnd, allocatorVars
  <2>2. gc.clean \in Int /\ BlocksPerSegment \in Int
    BY SpaceTypes
  <2>3. gc'.phase = "idle"
    BY ONLY <2>1 DEF NoGc
  <2> QED BY ONLY <2>1, <2>2, <2>3
<1>2. nr_valid_segment \in Nat /\ cur_block \in 0 .. BlocksPerSegment - 1
      /\ gc.clean \in 0 .. 2 * BlocksPerSegment
  BY SpaceTypes
<1>3. nr_valid_segment <= NrSegment - 2
  <2>1. CASE gc.clean >= BlocksPerSegment
    <3> DEFINE x == NrSegment - 2 - nr_valid_segment
    <3>1. gc.clean + cur_block <= (NrSegment - 1 - nr_valid_segment) * BlocksPerSegment
      BY <1>1, <1>2 DEF Space, Visited
    <3>2. x \in Int /\ (NrSegment - 1 - nr_valid_segment) * BlocksPerSegment
                         = x * BlocksPerSegment + BlocksPerSegment
      BY <1>2
    <3>3. x * BlocksPerSegment \in Int
      BY <3>2
    <3> HIDE DEF x
    <3>4. x * BlocksPerSegment > -BlocksPerSegment
      BY <1>2, <2>1, <3>1, <3>2, <3>3
    <3>5. x >= 0
      BY Zenon, <3>2, <3>4, ProductSign
    <3> QED BY <1>2, <3>5 DEF x
  <2>2. CASE dst.victims = {}
    <3>1. \A seg \in svt.valid : BlocksPerSegment <= dst.entry[seg].nr_valid_block
      <4>1. \A seg \in svt.valid : dst.entry[seg].nr_valid_block \in 0 .. BlocksPerSegment
        BY Zenon, IndInvParts DEF Core, LogTypeOK, Validators, Tables, Entry
      <4> QED BY <2>2, <4>1 DEF ReclaimableIsVictim
    <3>2. (nr_valid_segment - 1) * BlocksPerSegment <= Cardinality(Lbas)
      BY Zenon, <3>1, IndInvParts, RoomFacts, MarkedBlocksFit
    <3>3. Cardinality(Lbas) < (NrSegment - 2) * BlocksPerSegment /\ Cardinality(Lbas) \in Nat
      BY RoomFacts
    <3> DEFINE x == NrSegment - 2 - nr_valid_segment
    <3>4. x \in Int /\ (NrSegment - 2) * BlocksPerSegment
                         = (nr_valid_segment - 1) * BlocksPerSegment
                           + x * BlocksPerSegment + BlocksPerSegment
      BY <1>2
    <3>5. x * BlocksPerSegment \in Int /\ (nr_valid_segment - 1) * BlocksPerSegment \in Int
      BY <1>2, <3>4
    <3> HIDE DEF x
    <3>6. x * BlocksPerSegment > -BlocksPerSegment
      BY <3>2, <3>3, <3>4, <3>5
    <3>7. x >= 0
      BY <3>4, <3>6, ProductSign
    <3> QED BY <1>2, <3>7 DEF x
  <2> QED BY <1>1, <2>1, <2>2
<1> QED BY ONLY <1>1, <1>3 DEF Space

(* A new device with room to collect has two free segments.                *)
LEMMA InitSpace == RoomToCollect /\ Init => SpaceInv
<1> SUFFICES ASSUME RoomToCollect, Init PROVE SpaceInv
  OBVIOUS
<1>1. ReclaimableIsVictim
  BY Zenon, InitReclaimable
<1>2. nr_valid_segment = 1 /\ gc.phase = "idle"
  BY DEF Init, NoGc
<1>3. 1 <= NrSegment - 2
  BY RoomFacts, DstAssumption
<1> QED BY <1>1, <1>2, <1>3 DEF SpaceInv, Space

(* While threaded logging does not set in, every step is a steady one, and *)
(* leaves as much room.                                                    *)
LEMMA StepSpace ==
    ASSUME RoomToCollect, IndInv, SpaceInv, [Next /\ ~ShouldThreadedLogging]_vars
    PROVE  SpaceInv' /\ [Next /\ Steady]_vars
<1>1. Space /\ ReclaimableIsVictim /\ svt.valid # Segments
  BY SpaceLeavesSegment DEF SpaceInv
<1>2. [Next /\ Steady]_vars
  BY <1>1 DEF Steady
<1>3. ReclaimableIsVictim'
  BY <1>1, <1>2, StepReclaimable
<1>4. Space'
  <2>1. ASSUME NEW lba \in Lbas, NEW secs, NEW val, ModifyInBuffer(lba, secs, val)
        PROVE  Space'
    BY Zenon, <1>1, <2>1 DEF ModifyInBuffer, Space, Visited
  <2>2. CASE UNCHANGED vars
    BY Zenon, <1>1, <2>2 DEF vars, Space, Visited
  <2>3. CASE Write /\ Steady
    BY <1>1, <2>1, <2>3, WriteSpace DEF Write
  <2>4. CASE Gc /\ Steady
    BY <1>1, <2>4, EndSpace, PickSpace, MoveSpace, FreeSpace DEF Gc
  <2> QED BY Zenon, <1>2, <2>2, <2>3, <2>4 DEF Next
<1> QED BY ONLY <1>2, <1>3, <1>4 DEF SpaceInv

(* With room to collect, the log leaves its limits only by threaded        *)
(* logging (sa_alloc, sa_foreground_gc).                                   *)
THEOREM UnthreadedIsSteady == RoomToCollect => (UnthreadedSpec => SteadySpec)
<1> SUFFICES ASSUME RoomToCollect PROVE UnthreadedSpec => SteadySpec
  OBVIOUS
<1>1. Init => IndInv /\ SpaceInv
  BY InitIndInv, InitSpace
<1>2. IndInv /\ SpaceInv /\ [Next /\ ~ShouldThreadedLogging]_vars
        => IndInv' /\ SpaceInv' /\ [Next /\ Steady]_vars
  BY StepSpace, StepIndInv
<1> QED BY <1>1, <1>2, PTL DEF UnthreadedSpec, SteadySpec

(* A device with room to collect never runs into -ENODATA while threaded   *)
(* logging does not set in: a segment is free at every point, also in the  *)
(* middle of a collection that fills one (sa_alloc, sa_foreground_gc).     *)
THEOREM FreeSegmentLeftUnthreaded == UnthreadedSpec => []FreeSegmentLeft
<1>1. CASE RoomToCollect
  <2>1. Init => IndInv /\ SpaceInv
    BY <1>1, InitIndInv, InitSpace
  <2>2. IndInv /\ SpaceInv /\ [Next /\ ~ShouldThreadedLogging]_vars => IndInv' /\ SpaceInv'
    BY <1>1, StepSpace, StepIndInv
  <2>3. IndInv /\ SpaceInv => FreeSegmentLeft
    BY SpaceLeavesSegment DEF SpaceInv, FreeSegmentLeft
  <2> QED BY <2>1, <2>2, <2>3, PTL DEF UnthreadedSpec
<1>2. CASE ~RoomToCollect
  <2>1. FreeSegmentLeft
    BY <1>2 DEF FreeSegmentLeft
  <2> QED BY <2>1, PTL
<1> QED BY <1>1, <1>2
-----------------------------------------------------------------------------
(* With room to spare threaded logging never sets in.                      *)

(* A device with room to spare: the LBAs fill fewer segments than are      *)
(* taken when threaded logging may set in, each of them a little more than *)
(* three quarters full, and the reserve has two segments for a collection. *)
(* With 1024 blocks in a segment and a reserve of 16 the LBAs may number   *)
(* 769 for every segment beyond the first 18.                              *)
Roomy ==
    /\ IsFiniteSet(Lbas)
    /\ GcThreshold + 2 <= NrSegment
    /\ Cardinality(Lbas) < (GcThreshold - 2) * (ThreadedLoggingMark + 1)

(* The mark of threaded logging lies below a full segment.                 *)
LEMMA MarkBelowFull == ThreadedLoggingMark \in Nat /\ ThreadedLoggingMark + 1 <= BlocksPerSegment
<1>1. PICK b \in Nat : b = BlocksPerSegment \div 4
  BY DstAssumption
<1>2. 4 * b <= BlocksPerSegment
  BY <1>1, DstAssumption
<1> QED BY <1>1, <1>2, DstAssumption DEF ThreadedLoggingMark

(* The threshold and the capacity of a device with room to spare.          *)
LEMMA RoomyFacts ==
    ASSUME Roomy
    PROVE  /\ GcThreshold \in Nat /\ GcThreshold > 2 /\ GcThreshold <= NrSegment - 2
           /\ ThreadedLoggingThreshold = GcThreshold - 1
           /\ Cardinality(Lbas) \in Nat
           /\ Cardinality(Lbas) < (NrSegment - 2) * BlocksPerSegment
<1> USE DstAssumption
<1> DEFINE T == GcThreshold
           m == ThreadedLoggingMark + 1
<1>1. T \in Nat /\ T > 0 /\ T < SizeMod /\ SizeMod \in Nat \ {0}
  BY LogAssumption DEF GcThreshold
<1>2. m \in Nat \ {0} /\ m <= BlocksPerSegment
  BY MarkBelowFull
<1>3. Cardinality(Lbas) \in Nat /\ Cardinality(Lbas) < (T - 2) * m /\ T + 2 <= NrSegment
  BY FS_CardinalityType DEF Roomy
<1>4. ThreadedLoggingThreshold = (T - 1) % SizeMod
  BY DEF ThreadedLoggingThreshold
<1> HIDE DEF T, m
<1>5. T - 2 > 0
  <2>1. (T - 2) * m > 0
    BY <1>1, <1>2, <1>3
  <2>2. (T - 3 + 1) * m > 0 /\ T - 3 \in Int
    BY <1>1, <2>1
  <2>3. (T - 3) * m > -m
    BY <1>2, <2>2
  <2>4. T - 3 >= 0
    BY <1>2, <2>2, <2>3, ProductSign
  <2> QED BY <1>1, <2>4
<1>6. (T - 2) * m <= (NrSegment - 2) * BlocksPerSegment
  <2>1. T - 2 \in Nat /\ NrSegment - 2 \in Nat /\ T - 2 <= NrSegment - 2
    BY <1>1, <1>3, <1>5
  <2> QED BY <1>2, <2>1, ProductGrows
<1>7. (T - 1) % SizeMod = T - 1
  BY <1>1
<1>8. (T - 2) * m \in Int /\ (NrSegment - 2) * BlocksPerSegment \in Int
  BY <1>1, <1>2
<1>9. Cardinality(Lbas) < (NrSegment - 2) * BlocksPerSegment
  BY <1>3, <1>6, <1>8
<1> QED BY <1>1, <1>3, <1>4, <1>5, <1>7, <1>9 DEF T

(* Threaded logging needs every victim to be more than three quarters full *)
(* with almost all segments taken: more blocks than there are LBAs.        *)
LEMMA RoomyNeverThreads ==
    ASSUME Roomy, Core, ReclaimableIsVictim
    PROVE  ~ShouldThreadedLogging
<1> USE DstAssumption
<1> DEFINE m == ThreadedLoggingMark + 1
<1> SUFFICES ASSUME ShouldThreadedLogging PROVE FALSE
  OBVIOUS
<1>1. m \in Nat /\ m <= BlocksPerSegment
  BY MarkBelowFull
<1>2. ASSUME NEW seg \in svt.valid PROVE m <= dst.entry[seg].nr_valid_block
  <2>1. dst.entry[seg].nr_valid_block \in 0 .. BlocksPerSegment
    BY DEF Core, LogTypeOK, Validators, Tables, Entry
  <2>2. CASE seg \in dst.victims
    BY <2>1, <2>2, MarkBelowFull DEF ShouldThreadedLogging, EmptiestAboveMark
  <2>3. CASE seg \notin dst.victims
    BY <1>1, <2>1, <2>3 DEF ReclaimableIsVictim
  <2> QED BY ONLY <2>2, <2>3
<1>3. IsFiniteSet(Lbas) /\ Cardinality(Lbas) < (GcThreshold - 2) * m
  BY DEF Roomy
<1>4. (nr_valid_segment - 1) * m <= Cardinality(Lbas)
  <2> HIDE DEF m
  <2> QED BY <1>1, <1>2, <1>3, MarkedBlocksFit
<1>5. nr_valid_segment >= GcThreshold - 1 /\ GcThreshold \in Nat /\ GcThreshold > 2
      /\ Cardinality(Lbas) \in Nat
  BY RoomyFacts DEF ShouldThreadedLogging
<1>6. nr_valid_segment \in Nat
  BY FiniteTables DEF Core, LogTypeOK, SegmentCount, Validators
<1> HIDE DEF m
<1>7. (GcThreshold - 2) * m <= (nr_valid_segment - 1) * m
  <2>1. GcThreshold - 2 \in Nat /\ nr_valid_segment - 1 \in Nat
        /\ GcThreshold - 2 <= nr_valid_segment - 1
    BY <1>5, <1>6
  <2> QED BY <1>1, <2>1, ProductGrows
<1>8. (GcThreshold - 2) * m \in Int /\ (nr_valid_segment - 1) * m \in Int
  BY <1>1, <1>5, <1>6
<1> QED BY <1>3, <1>4, <1>5, <1>7, <1>8

(* On a device with room to spare, of any size and geometry, every         *)
(* behaviour of the log keeps within its limits: threaded logging never    *)
(* sets in and a segment is always left (sa_alloc, sa_foreground_gc,       *)
(* sworndisk_should_threaded_logging).                                     *)
THEOREM RoomyStaysWithinLimits == Roomy => (Spec => SteadySpec)
<1> SUFFICES ASSUME Roomy PROVE Spec => SteadySpec
  OBVIOUS
<1>1. RoomToCollect
  BY RoomyFacts DEF Roomy, RoomToCollect
<1>2. Init => IndInv /\ SpaceInv
  BY <1>1, InitIndInv, InitSpace
<1>3. IndInv /\ SpaceInv /\ [Next]_vars => IndInv' /\ SpaceInv' /\ [Next /\ Steady]_vars
  <2> SUFFICES ASSUME IndInv, SpaceInv, [Next]_vars
               PROVE  IndInv' /\ SpaceInv' /\ [Next /\ Steady]_vars
    OBVIOUS
  <2>1. ~ShouldThreadedLogging
    BY IndInvParts, RoomyNeverThreads DEF SpaceInv
  <2>2. SpaceInv' /\ [Next /\ Steady]_vars
    BY <1>1, <2>1, StepSpace
  <2> QED BY <2>2, StepIndInv
<1> QED BY <1>2, <1>3, PTL DEF Spec, SteadySpec

(* Freshness of every behaviour, with no limit but the room to spare: what *)
(* a sector reads back is what was last written to it (segbuf_push_bio,    *)
(* segbuf_push_block, sa_foreground_gc).                                   *)
THEOREM FreshnessWhenRoomy == Roomy => (Spec => []Freshness)
BY RoomyStaysWithinLimits, FreshnessWithinLimits

(* And the log implements the block device.                                *)
THEOREM ImplementsDeviceWhenRoomy == Roomy => (Spec => ImplementsDevice)
BY RoomyStaysWithinLimits, ImplementsDeviceWithinLimits
-----------------------------------------------------------------------------
(* Devices smaller than the reserve.                                       *)

(* What a device without collections does: none runs, none is tried while  *)
(* it is opened, and threaded logging does not set in either.              *)
NeverCollects == gc.phase = "idle" /\ mode \notin {"booting", "oops"} /\ ~ShouldThreadedLogging

(* Both thresholds wrap around and exceed every number of segments.        *)
LEMMA SmallThresholds ==
    ASSUME NrSegment < GcReserve
    PROVE  /\ GcThreshold \in Nat /\ GcThreshold > NrSegment
           /\ ThreadedLoggingThreshold \in Nat /\ ThreadedLoggingThreshold > NrSegment
<1> USE DstAssumption, LogAssumption
<1>1. GcThreshold = NrSegment - GcReserve + SizeMod
  BY DEF GcThreshold
<1>2. GcThreshold \in Nat /\ GcThreshold - 1 > NrSegment /\ GcThreshold - 1 < SizeMod
  BY <1>1
<1>3. ThreadedLoggingThreshold = GcThreshold - 1
  BY <1>2 DEF ThreadedLoggingThreshold
<1> QED BY <1>2, <1>3

(* The unsigned NR_SEGMENT - 16 of GC_THREADHOLD (segment_allocator.h)     *)
(* underflows on a device with fewer segments: it never collects a         *)
(* segment, whatever is written and however often it is opened again.      *)
THEOREM SmallDeviceNeverCollects == NrSegment < GcReserve => (RestartSpec => []NeverCollects)
<1> SUFFICES ASSUME NrSegment < GcReserve PROVE RestartSpec => []NeverCollects
  OBVIOUS
<1> DEFINE Quiet == gc.phase = "idle" /\ mode \notin {"booting", "oops"}
<1>1. Init => Quiet
  BY DEF Init, NoGc
<1>2. ASSUME CountInv
      PROVE  /\ \A t : ~AllocTriggersGc(svt, nr_valid_segment, t)
             /\ \A t : ~AllocTriggersGc(ReloadValidator(svt), Cardinality(svt.valid), t)
             /\ ~ShouldThreadedLogging
  <2>1. nr_valid_segment = Cardinality(svt.valid) /\ Cardinality(svt.valid) \in 0 .. NrSegment
    BY <1>2, FiniteTables DEF CountInv, SegmentCount, Validators
  <2> QED BY <2>1, SmallThresholds, DstAssumption DEF AllocTriggersGc, ShouldThreadedLogging
<1>3. CountInv /\ Quiet /\ [RestartNext]_vars => Quiet'
  <2> SUFFICES ASSUME CountInv, Quiet, [RestartNext]_vars PROVE Quiet'
    OBVIOUS
  <2>1. CASE UNCHANGED <<gc, mode>>
    BY <2>1
  <2>2. CASE Write
    <3>1. PICK lba \in Lbas, secs \in SUBSET Sectors \ {{}}, val \in Values :
            ModifyInBuffer(lba, secs, val) \/ PushNewBlock(lba, secs, val)
      BY <2>2 DEF Write
    <3>2. ~PushTriggersGc(lba)
      BY <1>2 DEF PushTriggersGc
    <3> QED BY <2>1, <3>1, <3>2 DEF ModifyInBuffer, PushNewBlock
  <2>3. CASE Restart
    BY <1>2, <2>3 DEF Restart, NoGc
  <2>4. ~Gc /\ ~BootGcOops
    BY DEF Gc, GcEnd, GcPick, GcMove, GcFree, BootGcOops
  <2> QED BY <2>1, <2>2, <2>3, <2>4 DEF RestartNext, vars
<1>4. CountInv /\ Quiet => NeverCollects
  BY <1>2 DEF NeverCollects
<1> HIDE DEF Quiet
<1> QED BY <1>1, <1>3, <1>4, InitCounts, StepCounts, PTL DEF RestartSpec
=============================================================================
