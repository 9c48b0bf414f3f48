---------------------------- MODULE SegValidator ----------------------------
(***************************************************************************)
(* struct seg_validator (metadata.c): a persistent bitset of taken slots   *)
(* and an in-memory cursor from which the next free slot is searched.  It  *)
(* serves twice, as the segment validity table (SVT) of the data region    *)
(* and as the allocator of BIT file descriptors in the catalogue.          *)
(*                                                                         *)
(* A validator is a record: `valid' is the set of slots whose bit is set,  *)
(* `cur_segment' the cursor.                                               *)
(***************************************************************************)
EXTENDS Integers

NoSegment == -1

Least(S) == CHOOSE x \in S : \A y \in S : x <= y

(* The slots a scan that starts at `from' can return.                      *)
FreeFrom(V, n, from) == {s \in from .. n - 1 : s \notin V.valid}

(* seg_validator_next: scan to the end, then once more from slot 0.        *)
(* NoSegment stands for -ENODATA.                                          *)
NextSegment(V, n) ==
    IF FreeFrom(V, n, V.cur_segment) # {} THEN Least(FreeFrom(V, n, V.cur_segment))
    ELSE IF FreeFrom(V, n, 0) # {} THEN Least(FreeFrom(V, n, 0))
    ELSE NoSegment

(* seg_validator_next followed by seg_validator_take, the way both callers *)
(* use them.  A failed search leaves the cursor behind the last slot.      *)
TakeNext(V, n) ==
    LET seg == NextSegment(V, n) IN
    IF seg = NoSegment
    THEN [V EXCEPT !.cur_segment = n]
    ELSE [valid |-> V.valid \cup {seg}, cur_segment |-> seg + 1]

(* seg_validator_test_and_return                                           *)
ReturnSegment(V, seg) == [V EXCEPT !.valid = @ \ {seg}]

(* seg_validator_init on a table that is already on disk.                  *)
ReloadValidator(V) == [V EXCEPT !.cur_segment = 0]
=============================================================================
