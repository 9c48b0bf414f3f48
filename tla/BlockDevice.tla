----------------------------- MODULE BlockDevice -----------------------------
(***************************************************************************)
(* What a block device promises: a block reads back what was last written  *)
(* to it, sector by sector, and nothing but a write of the block changes   *)
(* it.  The sectors that the first, partial write of a block leaves out    *)
(* are unspecified, but stay what they are from then on.                   *)
(***************************************************************************)
CONSTANTS Lbas, Sectors, Values, Junk, Unmapped

VARIABLE content

Overlay(data, secs, val) == [s \in Sectors |-> IF s \in secs THEN val ELSE data[s]]

Bases(lba) ==
    IF content[lba] = Unmapped THEN [Sectors -> Values \cup {Junk}] ELSE {content[lba]}

Init == content = [lba \in Lbas |-> Unmapped]

Write(lba, secs, val) ==
    \E base \in Bases(lba) : content' = [content EXCEPT ![lba] = Overlay(base, secs, val)]

Next == \E lba \in Lbas, secs \in SUBSET Sectors \ {{}}, val \in Values : Write(lba, secs, val)

Spec == Init /\ [][Next]_content
=============================================================================
