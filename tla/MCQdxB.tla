--------------------------------- MODULE MCQdxB ---------------------------------
(* Two windows of sixteen longwords; blocks of three and six words; bursts of   *)
(* one and four.  The list lies in window 0 at offset 0, and names segments     *)
(* that are too short, too long, past the end of their window, or empty, which  *)
(* is refused.                                                                  *)
EXTENDS QdxB, Sequences

W(window, offset) == [window |-> window, offset |-> offset]

MCWindows    == {0, 1}
MCBursts     == {1, 4}
MCBlockWords == <<3, 6>>
OnFile       == {1}

\* Every longword differs from the others, but for the list: entries of three longwords
\* (across one burst), of a longword, and of the rest and more.
Filled == [p \in Places |-> W(p[1], WordBytes * p[2])]

WithList(entries) ==
  [p \in Places |->
    IF p[1] = 0 /\ p[2] < 2 * Len(entries)
    THEN IF p[2] % 2 = 0 THEN entries[(p[2] \div 2) + 1][1] ELSE entries[(p[2] \div 2) + 1][2]
    ELSE Filled[p]]
  
MCImages == {
  WithList(<<<<W(1, 4), W(0, 4)>>, <<W(1, 40), W(0, 24)>>>>),
  WithList(<<<<W(1, 8), W(0, 8)>>, <<W(1, 32), W(0, 8)>>>>),
  WithList(<<<<W(1, 60), W(0, 8)>>, <<W(1, 0), W(0, 24)>>>>),
  WithList(<<<<W(1, 8), W(0, 0)>>, <<W(1, 32), W(0, 24)>>>>)}

C(opcode, tag, namespace, lba, blocks, sgCount, data, sg) ==
  [opcode |-> opcode, clean |-> TRUE, tag |-> tag, namespace |-> namespace, lba |-> lba,
   blocks |-> blocks, sgCount |-> sgCount, data |-> data, sg |-> sg]

MCCommands == {
  C("Read",         1, 2, 0, 1, 2, Zero, Zero),
  C("Write",        2, 2, 0, 1, 2, Zero, Zero),
  C("WriteDurable", 3, 1, 0, 1, 0, W(1, 52), Zero),
  C("Read",         4, 1, 0, 1, 0, W(1, 56), Zero),
  C("Read",         5, 1, 1, 1, 0, W(1, 0), Zero),
  C("Read",         8, 2, 0, 1, 0, W(1, 40), Zero),
  C("GetHealth",    6, 0, 0, 0, 2, Zero, Zero),
  C("Flush",        7, 1, 0, 0, 0, Zero, Zero)}

\* The commands that read name buffers apart from their lists, in every image.
ASSUME MCSoftwareKeepsApart == SoftwareKeepsApart
=============================================================================
