------------------------------ MODULE MCFat32 -------------------------------
(* Fat32 on a small disk: a plain name, two long names with one alias base *)
(* and a directory; clusters of two cells, a table of two sectors.         *)
EXTENDS Fat32

Plain(n) == [short |-> <<n, 0>>, base |-> n, lfn |-> FALSE]
Long(base) == [short |-> NoShort, base |-> base, lfn |-> TRUE]

Names == [n \in {"A", "D", "FAT32README", "FAT32RECORD"} |->
             IF n \in {"A", "D"} THEN Plain(n) ELSE Long("FAT32R")]

TreePaths == {<<"FAT32README">>, <<"A">>, <<"D">>, <<"D", "FAT32RECORD">>}
ShortAndLong == {<<1>>, <<2, 2, 2>>}

\* No action and no property reads `last' of the state before a step.
View == <<disk, mem, causes, broken, shown, calls>>
=============================================================================
