------------------------------ MODULE MCThumbs ------------------------------
(* A windowed column of three photos and a video column with a file that is *)
(* gone and one that cannot be decoded, over two icon buffers.           *)
EXTENDS Thumbs

MCCol == {3, 5}
MCPic == 1 .. 8
MCKind == [p \in MCPic |-> IF p \in {5, 8} THEN "png" ELSE "jpg"]
MCSaved == [c \in MCCol |-> IF c = 3 THEN << 1, 2, 3 >> ELSE << 5, 6, 7, 8 >>]
MCListings == [c \in MCCol |-> IF c = 3 THEN {<< 3, 1, 2 >>} ELSE {<< 7, 5 >>}]
=============================================================================
