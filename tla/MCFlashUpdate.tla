--------------------------- MODULE MCFlashUpdate ---------------------------
(***************************************************************************)
(* Instances of FlashUpdate for TLC.                                       *)
(***************************************************************************)
EXTENDS FlashUpdate

Short == CHOOSE i \in Images : TRUE

(* One image that is shorter than the others, which leave a page free.     *)
MixedLength == [i \in Images |-> IF i = Short THEN 1 ELSE Cap - 1]
(* An image that fills its partition and others that are too long for it:  *)
(* at offset 0 they reach into B.                                          *)
LongLength == [i \in Images |-> IF i = Short THEN Cap ELSE FrontPages + PartPages + 1]
=============================================================================
