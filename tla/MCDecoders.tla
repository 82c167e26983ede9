----------------------------- MODULE MCDecoders -----------------------------
(* Bytes of ten values, "a" to "e" the upper five; images with fields of none *)
(* to two bytes, one of them without the synchronization word.               *)
EXTENDS Decoders
Upper == <<5, 6, 7, 8, 9>>
Word2 == <<4, 3>>
SmallImages ==
    [header : {<<>>, <<2>>}, fields : {<< <<>>, <<5>>, <<>>, <<0, 1>> >>},
     payload : {<<4, 3>>, <<1, 4, 3>>, <<1, 9, 4, 3>>, <<3>>}]
\* The codes of 512 and 4096 bytes.
TwoCodes == {{1}, {0, 2}}
Damaged == {0, 1, 2, 4, 5, 9}
=============================================================================
