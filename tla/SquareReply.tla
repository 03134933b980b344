----------------------------- MODULE SquareReply -----------------------------
(* What the square servers (lab3 partA) answer.  A text is <<how it begins, the number
   after that>>. *)
EXTENDS Integers
CONSTANT W                      \* bits of an int

Nothing == <<"", 0>>
Bye == <<"bye", 0>>
FalseFormat == <<"flase format", 0>>
Garbage == <<"garbage", 0>>

(* The answer to a text: n*n as a W-bit int, or as a float.  The server's own "flase
   format" begins with an f, and the number read after it is 0. *)
Signed(v) == LET r == v % (2^W) IN IF r >= 2^(W - 1) THEN r - 2^W ELSE r
Reply(t) == CASE t[1] = "i" -> <<"number", Signed(t[2] * t[2])>>
              [] t[1] \in {"f", "flase format"} -> <<"number", t[2] * t[2]>>
              [] OTHER -> FalseFormat
==============================================================================
