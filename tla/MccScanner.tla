----------------------------- MODULE MccScanner ------------------------------
(* The compiler's scanner (lab1/mcc/scanner.l and the lex.yy.c made from it): the
   tables of its automaton, driven by Flex.  A state is its index in the tables, a
   character its ASCII code. *)
EXTENDS Integers, Sequences, FiniteSetsExt

CONSTANTS BufSizes, READ_BUF_SIZE, Texts
VARIABLES source, pos, interactive, buf, b, n_chars, c_buf_p, yytext, hold,
          bp, cp, cur, last, act, lineno, tokens, pc

yy_accept == <<0,
    0, 0, 15, 13, 9, 9, 6, 7, 3, 1,
    2, 4, 12, 8, 5, 11, 11, 9, 12, 11,
    11, 11, 11, 10, 0>>

Digits == 48..57
Letters == (65..90) \cup (97..122) \cup {95}
yy_ec == [c \in 0..255 |->
    CASE c = 0 -> 0 [] c \in {9, 13, 32} -> 2 [] c = 10 -> 3
      [] c = 40 -> 4 [] c = 41 -> 5 [] c = 42 -> 6 [] c = 43 -> 7 [] c = 45 -> 8 [] c = 47 -> 9
      [] c \in Digits -> 10 [] c = 59 -> 11 [] c = 61 -> 12
      [] c = 105 -> 14 [] c = 110 -> 15 [] c = 112 -> 16 [] c = 114 -> 17 [] c = 116 -> 18
      [] c \in Letters \ {105, 110, 112, 114, 116} -> 13
      [] OTHER -> 1]

yy_meta == <<0,
    1, 1, 1, 1, 1, 1, 1, 1, 1, 2,
    1, 1, 2, 2, 2, 2, 2, 2>>

yy_base == <<0,
    0, 0, 32, 33, 17, 19, 33, 33, 33, 33,
    33, 33, 21, 33, 33, 0, 13, 21, 19, 0,
    14, 12, 8, 0, 33, 23>>

yy_def == <<0,
    25, 1, 25, 25, 25, 25, 25, 25, 25, 25,
    25, 25, 25, 25, 25, 26, 26, 25, 25, 26,
    26, 26, 26, 26, 0, 25>>

yy_nxt == <<0,
    4, 5, 6, 7, 8, 9, 10, 11, 12, 13,
    14, 15, 16, 16, 16, 17, 16, 16, 18, 18,
    18, 18, 18, 18, 20, 24, 23, 22, 19, 21,
    19, 25, 3, 25, 25, 25, 25, 25, 25, 25,
    25, 25, 25, 25, 25, 25, 25, 25, 25, 25,
    25>>

yy_chk == <<0,
    1, 1, 1, 1, 1, 1, 1, 1, 1, 1,
    1, 1, 1, 1, 1, 1, 1, 1, 5, 5,
    6, 6, 18, 18, 26, 23, 22, 21, 19, 17,
    13, 3, 25, 25, 25, 25, 25, 25, 25, 25,
    25, 25, 25, 25, 25, 25, 25, 25, 25, 25,
    25>>

JamState == 25
Template == 26
EndOfBufferRule == 15
SkipRules == {9}
ErrorRules == {13}
EolRules == {9}                             \* yy_rule_can_match_eol

INSTANCE Flex

------------------------------------------------------------------------------
(* The rules of scanner.l, in its order and numbered as in the tables. *)
Rules == 1..13
In(set, s) == \A i \in DOMAIN s : s[i] \in set
Denotes(r, s) ==
    CASE r \in 1..8 -> s = << <<43, 45, 42, 47, 61, 40, 41, 59>>[r] >>
      [] r = 9  -> s # <<>> /\ In({32, 9, 13, 10}, s)
      [] r = 10 -> s = <<112, 114, 105, 110, 116>>
      [] r = 11 -> s # <<>> /\ s[1] \in Letters /\ In(Letters \cup Digits, s)
      [] r = 12 -> s # <<>> /\ In(Digits, s)
      [] r = 13 -> Len(s) = 1 /\ s[1] # NL
Expected == TokensOf(Denotes, Rules, source)

IsPrefixOf(s, t) == Len(s) <= Len(t) /\ SubSeq(t, 1, Len(s)) = s

(* yylex() returns the tokens scanner.l describes - the longest match, the earliest
   rule - with their line numbers, whatever the buffer's size and however the file
   is cut into reads, even when a token straddles a refill. *)
LongestMatch == /\ IsPrefixOf(tokens, Expected)
                /\ pc = "end" => tokens = Expected

(* Every file is scanned to its end, or to its first bad character. *)
ScanEnds == <>(pc = "end")
==============================================================================
