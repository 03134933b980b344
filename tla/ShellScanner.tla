---------------------------- MODULE ShellScanner -----------------------------
(* The shell's scanner (lab2/scanner.l and the lex.yy.c made from it): the tables
   of its automaton and, from Flex, each part of the driver as lab2/lex.yy.c
   repeats it, here without line counting. *)
EXTENDS Integers, Sequences, FiniteSetsExt

CONSTANTS BufSizes, READ_BUF_SIZE, Texts
VARIABLES source, pos, interactive, buf, b, n_chars, c_buf_p, yytext, hold,
          bp, cp, cur, last, act, lineno, tokens, pc

yy_accept == <<0, 4, 4, 8, 6, 3, 4, 1, 5, 2, 4, 5, 0>>

Words == (48..57) \cup (65..90) \cup (97..122) \cup {45, 46, 95}
yy_ec == [c \in 0..255 |->
    CASE c = 0 -> 0 [] c = 10 -> 2 [] c = 32 -> 3 [] c = 38 -> 4 [] c \in Words -> 5
      [] c = 59 -> 6 [] c = 60 -> 7 [] c = 62 -> 8 [] c = 124 -> 9
      [] OTHER -> 1]

yy_meta == <<0, 1, 1, 1, 1, 1, 1, 1, 1, 1>>

yy_base == <<0, 0, 0, 14, 15, 15, 10, 15, 7, 15, 8, 5, 15>>

yy_def == <<0, 12, 1, 12, 12, 12, 12, 12, 12, 12, 12, 12, 0>>

yy_nxt == <<0,
    4, 5, 6, 7, 8, 7, 9, 9, 7, 11,
    10, 11, 10, 12, 3, 12, 12, 12, 12, 12,
    12, 12, 12, 12>>

yy_chk == <<0,
    1, 1, 1, 1, 1, 1, 1, 1, 1, 11,
    10, 8, 6, 3, 12, 12, 12, 12, 12, 12,
    12, 12, 12, 12>>

JamState == 12
Template == 13
EndOfBufferRule == 8
SkipRules == {4}
ErrorRules == {6}
EolRules == {}

F == INSTANCE Flex
vars == F!vars

Init == F!Init
NextToken == F!NextToken
Match == F!Match
FindAction == F!FindAction
DoAction == F!DoAction
PreviousState(ch, from, end) == F!PreviousState(ch, from, end)
InputLength(max) == F!InputLength(max)
NewSize == F!NewSize
Refilled == F!Refilled
RealNul == F!RealNul
ContinueScan == F!ContinueScan
LastMatch == F!LastMatch
EndOfFile == F!EndOfFile

Next == \/ NextToken \/ Match \/ FindAction \/ DoAction
        \/ RealNul \/ ContinueScan \/ LastMatch \/ EndOfFile
Spec == Init /\ [][Next]_vars /\ WF_vars(Next)

------------------------------------------------------------------------------
(* The rules of scanner.l, in its order and numbered as in the tables.  Rule 4
   also matches the empty text, which would stop the scanner for ever. *)
Rules == 1..6
In(set, s) == \A i \in DOMAIN s : s[i] \in set
Denotes(r, s) ==
    CASE r = 1 -> s \in {<<38>>, <<59>>, <<124>>}
      [] r = 2 -> s \in {<<62>>, <<60>>}
      [] r = 3 -> s = <<10>>
      [] r = 4 -> In({32}, s)
      [] r = 5 -> s # <<>> /\ In(Words, s)
      [] r = 6 -> Len(s) = 1 /\ s[1] # 10
Expected == F!TokensOf(Denotes, Rules, source)
IsPrefixOf(s, t) == Len(s) <= Len(t) /\ SubSeq(t, 1, Len(s)) = s

(* Every position yylex() uses lies inside the buffer (Flex). *)
InsideBuffer == F!InsideBuffer

(* yylex() returns the tokens the shell's scanner.l describes, whatever the buffer's
   size and however the input is cut into reads. *)
LongestMatch == /\ IsPrefixOf(tokens, Expected)
                /\ pc = "end" => tokens = Expected

(* Every input is scanned to its end, or to its first bad character. *)
ScanEnds == <>(pc = "end")
==============================================================================
