-------------------------------- MODULE Flex ---------------------------------
(* The driver flex generates around a scanner's tables (lab1/mcc/lex.yy.c; the
   shell's lab2/lex.yy.c holds the same text): yylex() walks the compressed
   automaton over a buffer that is refilled from the file while a token may
   straddle its end.  Characters are their codes; 0 is both the NUL character and
   the buffer's end marker.  The tables are parameters; they are 0-based in C, so
   entry i is At(t, i).  A buffer's branches no caller reaches (yy_fill_buffer = 0,
   a buffer that is not ours, the extension at 1100-1109 that num_to_read rules
   out) are left out. *)
EXTENDS Integers, Sequences, FiniteSetsExt

CONSTANTS yy_accept, yy_ec, yy_meta, yy_base, yy_def, yy_nxt, yy_chk,
          JamState, Template, EndOfBufferRule,
          SkipRules, ErrorRules, EolRules,   \* rules that return nothing, that fail, that count lines
          BufSizes, READ_BUF_SIZE,           \* YY_BUF_SIZE, any of a few; YY_READ_BUF_SIZE
          Texts                              \* the files to scan

VARIABLES source, pos,       \* the file, and how many of its characters were read
          interactive,       \* yy_is_interactive
          buf, b,            \* yy_ch_buf; the buffer's yy_buf_size, yy_n_chars, yy_buffer_status
          n_chars, c_buf_p, yytext, hold,   \* yy_n_chars, yy_c_buf_p, yytext_ptr, yy_hold_char
          bp, cp, cur, last, act,           \* yylex's locals; the last accepting state and position
          lineno, tokens, pc
vars == <<source, pos, interactive, buf, b, n_chars, c_buf_p, yytext, hold,
          bp, cp, cur, last, act, lineno, tokens, pc>>
input == <<source, interactive>>
pointers == <<n_chars, c_buf_p, yytext, hold>>

At(t, i) == t[i + 1]
EOB == 0
NL == 10
EofRule == EndOfBufferRule + 1              \* YY_STATE_EOF(INITIAL)
Junk == -1                                  \* memory nobody wrote
Resized(old, size) == [i \in 0..size + 1 |-> IF i \in DOMAIN old THEN old[i] ELSE Junk]
Flushed(old) == [old EXCEPT ![0] = EOB, ![1] = EOB]
Chars(from, to) == [i \in 1..to - from |-> buf[from + i - 1]]

(* One transition of the automaton: down the chain of defaults to an entry of its own. *)
Goto[s \in 0..Len(yy_base) - 1, c \in 0..Len(yy_meta) - 1] ==
    LET i == At(yy_base, s) + c
        d == At(yy_def, s)
    IN IF At(yy_chk, i) = s THEN At(yy_nxt, i)
       ELSE Goto[d, IF d >= Template THEN At(yy_meta, c) ELSE c]
Class(char) == IF char = 0 THEN 1 ELSE yy_ec[char]   \* a NUL inside the text is of class 1
Noted(l, s, p) == IF At(yy_accept, s) # 0 THEN [state |-> s, cpos |-> p] ELSE l

(* yy_get_previous_state(): the automaton after the characters of `ch` from position 0 up to `end`. *)
PreviousState(ch, from, end) ==
    LET Run[p \in from..end] ==
          IF p = from THEN [state |-> 1, last |-> last]
          ELSE [state |-> Goto[Run[p - 1].state, Class(ch[p - 1])],
                last  |-> Noted(Run[p - 1].last, Run[p - 1].state, p - 1)]
    IN Run[end]

Init == /\ source \in Texts /\ pos = 0
        /\ interactive \in BOOLEAN
        /\ \E size \in BufSizes :
              /\ b = [size |-> size, n_chars |-> 0, status |-> "NEW"]
              /\ buf = Flushed(Resized(<<>>, size))
        /\ n_chars = 0 /\ c_buf_p = 0 /\ yytext = 0 /\ hold = EOB
        /\ bp = 0 /\ cp = 0 /\ cur = 1 /\ act = 0
        /\ last = [state |-> 0, cpos |-> 0]
        /\ lineno = 1 /\ tokens = <<>> /\ pc = "call"

(* The parser calls yylex(), or a rule that returns nothing starts the next token. *)
NextToken == /\ pc = "call"
             /\ cp' = c_buf_p /\ bp' = c_buf_p /\ cur' = 1
             /\ buf' = [buf EXCEPT ![c_buf_p] = hold]
             /\ pc' = "match"
             /\ UNCHANGED <<input, pos, b, pointers, last, act, lineno, tokens>>

Match == /\ pc = "match"
         /\ last' = Noted(last, cur, cp)
         /\ cur' = Goto[cur, yy_ec[buf[cp]]]
         /\ cp' = cp + 1
         /\ pc' = IF At(yy_base, cur') = At(yy_base, JamState) THEN "find_action" ELSE "match"
         /\ UNCHANGED <<input, pos, buf, b, pointers, bp, act, lineno, tokens>>

(* yy_find_action and YY_DO_BEFORE_ACTION: back up to the last match, end yytext with a NUL. *)
NewLines(s) == Cardinality({i \in DOMAIN s : s[i] = NL})
FindAction ==
    /\ pc = "find_action"
    /\ LET found == At(yy_accept, cur)
           end == IF found = 0 THEN last.cpos ELSE cp
       IN /\ cur' = IF found = 0 THEN last.state ELSE cur
          /\ act' = At(yy_accept, cur')
          /\ cp' = end /\ c_buf_p' = end
          /\ yytext' = bp
          /\ hold' = buf[end]
          /\ buf' = [buf EXCEPT ![end] = 0]
          /\ lineno' = IF act' \in EolRules THEN lineno + NewLines(Chars(bp, end)) ELSE lineno
    /\ pc' = "do_action"
    /\ UNCHANGED <<input, pos, b, n_chars, bp, last, tokens>>

(* A rule's action: the token goes to the parser, is skipped, or ends the program. *)
DoAction ==
    /\ pc = "do_action" /\ act # EndOfBufferRule
    /\ tokens' = IF act \in SkipRules THEN tokens
                 ELSE Append(tokens, [rule |-> act, line |-> lineno,
                                      text |-> IF act = EofRule THEN <<>> ELSE Chars(yytext, cp)])
    /\ pc' = IF act \in ErrorRules \cup {EofRule} THEN "end" ELSE "call"
    /\ UNCHANGED <<input, pos, buf, b, pointers, bp, cp, cur, last, act, lineno>>

(* YY_END_OF_BUFFER: the end marker was matched.  Undone is the buffer as it was
   before yytext was ended, and Known how many characters it holds. *)
AtEndOfBuffer == pc = "do_action" /\ act = EndOfBufferRule
Undone == [buf EXCEPT ![cp] = hold]
Known == IF b.status = "NEW" THEN b.n_chars ELSE n_chars
Normal == IF b.status = "NEW" THEN [b EXCEPT !.status = "NORMAL"] ELSE b
Matched == cp - yytext - 1

(* The marker lies inside the text: it was a NUL, which yy_try_NUL_trans() follows. *)
RealNul ==
    /\ AtEndOfBuffer /\ c_buf_p <= Known
    /\ LET end == yytext + Matched
           p == PreviousState(Undone, yytext, end)
           next == Goto[p.state, 1]
       IN /\ last' = Noted(p.last, p.state, end)
          /\ bp' = yytext
          /\ IF next # JamState
               THEN /\ cp' = end + 1 /\ c_buf_p' = end + 1
                    /\ cur' = next /\ pc' = "match"
               ELSE /\ cp' = end /\ c_buf_p' = end
                    /\ cur' = p.state /\ pc' = "find_action"
    /\ buf' = Undone /\ b' = Normal /\ n_chars' = Known
    /\ UNCHANGED <<input, pos, yytext, hold, act, lineno, tokens>>

(* Mutant: the end marker is kept too. *)
KeptMarkerToo == c_buf_p - yytext
(* yy_get_next_buffer(): Kept characters move to the front and as many as fit are
   read after them.  The buffer doubles until something fits. *)
Kept == c_buf_p - yytext - 1
Room(size) == CHOOSE s \in {size * 2^k : k \in 0..Kept + 1} :
                 /\ s - Kept - 1 > 0
                 /\ s = size \/ (s \div 2) - Kept - 1 <= 0
Unread == SubSeq(source, pos + 1, Len(source))
(* YY_INPUT: a terminal gives a line at most, a file as much as was asked for. *)
InputLength(max) ==
    LET avail == Min({max, Len(Unread)})
        ends == {i \in 1..avail : Unread[i] = NL}
    IN IF interactive /\ ends # {} THEN Min(ends) ELSE avail
NewSize == IF b.status = "EOF_PENDING" THEN b.size ELSE Room(b.size)
Got == IF b.status = "EOF_PENDING" THEN 0
       ELSE InputLength(Min({NewSize - Kept - 1, READ_BUF_SIZE}))
Refilled ==
    [i \in 0..NewSize + 1 |->
        CASE i < Kept                  -> Undone[yytext + i]
          [] i \in Kept..Kept+Got-1    -> Unread[i - Kept + 1]
          [] i \in {Kept+Got, Kept+Got+1} -> EOB
          [] OTHER                     -> Resized(Undone, NewSize)[i]]
Refill == /\ AtEndOfBuffer /\ c_buf_p > Known
          /\ pos' = pos + Got
          /\ yytext' = 0 /\ bp' = 0
          /\ UNCHANGED <<input, lineno, tokens>>

(* EOB_ACT_CONTINUE_SCAN *)
ContinueScan ==
    /\ Refill /\ Got > 0
    /\ buf' = Refilled
    /\ b' = [Normal EXCEPT !.size = NewSize, !.n_chars = Got]
    /\ n_chars' = Kept + Got
    /\ c_buf_p' = Matched /\ cp' = Matched
    /\ LET p == PreviousState(Refilled, 0, Matched)
       IN cur' = p.state /\ last' = p.last
    /\ pc' = "match"
    /\ UNCHANGED <<hold, act>>

(* EOB_ACT_LAST_MATCH: the file is at its end but part of a token was matched. *)
LastMatch ==
    /\ Refill /\ Got = 0 /\ Kept > 0
    /\ buf' = Refilled
    /\ b' = [Normal EXCEPT !.size = NewSize, !.n_chars = 0, !.status = "EOF_PENDING"]
    /\ n_chars' = Kept
    /\ c_buf_p' = Kept /\ cp' = Kept
    /\ LET p == PreviousState(Refilled, 0, Kept)
       IN cur' = p.state /\ last' = p.last
    /\ pc' = "find_action"
    /\ UNCHANGED <<hold, act>>

(* EOB_ACT_END_OF_FILE: yyrestart() empties the buffer and the end-of-file rule runs. *)
EndOfFile ==
    /\ Refill /\ Got = 0 /\ Kept = 0
    /\ buf' = Flushed(Refilled)
    /\ b' = [size |-> NewSize, n_chars |-> 0, status |-> "NEW"]
    /\ n_chars' = 0 /\ c_buf_p' = 0 /\ hold' = EOB
    /\ act' = EofRule /\ pc' = "do_action"
    /\ UNCHANGED <<cp, cur, last>>

Next == \/ NextToken \/ Match \/ FindAction \/ DoAction
        \/ RealNul \/ ContinueScan \/ LastMatch \/ EndOfFile
Spec == Init /\ [][Next]_vars /\ WF_vars(Next)

------------------------------------------------------------------------------
(* Every position yylex() uses lies inside the buffer, no character is read that
   nobody wrote, and the text is followed by two end markers between tokens
   (lex.yy.c:1111-1113). *)
InsideBuffer ==
    /\ DOMAIN buf = 0..b.size + 1
    /\ 0 <= yytext /\ yytext <= c_buf_p /\ c_buf_p <= n_chars + 1 /\ n_chars <= b.size
    /\ pc = "match" => cp <= n_chars + 1
    /\ pc = "find_action" => cp <= n_chars + 2 /\ (IF At(yy_accept, cur) = 0 THEN last.cpos ELSE cp) \in bp..n_chars + 1
    /\ pc \in {"match", "find_action"} =>
          \A i \in bp..n_chars + 1 : buf[i] # Junk /\ (i >= n_chars => buf[i] = EOB)

(* The tokens a reference scanner finds from position p on: the longest text some
   rule matches, the first of those rules.  Denotes(r, s) says rule r matches s. *)
TokensOf(Denotes(_, _), Rules, text) ==
    LET Longest(p) == Max({0} \cup {k \in 1..Len(text) - p :
                            \E r \in Rules : Denotes(r, SubSeq(text, p + 1, p + k))})
        Line(p) == 1 + IF EolRules = {} THEN 0 ELSE NewLines(SubSeq(text, 1, p))
        From[p \in 0..Len(text)] ==
          IF p = Len(text) THEN <<[rule |-> EofRule, line |-> Line(p), text |-> <<>>]>>
          ELSE LET lexeme == SubSeq(text, p + 1, p + Longest(p))
                   rule == Min({r \in Rules : Denotes(r, lexeme)})
                   token == <<[rule |-> rule, line |-> Line(p), text |-> lexeme]>>
               IN CASE rule \in SkipRules  -> From[p + Longest(p)]
                    [] rule \in ErrorRules -> token
                    [] OTHER               -> token \o From[p + Longest(p)]
    IN From[0]
==============================================================================
