-------------------------------- MODULE MCMcc --------------------------------
(***************************************************************************)
(* Model checking of the compiler of lab1 - its scanner, its parser, its   *)
(* back ends and its driver - and of the library without libc beside it.   *)
(* part says which of them the behaviour shows; the others stay as they    *)
(* start.                                                                  *)
(***************************************************************************)
EXTENDS MccCode

CONSTANTS BufSizes, READ_BUF_SIZE,              \* of the scanner
          YYINITDEPTH, YYMAXDEPTH, MaxTokens,   \* of the parser
          NoValue

VARIABLES part,
          source, pos, interactive, buf, b, n_chars, c_buf_p, yytext, hold,
          bp, cp, cur, last, act, lineno, tokens, scanning,
          input, yyss, yyvs, yystacksize, yychar, yylval, yyn, parsing, tree,
          option, mode, target, output_name, infile, letter, files, cmd, failed, doing,
          memory, s, args, written, calling, clock, greetings

scanVars == <<source, pos, interactive, buf, b, n_chars, c_buf_p, yytext, hold,
              bp, cp, cur, last, act, lineno, tokens, scanning>>
parseVars == <<input, yyss, yyvs, yystacksize, yychar, yylval, yyn, parsing, tree>>
mainVars == <<option, mode, target, output_name, infile, letter, files, cmd, failed, doing>>
libVars == <<memory, s, args, written, calling, clock, greetings>>
allVars == <<part, vars, scanVars, parseVars, mainVars, libVars>>

-----------------------------------------------------------------------------
(* Every text of three characters from a NUL, a newline, a space, +, 1, @, p  *)
(* and r; and "print" with what tells it from a name.                         *)
Alphabet == {0, 10, 32, 43, 49, 64, 112, 114}
PrintWord == <<112, 114, 105, 110, 116>>
MCTexts == UNION {[1..k -> Alphabet] : k \in 0..3}
           \cup {PrintWord, PrintWord \o <<49>>, <<112, 114, 105, 10>>,
                 PrintWord \o <<32, 120>>, <<112, 114, 120, 49, 95>>}

Sc == INSTANCE MccScanner WITH Texts <- MCTexts, pc <- scanning
Pa == INSTANCE MccParser WITH pc <- parsing, root <- tree

(* Every expression of depth two over 2 and x, some of depth three; programs  *)
(* of several assignments, among them of variables never assigned.            *)
Ops == {"add", "sub", "times", "div"}
Leaves == {<<"num", 2>>, <<"var", "x">>}
Shallow == Leaves \cup {<<op, l, r>> : op \in Ops, l \in Leaves, r \in Leaves}
Deeper == Shallow \cup {<<op, l, r>> : op \in Ops, l \in Shallow, r \in Shallow}
Chains == {<<o, leaf, <<p, leaf, <<q, leaf, <<"sub", leaf, <<"num", 7>>>>>>>>>> :
              o \in Ops, p \in Ops, q \in Ops, leaf \in Leaves}
Let(x, e) == <<"assign", x, e>>
MCPrograms ==
  {<<"seq", Let("x", <<"num", 5>>), <<"print", e>>>> : e \in Deeper \cup Chains}
  \cup {<<"seq", <<"seq", Let("x", e), Let("y", f)>>,
                 <<"seq", Let("x", <<"var", "y">>), <<"print", <<"sub", <<"var", "x">>, <<"var", "y">>>>>>>>>> :
           e \in {<<"num", 1>>, <<"var", "x">>}, f \in {<<"var", "x">>, <<"var", "z">>}}

Main == INSTANCE MccMain WITH arch <- target, input <- infile, status <- doing

(* Formats with what lies behind their NUL: nothing or the next string, which *)
(* holds no %s, as that would take any word for a pointer.                    *)
MCMemories == {<<"a", "%", "d", "b", "%", "d", "NUL">>, <<"%", "c", "%", "s", "NUL">>,
               <<"%", "x", "%", "d", "NUL", "z", "NUL">>,
               <<"a", "%", "%", "NUL", "z", "NUL">>,
               <<"a", "%", "NUL">>, <<"a", "%", "NUL", "z", "%", "d", "NUL">>}
Lib == INSTANCE MiniLib
         WITH Memories <- MCMemories,
              Ints <- -16..15, Strings <- {<<>>, <<"x", "y">>}, Chars <- {"*"},
              ALARM <- 5, SLEEP <- 1, out <- written, pc <- calling

-----------------------------------------------------------------------------
First == CHOOSE p \in Programs : TRUE

MCInit == /\ part \in {"scanner", "parser", "code", "main", "lib"}
          /\ part # "scanner" => source = <<>> /\ interactive = FALSE
          /\ part # "code" => prog = First
          /\ part # "main" => option = "none" /\ mode = "other" /\ target = "none"
                              /\ output_name = "none" /\ infile = "none" /\ letter = "c"
          /\ part # "lib" => memory = <<"a", "%", "NUL">>
          /\ Sc!Init /\ Pa!Init /\ Init /\ Main!Init /\ Lib!Init
          /\ part # "scanner" => b.size = 2
          /\ part # "code" => arch = "X64"

MCNext ==
  \/ part = "scanner" /\ Sc!Next /\ UNCHANGED <<part, vars, parseVars, mainVars, libVars>>
  \/ part = "parser" /\ Pa!Next /\ UNCHANGED <<part, vars, scanVars, mainVars, libVars>>
  \/ part = "code" /\ Next /\ UNCHANGED <<part, scanVars, parseVars, mainVars, libVars>>
  \/ part = "main" /\ Main!Next /\ UNCHANGED <<part, vars, scanVars, parseVars, libVars>>
  \/ part = "lib" /\ Lib!Next /\ UNCHANGED <<part, vars, scanVars, parseVars, mainVars>>

MCSpec == /\ MCInit /\ [][MCNext]_allVars
          /\ WF_scanVars(part = "scanner" /\ Sc!Next)
          /\ WF_parseVars(part = "parser" /\ Pa!Next)
          /\ WF_libVars(part = "lib" /\ Lib!Next)

-----------------------------------------------------------------------------
(* lex.yy.c and parser.tab.c: a program is cut into the tokens scanner.l      *)
(* describes and given the tree parser.y's grammar and precedences do, inside *)
(* the buffer and the stacks; printed by ast.c, it reads as the same tree.    *)
ProgramsAreRead == /\ Sc!InsideBuffer /\ Sc!LongestMatch
                   /\ Pa!StacksLevel /\ Pa!ParsesGrammar /\ Pa!PrintsBack

(* compile-x64.c, compile-riscv.c: the code prints what the program means (on *)
(* x64 with every subtraction the wrong way round), on a stack that is level  *)
(* at every call and a frame that is large enough.                            *)
CodeIsRight == CodeComputes /\ FrameHolds

(* main.c: with -S only an assembly file is made and with -c only an object,  *)
(* under the name the options give, and nothing else is written, whichever    *)
(* tool fails; without a failure an exit with 0 leaves one.  With neither     *)
(* option it may be any product, though lab1.md:149-153 has an executable.    *)
OutputAsAsked == Main!OutputAsAsked

(* mini-lib.c: printf() writes its arguments and reads past its format only   *)
(* if that ends in a %.  %d of 0 and of the least int is not claimed: of 0 it *)
(* writes nothing, though lab1.md:3 lists %d among what works.                *)
PrintfIsRight == Lib!PrintfWrites /\ Lib!StaysInFormat

(* Scanner and parser reach an end on every input, and the alarm ends the     *)
(* loop of notmain.c after five greetings or six, if time passes in its       *)
(* sleeps only and in each as long as it says.                                *)
PartsEnd == /\ part = "scanner" => Sc!ScanEnds
            /\ part = "parser" => Pa!ParseEnds
            /\ part = "lib" => Lib!AlarmEnds
==============================================================================
