------------------------------- MODULE MCShell -------------------------------
(***************************************************************************)
(* Model checking of the shell (lab2): how it scans a line (ShellScanner), *)
(* how it parses one (ShellParser) and how it runs one (Shell).  prog says *)
(* which of the three the behaviour shows; the others stay as they start.  *)
(***************************************************************************)
EXTENDS Shell

CONSTANTS BufSizes, READ_BUF_SIZE,              \* of the scanner
          YYINITDEPTH, YYMAXDEPTH, MaxTokens,   \* of the parser
          NoValue

VARIABLES prog,
          source, pos, interactive, buf, b, n_chars, c_buf_p, yytext, hold,
          bp, cp, cur, last, act, lineno, tokens, scanning,
          input, yyss, yyvs, yystacksize, yychar, yylval, yyn, parsing, tree

scanVars == <<source, pos, interactive, buf, b, n_chars, c_buf_p, yytext, hold,
              bp, cp, cur, last, act, lineno, tokens, scanning>>
parseVars == <<input, yyss, yyvs, yystacksize, yychar, yylval, yyn, parsing, tree>>
allVars == <<prog, vars, scanVars, parseVars>>

-----------------------------------------------------------------------------
(* Every text of three characters from a NUL, a newline, a space, &, <, a     *)
(* letter and a character no rule knows, and one of five.                     *)
Alphabet == {0, 10, 32, 38, 60, 97, 64}
MCTexts == UNION {[1..k -> Alphabet] : k \in 0..3} \cup {<<97, 97, 45, 97, 10>>}

Sc == INSTANCE ShellScanner WITH Texts <- MCTexts, pc <- scanning
Pa == INSTANCE ShellParser WITH pc <- parsing, root <- tree

(* Commands, with and without &, that write one item, three, what they read,  *)
(* or do not exist; redirections to and from a file; and these in sequences,  *)
(* in pipes and nested.                                                       *)
Atom(w) == Pa!Cmd_Atom_new(Pa!make_node(w, <<>>))
Atoms == {Atom(w) : w \in {"w1", "w3", "cat", "none"}}
Targets == {Atom("f"), Pa!Cmd_Back_new(Atom("f"))}
Simple == Atoms \cup {Pa!Cmd_Back_new(a) : a \in Atoms}
          \cup {Pa!Cmd_Redir_new(a, f, flag) : a \in Atoms, f \in Targets, flag \in {1, 2}}
Nested == {Pa!Cmd_Pipe_new(Pa!Cmd_Pipe_new(a, d), c) :
              a \in Atoms \cup {Pa!Cmd_Back_new(Atom("w1"))}, d \in Atoms, c \in Atoms}
          \cup {Pa!Cmd_Seq_new(Pa!Cmd_Pipe_new(a, d), c) : a \in Atoms, d \in Atoms, c \in Atoms}
          \cup {Pa!Cmd_Pipe_new(Pa!Cmd_Seq_new(a, d), c) : a \in Atoms, d \in Atoms, c \in Atoms}
          \cup {Pa!Cmd_Redir_new(Pa!Cmd_Redir_new(a, f, i), Pa!Cmd_Back_new(Atom("f")), j) :
                   a \in Atoms, f \in Targets, i \in {1, 2}, j \in {1, 2}}
MCLines == Simple \cup Nested
           \cup {Pa!Cmd_Seq_new(a, d) : a \in Simple, d \in Simple}
           \cup {Pa!Cmd_Pipe_new(a, d) : a \in Simple, d \in Simple}
           \cup {<<"none">>, Atom("exit"), Atom("cd"), Pa!Cmd_Atom_new(<<"cd", "dir">>)}

-----------------------------------------------------------------------------
MCInit == /\ prog \in {"scan", "parse", "run"}
          /\ prog # "run" => root = <<"none">>
          /\ prog # "scan" => source = <<>> /\ interactive = FALSE
          /\ Init /\ Sc!Init /\ Pa!Init
          /\ prog # "scan" => b.size = 2

MCNext == \/ prog = "scan" /\ Sc!Next /\ UNCHANGED <<prog, vars, parseVars>>
          \/ prog = "parse" /\ Pa!Next /\ UNCHANGED <<prog, vars, scanVars>>
          \/ prog = "run" /\ Next /\ UNCHANGED <<prog, scanVars, parseVars>>

MCSpec == /\ MCInit /\ [][MCNext]_allVars
          /\ WF_scanVars(prog = "scan" /\ Sc!Next)
          /\ WF_parseVars(prog = "parse" /\ Pa!Next)
          /\ WF_vars(prog = "run" /\ Next)

-----------------------------------------------------------------------------
(* How many items a command writes to its descriptor 1, given n on its descriptor 0. *)
RECURSIVE Flow(_, _)
Flow(cmd, n) ==
    CASE Type(cmd) = "atom" -> IF Name(cmd) = "cat" THEN n ELSE Writes(Name(cmd))
      [] Type(cmd) = "back" -> 1 + Flow(cmd[2], n)
      [] Type(cmd) = "seq"  -> Flow(cmd[2], n) + Flow(cmd[3], n)
      [] Type(cmd) = "pipe" -> Flow(cmd[3], Flow(cmd[2], n))
      [] Type(cmd) = "redir" -> IF cmd[4] = 1 THEN 0
                                ELSE Flow(cmd[2], IF Path(cmd[3]) = File THEN FileItems ELSE 0)
(* The part of it that is written before the command's own process ends. *)
RECURSIVE Waited(_)
Waited(cmd) == CASE Type(cmd) = "back" -> 1
                 [] Type(cmd) = "seq" -> Waited(cmd[2]) + Waited(cmd[3])
                 [] OTHER -> Flow(cmd, 0)
RECURSIVE LeftSides(_)
LeftSides(cmd) ==
    CASE Type(cmd) \in {"atom", "back", "none"} -> {}
      [] Type(cmd) = "pipe" -> {cmd[2]} \cup LeftSides(cmd[2]) \cup LeftSides(cmd[3])
      [] Type(cmd) = "seq" -> LeftSides(cmd[2]) \cup LeftSides(cmd[3])
      [] Type(cmd) = "redir" -> LeftSides(cmd[2])

Back == At(Main, "prompt") \/ ~Live(Main)

(* Because the left side of a pipe is waited for before the right side starts
   (ast.c:208), the shell comes back if all that each left side writes fits in the
   pipe, and never does if what one writes in the foreground does not. *)
ReturnsIfPipesHold ==
    /\ (\A left \in LeftSides(root) : Flow(left, 0) <= Capacity) => <>Back
    /\ (\E left \in LeftSides(root) : Waited(left) > Capacity) => []~Back

(* When nothing runs any more, the terminal got every item the line sends there:
   pipes lose and repeat none, and a redirected command writes nothing to it. *)
OutputArrives == Back /\ (\A p \in Pids \ {Main} : ~Live(p)) =>
                    screen = IF root = <<"none">> \/ Builtin THEN 0 ELSE Flow(root, 0)

(* lex.yy.c and parser.tab.c: a line is cut into the tokens scanner.l         *)
(* describes and given the tree parser.y's grammar and precedences do, inside *)
(* the buffer and the stacks.                                                 *)
LinesAreRead == /\ Sc!InsideBuffer /\ Sc!LongestMatch
                /\ Pa!StacksLevel /\ Pa!ParsesGrammar

(* ast.c, main.c: no wait fails, at the prompt the line's foreground processes *)
(* are done, and in the end what they write has reached the screen.            *)
LineIsDone == NoWaitFails /\ ForegroundDone /\ OutputArrives

(* A line is scanned and parsed to its end, and run until the shell prompts   *)
(* again, unless the left side of a pipe fills it (ast.c:208).                *)
ShellGoesOn == /\ prog = "scan" => Sc!ScanEnds
               /\ prog = "parse" => Pa!ParseEnds
               /\ prog = "run" => ReturnsIfPipesHold
==============================================================================
