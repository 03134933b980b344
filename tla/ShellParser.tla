----------------------------- MODULE ShellParser -----------------------------
(* The shell's parser (lab2/parser.y and the parser.tab.c made from it): the
   grammar's tables, each part of Bison's loop as lab2/parser.tab.c repeats it, and
   the trees the actions build.  One call of yyparse() reads one line. *)
EXTENDS Integers, Sequences, FiniteSetsExt

CONSTANTS YYINITDEPTH, YYMAXDEPTH, MaxTokens, NoValue
VARIABLES input, yyss, yyvs, yystacksize, yychar, yylval, yyn, pc, root

(* The syntax trees (ast.c:9-68, ast.h): what the actions build and Cmd_run() walks.  A
   command's words are a sequence, its first the program. *)
make_node(data, next) == <<data>> \o next
Cmd_Atom_new(node) == <<"atom", node>>
Cmd_Seq_new(left, right) == <<"seq", left, right>>
Cmd_Back_new(back) == <<"back", back>>
Cmd_Pipe_new(left, right) == <<"pipe", left, right>>
Cmd_Redir_new(left, right, flag) == <<"redir", left, right, flag>>

yypact == <<-3, 2, -9, 16, 3, -9, 2, -9, -9, 14,
            14, 14, 14, -9, -9, -9, 7, 7, 10, 10>>
yydefact == <<0, 12, 3, 0, 0, 4, 12, 10, 1, 0,
              0, 0, 0, 6, 2, 11, 7, 5, 8, 9>>
yypgoto == <<-9, -9, -8, -9, 13>>
yydefgoto == <<-1, 3, 4, 5, 7>>
yytable == <<1, 16, 17, 18, 19, 6, 2, 9, 10, 11,
             12, 13, 14, 11, 12, 13, 8, 1, 13, 15>>
yycheck == <<3, 9, 10, 11, 12, 3, 9, 4, 5, 6,
             7, 8, 9, 6, 7, 8, 0, 3, 8, 6>>
yyr1 == <<0, 10, 11, 11, 12, 12, 12, 12, 12, 12, 13, 14, 14>>
yyr2 == <<0, 2, 2, 1, 1, 3, 2, 3, 3, 3, 2, 2, 0>>

YYFINAL == 8
YYLAST == 19
YYNTOKENS == 10
YYPACT_NINF == -9

(* Symbol numbers, as yytranslate gives them. *)
T_ARG == 3
BAR == 4
SEMI == 5
GREATER == 6
LESS == 7
AMP == 8
NEWLINE == 9
Lexemes == {T_ARG, BAR, SEMI, GREATER, LESS, AMP, NEWLINE}

(* The actions of parser.y: the constructors of lab2/ast.c. *)
Build(n, v) ==
    CASE n = 2 -> v[1]
      [] n = 3 -> <<"none">>
      [] n = 4 -> v[1]
      [] n = 5 -> Cmd_Seq_new(v[1], v[3])
      [] n = 6 -> Cmd_Back_new(v[1])
      [] n = 7 -> Cmd_Pipe_new(v[1], v[3])
      [] n = 8 -> Cmd_Redir_new(v[1], v[3], 1)
      [] n = 9 -> Cmd_Redir_new(v[1], v[3], 2)
      [] n = 10 -> Cmd_Atom_new(make_node(v[1], v[2]))
      [] n = 11 -> make_node(v[1], v[2])
      [] n = 12 -> <<>>
AcceptRules == {2, 3}

B == INSTANCE Bison
vars == B!vars

Init == B!Init
SetState == B!SetState
Exhausted == B!Exhausted
BackupDefault == B!BackupDefault
ReadToken == B!ReadToken
Shift == B!Shift
NoShift == B!NoShift
Reduce == B!Reduce
Accept == B!Accept

Next == \/ SetState \/ Exhausted
        \/ BackupDefault \/ ReadToken \/ Shift \/ NoShift \/ Reduce \/ Accept
Spec == Init /\ [][Next]_vars /\ WF_vars(Next)

------------------------------------------------------------------------------
(* The reference: the tree of tokens i..j, split at the last operator of the lowest
   precedence there is; an & ends a command that has no other operator. *)
LastOf(ops, s, i, j) == LET at == {k \in i..j : s[k] \in ops}
                        IN IF at = {} THEN 0 ELSE Max(at)
Trees(s) ==
    LET Command[i \in 1..Len(s) + 1, j \in 0..Len(s)] ==
          LET low == LastOf({BAR, SEMI}, s, i, j)
              redir == LastOf({GREATER, LESS}, s, i, j)
              split == IF low # 0 THEN low ELSE redir
              l == Command[i, split - 1]
              r == Command[split + 1, j]
          IN IF split # 0
               THEN IF l = NoValue \/ r = NoValue THEN NoValue
                    ELSE CASE s[split] = SEMI    -> <<"seq", l, r>>
                           [] s[split] = BAR     -> <<"pipe", l, r>>
                           [] s[split] = GREATER -> <<"redir", l, r, 1>>
                           [] s[split] = LESS    -> <<"redir", l, r, 2>>
             ELSE IF i < j /\ s[j] = AMP
               THEN IF Command[i, j - 1] = NoValue THEN NoValue ELSE <<"back", Command[i, j - 1]>>
             ELSE IF i <= j /\ \A k \in i..j : s[k] = T_ARG
               THEN <<"atom", [k \in 1..j - i + 1 |-> <<"token", i + k - 1>>]>>
             ELSE NoValue
    IN IF s = <<NEWLINE>> THEN <<"none">>
       ELSE IF s # <<>> /\ s[Len(s)] = NEWLINE THEN Command[1, Len(s) - 1]
       ELSE NoValue
Viable(s) == \E e \in {<<>>, <<NEWLINE>>, <<T_ARG, NEWLINE>>} : Trees(s \o e) # NoValue

(* The stacks stay level and inside the room allocated for them (Bison). *)
StacksLevel == B!StacksLevel

(* yyparse() accepts a line exactly when it is a command of parser.y's grammar, with
   the tree its precedences give, and leaves no lookahead behind for the next call;
   it reports an error only where no command goes on, and as soon as none does. *)
ParsesGrammar ==
    /\ pc = "accepted" => root = Trees(input) /\ root # NoValue /\ yychar = B!YYEMPTY
    /\ pc = "error" => ~Viable(input)
    /\ pc \notin {"error", "exhausted"} => Viable(B!Consumed)

(* A parse ends: accepted, in error, or out of stack. *)
ParseEnds == <>(pc \in {"accepted", "error", "exhausted"})
==============================================================================
