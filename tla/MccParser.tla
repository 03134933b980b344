------------------------------ MODULE MccParser ------------------------------
(* The compiler's parser (lab1/mcc/parser.y and the parser.tab.c made from it):
   the grammar's tables, driven by Bison, and the trees its actions build. *)
EXTENDS Integers, Sequences, FiniteSetsExt, TLC

CONSTANTS YYINITDEPTH, YYMAXDEPTH, MaxTokens, NoValue
VARIABLES input, yyss, yyvs, yystacksize, yychar, yylval, yyn, pc, root

(* The syntax trees (ast.c, ast.h): what the actions build and the back ends walk. *)
Exp_Num_new(num) == <<"num", num>>
Exp_Var_new(name) == <<"var", name>>
Exp_Add_new(left, right) == <<"add", left, right>>
Exp_Sub_new(left, right) == <<"sub", left, right>>
Exp_Times_new(left, right) == <<"times", left, right>>
Exp_Div_new(left, right) == <<"div", left, right>>
Stm_Assign_new(x, exp) == <<"assign", x, exp>>
Stm_Print_new(exp) == <<"print", exp>>
Stm_Seq_new(left, right) == <<"seq", left, right>>

yypact == <<26, 2, 8, 15, 21, 3, 3, -8, 26, -8,
            -8, 3, -7, 9, -8, 16, 3, 3, 3, 3,
            -8, -8, -2, -2, -8, -8>>
yydefact == <<0, 0, 0, 0, 2, 0, 0, 1, 0, 7,
              6, 0, 3, 0, 5, 0, 0, 0, 0, 0,
              4, 12, 8, 9, 10, 11>>
yypgoto == <<-8, -8, 14, -6>>
yydefgoto == <<-1, 3, 4, 12>>
yytable == <<13, 16, 17, 18, 19, 15, 9, 10, 18, 19,
             22, 23, 24, 25, 5, 7, 11, 16, 17, 18,
             19, 6, 14, 20, 16, 17, 18, 19, 8, 1,
             21, 2>>
yycheck == <<6, 8, 9, 10, 11, 11, 3, 4, 10, 11,
             16, 17, 18, 19, 12, 0, 13, 8, 9, 10,
             11, 13, 8, 14, 8, 9, 10, 11, 7, 3,
             14, 5>>
yyr1 == <<0, 15, 16, 17, 17, 17, 18, 18, 18, 18, 18, 18, 18>>
yyr2 == <<0, 2, 1, 3, 4, 3, 1, 1, 3, 3, 3, 3, 3>>

YYFINAL == 7
YYLAST == 31
YYNTOKENS == 15
YYPACT_NINF == -8

(* Symbol numbers, as yytranslate gives them. *)
VAR == 3
NUM == 4
PRINT == 5
SEMI == 7
PLUS == 8
MINUS == 9
TIMES == 10
DIV == 11
EQ == 12
LPAREN == 13
RPAREN == 14
Lexemes == {VAR, NUM, PRINT, SEMI, PLUS, MINUS, TIMES, DIV, EQ, LPAREN, RPAREN}

(* The actions of parser.y: the constructors of ast.c. *)
Build(n, v) ==
    CASE n = 2 -> v[1]
      [] n = 3 -> Stm_Assign_new(v[1], v[3])
      [] n = 4 -> Stm_Print_new(v[3])
      [] n = 5 -> Stm_Seq_new(v[1], v[3])
      [] n = 6 -> Exp_Num_new(v[1])
      [] n = 7 -> Exp_Var_new(v[1])
      [] n = 8 -> Exp_Add_new(v[1], v[3])
      [] n = 9 -> Exp_Sub_new(v[1], v[3])
      [] n = 10 -> Exp_Times_new(v[1], v[3])
      [] n = 11 -> Exp_Div_new(v[1], v[3])
      [] n = 12 -> v[2]
AcceptRules == {2}

INSTANCE Bison

------------------------------------------------------------------------------
(* The reference: the tree parser.y gives tokens i..j, split at the last operator
   outside parentheses, of the lowest precedence there is. *)
Depth(s, i, k) == Cardinality({x \in i..k : s[x] = LPAREN}) - Cardinality({x \in i..k : s[x] = RPAREN})
LastOf(ops, s, i, j) ==
    LET at == {k \in i..j : s[k] \in ops /\ Depth(s, i, k) = 0}
    IN IF at = {} THEN 0 ELSE Max(at)
Node(op, l, r) == IF l = NoValue \/ r = NoValue THEN NoValue ELSE <<op, l, r>>
OpName == (PLUS :> "add") @@ (MINUS :> "sub") @@ (TIMES :> "times") @@ (DIV :> "div")

Trees(s) ==
    LET Exp[i \in 1..Len(s) + 1, j \in 0..Len(s)] ==
          LET sum == LastOf({PLUS, MINUS}, s, i, j)
              product == LastOf({TIMES, DIV}, s, i, j)
              split == IF sum # 0 THEN sum ELSE product
          IN IF split # 0 THEN Node(OpName[s[split]], Exp[i, split - 1], Exp[split + 1, j])
             ELSE IF i = j /\ s[i] \in {VAR, NUM} THEN <<IF s[i] = VAR THEN "var" ELSE "num", <<"token", i>>>>
             ELSE IF i < j /\ s[i] = LPAREN /\ s[j] = RPAREN THEN Exp[i + 1, j - 1]
             ELSE NoValue
        Stm[i \in 1..Len(s) + 1, j \in 0..Len(s)] ==
          LET semi == LastOf({SEMI}, s, i, j)
          IN IF semi # 0 THEN Node("seq", Stm[i, semi - 1], Stm[semi + 1, j])
             ELSE IF j >= i + 2 /\ s[i] = VAR /\ s[i + 1] = EQ
                    THEN Node("assign", <<"token", i>>, Exp[i + 2, j])
             ELSE IF j >= i + 3 /\ s[i] = PRINT /\ s[i + 1] = LPAREN /\ s[j] = RPAREN
                    THEN IF Exp[i + 2, j - 1] = NoValue THEN NoValue
                         ELSE <<"print", Exp[i + 2, j - 1]>>
             ELSE NoValue
    IN Stm[1, Len(s)]

(* The shortest ways to finish a program that has begun. *)
Endings(s) == LET d == Max({0, Depth(s, 1, Len(s))})
                  heads == {<<>>, <<NUM>>, <<EQ, NUM>>, <<LPAREN, NUM, RPAREN>>, <<VAR, EQ, NUM>>}
              IN {h \o [x \in 1..d |-> RPAREN] : h \in heads}
Viable(s) == \E e \in Endings(s) : Trees(s \o e) # NoValue

(* yyparse() accepts with the tree parser.y's grammar and precedences give the tokens
   it consumed, and never drops a token but the lookahead (which may be any: "program :
   stm", parser.y:38, does not ask for the end of the input); it reports an error only
   where no program goes on, and as soon as none does. *)
ParsesGrammar ==
    /\ pc = "accepted" => root = Trees(Consumed) /\ root # NoValue
    /\ pc = "error" => ~Viable(input) \/ (yychar = YYEOF /\ Trees(Consumed) = NoValue)
    /\ pc \notin {"error", "exhausted"} => Viable(Consumed)

(* A parse ends: accepted, in error, or out of stack. *)
ParseEnds == <>(pc \in {"accepted", "error", "exhausted"})

(* Exp_print() and Stm_print(): the tokens written and the values they stand for. *)
Symbol(t) == << <<t, NoValue>> >>
Operator(t) == CASE t[1] = "add" -> PLUS [] t[1] = "sub" -> MINUS
                 [] t[1] = "times" -> TIMES [] t[1] = "div" -> DIV
RECURSIVE Exp_print(_)
Exp_print(e) == CASE e[1] = "num" -> << <<NUM, e[2]>> >>
                  [] e[1] = "var" -> << <<VAR, e[2]>> >>
                  [] OTHER -> Symbol(LPAREN) \o Exp_print(e[2]) \o Symbol(Operator(e))
                                \o Exp_print(e[3]) \o Symbol(RPAREN)
RECURSIVE Stm_print(_)
Stm_print(s) ==
    CASE s[1] = "assign" -> << <<VAR, s[2]>>, <<EQ, NoValue>> >> \o Exp_print(s[3]) \o Symbol(SEMI)
      [] s[1] = "print" -> << <<PRINT, NoValue>>, <<LPAREN, NoValue>> >> \o Exp_print(s[2])
                             \o Symbol(RPAREN) \o Symbol(SEMI)
      [] s[1] = "seq" -> Stm_print(s[2]) \o Stm_print(s[3])

RECURSIVE Renamed(_, _)
Renamed(t, printed) == CASE t[1] = "token" -> printed[t[2]][2]
                         [] t[1] \in {"num", "var", "print"} -> <<t[1], Renamed(t[2], printed)>>
                         [] OTHER -> <<t[1], Renamed(t[2], printed), Renamed(t[3], printed)>>

(* A program that was parsed and printed parses to the same tree again, once the
   semicolon Stm_print() puts after the last statement is taken off: with it, the
   text is no program of the grammar. *)
PrintsBack ==
    pc = "accepted" =>
      LET printed == Stm_print(root)
          text == [i \in DOMAIN printed |-> printed[i][1]]
      IN /\ Trees(text) = NoValue
         /\ Renamed(Trees(SubSeq(text, 1, Len(text) - 1)), printed) = root
==============================================================================
