-------------------------------- MODULE Bison --------------------------------
(* The parser loop Bison generates around a grammar's tables (yyparse() of
   lab1/mcc/parser.tab.c; the shell's lab2/parser.tab.c holds the same text).
   Tokens are Bison's symbol numbers; the lexer may return any of Lexemes, so every
   token sequence of MaxTokens tokens is parsed.  A token's value is its position.
   The tables are 0-based in C: entry i is At(t, i).  Error recovery
   (parser.tab.c:1445-1566) is never entered: yyerror() ends the program. *)
EXTENDS Integers, Sequences

CONSTANTS yypact, yydefact, yypgoto, yydefgoto, yytable, yycheck, yyr1, yyr2,
          YYFINAL, YYLAST, YYNTOKENS, YYPACT_NINF,
          YYINITDEPTH, YYMAXDEPTH,
          Lexemes, MaxTokens,
          Build(_, _),        \* Build(n, values): the value rule n gives the values it reduces
          AcceptRules,        \* rules whose action returns from yyparse()
          NoValue

VARIABLES input,              \* the tokens yylex() has returned to this call of yyparse()
          yyss, yyvs, yystacksize,
          yychar, yylval,     \* the lookahead (YYEMPTY or a token) and its value
          yyn, pc, root
vars == <<input, yyss, yyvs, yystacksize, yychar, yylval, yyn, pc, root>>
stacks == <<yyss, yyvs, yystacksize>>

At(t, i) == t[i + 1]
YYEMPTY == -2
YYEOF == 0
Top(s) == s[Len(s)]
Popped(s, n) == SubSeq(s, 1, Len(s) - n)

Init == /\ input = <<>>
        /\ yyss = <<0>> /\ yyvs = <<>> /\ yystacksize = YYINITDEPTH
        /\ yychar = YYEMPTY /\ yylval = NoValue
        /\ yyn = 0 /\ pc = "setstate" /\ root = NoValue

(* yysetstate: a state was pushed; a full stack doubles, up to YYMAXDEPTH. *)
Full == Len(yyss) >= yystacksize
SetState == /\ pc = "setstate"
            /\ Full => yystacksize < YYMAXDEPTH
            /\ yystacksize' = IF ~Full THEN yystacksize
                              ELSE IF 2 * yystacksize > YYMAXDEPTH THEN YYMAXDEPTH
                              ELSE 2 * yystacksize
            /\ pc' = IF Top(yyss) = YYFINAL THEN "accepted" ELSE "backup"
            /\ UNCHANGED <<input, yyss, yyvs, yychar, yylval, yyn, root>>
(* yyexhaustedlab: yyerror("memory exhausted") exits. *)
Exhausted == /\ pc = "setstate" /\ Full /\ yystacksize >= YYMAXDEPTH
             /\ pc' = "exhausted"
             /\ UNCHANGED <<input, stacks, yychar, yylval, yyn, root>>

(* yybackup: decide without a lookahead, or read one and look it up. *)
Pact == At(yypact, Top(yyss))
DefaultAction == At(yydefact, Top(yyss))
Decide(n) == /\ yyn' = n
             /\ pc' = IF n = 0 THEN "error" ELSE "reduce"

BackupDefault == /\ pc = "backup" /\ Pact = YYPACT_NINF
                 /\ Decide(DefaultAction)
                 /\ UNCHANGED <<input, stacks, yychar, yylval, root>>

ReadToken == /\ pc = "backup" /\ Pact # YYPACT_NINF /\ yychar = YYEMPTY
             /\ \E t \in IF Len(input) < MaxTokens THEN Lexemes \cup {YYEOF} ELSE {YYEOF} :
                   /\ input' = Append(input, t)
                   /\ yychar' = t
                   /\ yylval' = <<"token", Len(input')>>
             /\ UNCHANGED <<stacks, yyn, pc, root>>

(* The table's entry for the state and the lookahead; 0 where there is none. *)
Known(i) == 0 <= i /\ i <= YYLAST /\ At(yycheck, i) = yychar
Entry == IF Known(Pact + yychar) THEN At(yytable, Pact + yychar) ELSE 0
WithLookahead == pc = "backup" /\ Pact # YYPACT_NINF /\ yychar # YYEMPTY

(* Mutant: the token shifted stays the lookahead. *)
StillLookahead == yychar
Shifted == YYEMPTY
Shift == /\ WithLookahead /\ Entry > 0
         /\ yyss' = Append(yyss, Entry)
         /\ yyvs' = Append(yyvs, yylval)
         /\ yychar' = Shifted
         /\ pc' = "setstate"
         /\ UNCHANGED <<input, yystacksize, yylval, yyn, root>>

NoShift == /\ WithLookahead /\ Entry <= 0
           /\ Decide(IF Known(Pact + yychar) THEN -Entry ELSE DefaultAction)
           /\ UNCHANGED <<input, stacks, yychar, yylval, root>>

(* yyreduce: pop the rule's symbols, push its value and the state it goes to. *)
GotoState(lhs, s) ==
    LET i == At(yypgoto, lhs) + s
    IN IF 0 <= i /\ i <= YYLAST /\ At(yycheck, i) = s THEN At(yytable, i)
       ELSE At(yydefgoto, lhs)
Value == Build(yyn, SubSeq(yyvs, Len(yyvs) - At(yyr2, yyn) + 1, Len(yyvs)))

Reduce == /\ pc = "reduce" /\ yyn \notin AcceptRules
          /\ LET below == Popped(yyss, At(yyr2, yyn))
             IN yyss' = Append(below, GotoState(At(yyr1, yyn) - YYNTOKENS, Top(below)))
          /\ yyvs' = Append(Popped(yyvs, At(yyr2, yyn)), Value)
          /\ pc' = "setstate"
          /\ UNCHANGED <<input, yystacksize, yychar, yylval, yyn, root>>

(* The start symbol's action stores the tree and returns 0. *)
Accept == /\ pc = "reduce" /\ yyn \in AcceptRules
          /\ root' = Value
          /\ pc' = "accepted"
          /\ UNCHANGED <<input, stacks, yychar, yylval, yyn>>

Next == \/ SetState \/ Exhausted
        \/ BackupDefault \/ ReadToken \/ Shift \/ NoShift \/ Reduce \/ Accept
Spec == Init /\ [][Next]_vars /\ WF_vars(Next)

------------------------------------------------------------------------------
(* The tokens the parser has consumed, that is all but the lookahead. *)
Consumed == IF yychar = YYEMPTY THEN input ELSE Popped(input, 1)

(* The stacks stay level and inside the room allocated for them. *)
StacksLevel == /\ Len(yyvs) = Len(yyss) - 1
               /\ Len(yyss) <= yystacksize /\ yystacksize <= YYMAXDEPTH
==============================================================================
