------------------------------- MODULE MccCode -------------------------------
(* The compiler's back ends (lab1/mcc/compile-x64.c, compile-riscv.c, set.c) and
   the machines their code runs on: a program's tree is compiled and the assembly
   executed one instruction at a time.  Instructions that always come together (the
   address and the access of a variable, cqto and idivq, the call of printf) are one.
   An int has W bits, an x64 register 2W. *)
EXTENDS Integers, Sequences, SequencesExt

CONSTANTS Programs,                 \* the syntax trees to compile (ast.h)
          W
VARIABLES prog, arch, code, ip,     \* the program, its target, its instructions
          acc, tmp,                 \* rax and rbx; a1 and a2
          stack,                    \* what x64 pushes; the words of RISC-V's frame
          globals, out, status
vars == <<prog, arch, code, ip, acc, tmp, stack, globals, out, status>>
setup == <<prog, arch, code>>

Wrap(n, bits) == ((n + 2^(bits - 1)) % 2^bits) - 2^(bits - 1)
Abs(n) == IF n < 0 THEN -n ELSE n
Quotient(a, b) == LET q == Abs(a) \div Abs(b) IN IF (a < 0) = (b < 0) THEN q ELSE -q
Larger(a, b) == IF a > b THEN a ELSE b

(* set.c: the variables assigned, each once, in the order of their first assignment. *)
SetAdd(set, x) == IF Contains(set, x) THEN set ELSE Append(set, x)
RECURSIVE Assigned(_, _)
Assigned(s, set) == CASE s[1] = "assign" -> SetAdd(set, s[2])
                      [] s[1] = "print"  -> set
                      [] s[1] = "seq"    -> Assigned(s[3], Assigned(s[2], set))

(* compile-x64.c *)
(* Mutant: no xchg before the division. *)
DivisorFirst == << <<"pop">>, <<"idivq">> >>
DividendFirst == << <<"pop">>, <<"xchg">>, <<"idivq">> >>
X64Operation(op) == CASE op = "add"   -> << <<"pop">>, <<"addq">> >>
                      [] op = "sub"   -> << <<"pop">>, <<"subq">> >>
                      [] op = "times" -> << <<"pop">>, <<"imulq">> >>
                      [] op = "div"   -> DividendFirst
RECURSIVE X64Exp(_)
X64Exp(e) == CASE e[1] = "num" -> << <<"li", e[2]>> >>
               [] e[1] = "var" -> << <<"load", e[2]>> >>
               [] OTHER -> X64Exp(e[2]) \o << <<"push">> >> \o X64Exp(e[3]) \o X64Operation(e[1])
RECURSIVE X64Stm(_)
X64Stm(s) == CASE s[1] = "assign" -> Append(X64Exp(s[3]), <<"store", s[2]>>)
               [] s[1] = "print"  -> Append(X64Exp(s[2]), <<"print">>)
               [] s[1] = "seq"    -> X64Stm(s[2]) \o X64Stm(s[3])

(* compile-riscv.c: PUSH and POP address the frame's word number stackoffset, which
   starts at 4, after the two saved doublewords. *)
RiscvOperation(op) == CASE op = "add" -> <<"addw">> [] op = "sub" -> <<"subw">>
                        [] op = "times" -> <<"mulw">> [] op = "div" -> <<"divw">>
RECURSIVE RiscvExp(_, _)
RiscvExp(e, stackoffset) ==
    CASE e[1] = "num" -> << <<"li", e[2]>> >>
      [] e[1] = "var" -> << <<"load", e[2]>> >>
      [] OTHER -> RiscvExp(e[2], stackoffset) \o << <<"sw", stackoffset>> >>
                  \o RiscvExp(e[3], stackoffset + 1)
                  \o << <<"lw", stackoffset>>, RiscvOperation(e[1]) >>
RECURSIVE RiscvStm(_)
RiscvStm(s) == CASE s[1] = "assign" -> Append(RiscvExp(s[3], 4), <<"store", s[2]>>)
                 [] s[1] = "print"  -> Append(RiscvExp(s[2], 4), <<"print">>)
                 [] s[1] = "seq"    -> RiscvStm(s[2]) \o RiscvStm(s[3])
RECURSIVE Deep_exp(_)
Deep_exp(e) == IF e[1] \in {"num", "var"} THEN 0
               ELSE Larger(Deep_exp(e[2]), Deep_exp(e[3])) + 1
RECURSIVE Deep_stm(_)
Deep_stm(s) == CASE s[1] = "assign" -> Deep_exp(s[3])
                 [] s[1] = "print"  -> Deep_exp(s[2])
                 [] s[1] = "seq"    -> Larger(Deep_stm(s[2]), Deep_stm(s[3]))
(* Mutant: the slots are counted one short. *)
FrameBytesShort(s) == ((16 + 4 * Deep_stm(s)) \div 8) * 8
FrameBytes(s) == ((20 + 4 * Deep_stm(s)) \div 8) * 8

(* The registers main() saves fill the frame's first four words. *)
Saved == 2^(2 * W)              \* no register holds this
Frame(s) == [w \in 0..(FrameBytes(s) \div 4) - 1 |-> IF w < 4 THEN Saved ELSE 0]

(* compile(), riscv_compile() and the linker: every variable loaded needs its label
   from emit_vars(). *)
Loaded(c) == {c[i][2] : i \in {j \in DOMAIN c : c[j][1] = "load"}}
Init == /\ prog \in Programs
        /\ arch \in {"X64", "RISCV"}
        /\ code = IF arch = "X64" THEN X64Stm(prog) ELSE RiscvStm(prog)
        /\ globals = [x \in ToSet(Assigned(prog, <<>>)) |-> 0]
        /\ status = IF Loaded(code) \subseteq DOMAIN globals THEN "running" ELSE "unlinked"
        /\ ip = 1 /\ acc = 0 /\ tmp = 0 /\ out = <<>>
        /\ stack = IF arch = "X64" THEN <<>> ELSE Frame(prog)

(* The machines. *)
Fetched(op) == /\ status = "running" /\ ip <= Len(code) /\ code[ip][1] = op
               /\ ip' = ip + 1
Arg == code[ip][2]
Register(n) == Wrap(n, IF arch = "X64" THEN 2 * W ELSE W)

Li == Fetched("li") /\ acc' = Arg /\ UNCHANGED <<setup, tmp, stack, globals, out, status>>
Load == Fetched("load") /\ acc' = globals[Arg] /\ UNCHANGED <<setup, tmp, stack, globals, out, status>>
Store == /\ Fetched("store") /\ globals' = [globals EXCEPT ![Arg] = acc]
         /\ UNCHANGED <<setup, acc, tmp, stack, out, status>>
Printf == /\ Fetched("print") /\ out' = Append(out, Wrap(acc, W))
          /\ UNCHANGED <<setup, acc, tmp, stack, globals, status>>

Push == /\ Fetched("push") /\ stack' = Append(stack, acc)
        /\ UNCHANGED <<setup, acc, tmp, globals, out, status>>
Pop == /\ Fetched("pop") /\ tmp' = Last(stack) /\ stack' = Front(stack)
       /\ UNCHANGED <<setup, acc, globals, out, status>>
Sw == /\ Fetched("sw")
      /\ IF Arg \in DOMAIN stack THEN stack' = [stack EXCEPT ![Arg] = acc] /\ UNCHANGED status
                                 ELSE status' = "overrun" /\ UNCHANGED stack
      /\ UNCHANGED <<setup, acc, tmp, globals, out>>
Lw == /\ Fetched("lw") /\ tmp' = stack[Arg]
      /\ UNCHANGED <<setup, acc, stack, globals, out, status>>

Add == /\ Fetched("addq") \/ Fetched("addw")
       /\ acc' = Register(acc + tmp) /\ UNCHANGED <<setup, tmp, stack, globals, out, status>>
Times == /\ Fetched("imulq") \/ Fetched("mulw")
         /\ acc' = Register(acc * tmp) /\ UNCHANGED <<setup, tmp, stack, globals, out, status>>
Subq == /\ Fetched("subq")                       \* subq %rbx, %rax
        /\ acc' = Register(acc - tmp) /\ UNCHANGED <<setup, tmp, stack, globals, out, status>>
Subw == /\ Fetched("subw")                       \* subw a1, a2, a1
        /\ acc' = Register(tmp - acc) /\ UNCHANGED <<setup, tmp, stack, globals, out, status>>
Xchg == /\ Fetched("xchg") /\ acc' = tmp /\ tmp' = acc
        /\ UNCHANGED <<setup, stack, globals, out, status>>
(* idivq traps where the quotient does not exist or does not fit; divw gives -1 or wraps. *)
Idivq == /\ Fetched("idivq")
         /\ IF tmp = 0 \/ Register(Quotient(acc, tmp)) # Quotient(acc, tmp)
              THEN status' = "trap" /\ UNCHANGED acc
              ELSE acc' = Quotient(acc, tmp) /\ UNCHANGED status
         /\ UNCHANGED <<setup, tmp, stack, globals, out>>
Divw == /\ Fetched("divw")
        /\ acc' = IF acc = 0 THEN -1 ELSE Register(Quotient(tmp, acc))
        /\ UNCHANGED <<setup, tmp, stack, globals, out, status>>
Return == /\ status = "running" /\ ip > Len(code)
          /\ status' = "done"
          /\ UNCHANGED <<setup, ip, acc, tmp, stack, globals, out>>

Next == \/ Li \/ Load \/ Store \/ Printf \/ Push \/ Pop \/ Sw \/ Lw
        \/ Add \/ Times \/ Subq \/ Subw \/ Xchg \/ Idivq \/ Divw \/ Return
Spec == Init /\ [][Next]_vars

------------------------------------------------------------------------------
(* The reference: what a program prints, computed on its tree; Undefined where C's
   int arithmetic is. *)
Undefined == <<"undefined">>
Defined(n) == IF Wrap(n, W) = n THEN <<"int", n>> ELSE Undefined
RECURSIVE Eval(_, _, _)
Eval(e, env, minus) ==
    IF e[1] = "num" THEN Defined(e[2])
    ELSE IF e[1] = "var" THEN <<"int", env[e[2]]>>
    ELSE LET l == Eval(e[2], env, minus)
             r == Eval(e[3], env, minus)
         IN IF l = Undefined \/ r = Undefined THEN Undefined
            ELSE CASE e[1] = "add" -> Defined(l[2] + r[2])
                   [] e[1] = "sub" -> Defined(minus * (l[2] - r[2]))
                   [] e[1] = "times" -> Defined(l[2] * r[2])
                   [] e[1] = "div" -> IF r[2] = 0 THEN Undefined ELSE Defined(Quotient(l[2], r[2]))
RECURSIVE Run(_, _, _)
Run(s, m, minus) ==          \* m: [env, out], or Undefined
    IF m = Undefined THEN m
    ELSE IF s[1] = "seq" THEN Run(s[3], Run(s[2], m, minus), minus)
    ELSE LET v == Eval(IF s[1] = "assign" THEN s[3] ELSE s[2], m[2], minus)
         IN IF v = Undefined THEN Undefined
            ELSE IF s[1] = "assign" THEN <<m[1], [m[2] EXCEPT ![s[2]] = v[2]]>>
            ELSE <<Append(m[1], v[2]), m[2]>>
Prints(s, minus) == Run(s, <<<<>>, [x \in DOMAIN globals |-> 0]>>, minus)

(* What the program prints is what its tree means, wherever C defines that - on x64
   with every subtraction the wrong way round (compile-x64.c:68) - and the code
   traps nowhere else. *)
CodeComputes ==
    LET expected == Prints(prog, IF arch = "X64" THEN -1 ELSE 1)
    IN status \in {"done", "trap"} /\ expected # Undefined =>
          status = "done" /\ out = expected[1]

(* The stack is level wherever printf() is called and at the end, so that rsp is
   aligned there (compile-x64.c:55-82); RISC-V's slots lie inside the frame that
   Deep_stm() sized and never over the saved registers. *)
FrameHolds ==
    /\ status # "overrun"
    /\ arch = "RISCV" => stack[0] = Saved /\ stack[1] = Saved /\ stack[2] = Saved /\ stack[3] = Saved
    /\ arch = "X64" /\ (ip > Len(code) \/ code[ip][1] = "print") => stack = <<>>
==============================================================================
