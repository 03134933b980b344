------------------------------- MODULE MiniLib -------------------------------
(* The library without libc (lab1/syscall/mini-lib.c) and the program that uses it
   (notmain.c).  printf() walks over the memory its format lies in and writes each
   character with a system call of its own.  Integers have W bits. *)
EXTENDS Integers, Sequences, SequencesExt, Folds

CONSTANTS Memories,             \* what may lie where s points to: a format, its NUL, and more
          Ints, Strings, Chars, \* the arguments there may be for %d, %s and %c
          W,
          ALARM, SLEEP          \* notmain.c: 5 and 1 seconds
VARIABLES memory, s,            \* the memory from the format on, and how far it is read
          args, out,            \* the arguments taken so far; what was written
          pc, clock, greetings  \* notmain(): the time, and how often it has said hello
vars == <<memory, s, args, out, pc, clock, greetings>>

NUL == "NUL"
(* Bound: the memory that is modelled ends, and a NUL follows it. *)
At(i) == IF i > Len(memory) THEN NUL ELSE memory[i]
Digits == <<"0", "1", "2", "3", "4", "5", "6", "7", "8", "9">>

(* printint(): the digits of x, last first; of the least int, which is its own
   negation, the remainders are negative and give characters below "0". *)
Negated(v) == IF v = -(2^(W - 1)) THEN v ELSE -v
Remainder(x) == IF x >= 0 THEN x % 10 ELSE -((-x) % 10)
Quotient(x) == IF x >= 0 THEN x \div 10 ELSE -((-x) \div 10)
Digit(bit) == IF bit >= 0 THEN Digits[bit + 1] ELSE "below 0"
buf[x \in Int] == IF x = 0 THEN <<>> ELSE Append(buf[Quotient(x)], Digit(Remainder(x)))
(* Mutant: the sign is left out. *)
printintUnsigned(val) == buf[IF val < 0 THEN Negated(val) ELSE val]
printint(val) == IF val < 0 THEN <<"-">> \o buf[Negated(val)] ELSE buf[val]

Init == /\ memory \in Memories /\ s = 1 /\ args = <<>> /\ out = <<>>
        /\ pc = "printf" /\ clock = 0 /\ greetings = 0

Literal == /\ pc = "printf" /\ At(s) \notin {NUL, "%"}
           /\ out' = Append(out, At(s))
           /\ s' = s + 1
           /\ UNCHANGED <<memory, args, pc, clock, greetings>>
(* A conversion; one it does not know writes nothing, and is stepped over even if it
   is the format's NUL. *)
Convert == /\ pc = "printf" /\ At(s) = "%"
           /\ \/ /\ At(s + 1) = "d"
                 /\ \E v \in Ints : args' = Append(args, <<"d", v>>) /\ out' = out \o printint(v)
              \/ /\ At(s + 1) = "s"
                 /\ \E str \in Strings : args' = Append(args, <<"s", str>>) /\ out' = out \o str
              \/ /\ At(s + 1) = "c"
                 /\ \E c \in Chars : args' = Append(args, <<"c", c>>) /\ out' = Append(out, c)
              \/ /\ At(s + 1) \notin {"d", "s", "c"}
                 /\ UNCHANGED <<args, out>>
           /\ s' = s + 2
           /\ UNCHANGED <<memory, pc, clock, greetings>>
Return == /\ pc = "printf" /\ At(s) = NUL
          /\ pc' = "hello"
          /\ UNCHANGED <<memory, s, args, out, clock, greetings>>

(* notmain(): a greeting, a second's sleep, and so on until the alarm ends it.  A sleep
   takes its second and no other step takes time. *)
Hello == /\ pc = "hello"
         /\ greetings' = greetings + 1
         /\ pc' = "sleep"
         /\ UNCHANGED <<memory, s, args, out, clock>>
(* Mutant: the second is slept twice. *)
SleptTwice == clock + 2 * SLEEP
Slept == clock + SLEEP
Sleep == /\ pc = "sleep" /\ clock < ALARM
         /\ clock' = Slept
         /\ pc' = "hello"
         /\ UNCHANGED <<memory, s, args, out, greetings>>
Alarm == /\ pc \in {"hello", "sleep"} /\ clock >= ALARM
         /\ pc' = "killed"
         /\ UNCHANGED <<memory, s, args, out, clock, greetings>>

Next == Literal \/ Convert \/ Return \/ Hello \/ Sleep \/ Alarm
Spec == Init /\ [][Next]_vars /\ WF_vars(Next)

------------------------------------------------------------------------------
(* The reference: the decimal digits of a number, found by what they stand for. *)
Value(ds) == FoldLeft(LAMBDA v, d : 10 * v + d, 0, ds)
Decimal(n) == CHOOSE ds \in UNION {[1..len -> 0..9] : len \in 1..2} :
                 Value(ds) = n /\ (n > 0 => ds[1] # 0) /\ (n = 0 => Len(ds) = 1)
Text(v) == (IF v < 0 THEN <<"-">> ELSE <<>>)
             \o [i \in DOMAIN Decimal(IF v < 0 THEN -v ELSE v) |-> Digits[Decimal(IF v < 0 THEN -v ELSE v)[i] + 1]]
Expected(f, a) ==
    LET Rest[i \in 1..Len(f) + 2, k \in 1..Len(a) + 1] ==
          CASE i > Len(f) -> <<>>
            [] i <= Len(f) /\ f[i] # "%" -> <<f[i]>> \o Rest[i + 1, k]
            [] i < Len(f) /\ f[i] = "%" /\ f[i + 1] = "d" -> Text(a[k][2]) \o Rest[i + 2, k + 1]
            [] i < Len(f) /\ f[i] = "%" /\ f[i + 1] = "s" -> a[k][2] \o Rest[i + 2, k + 1]
            [] i < Len(f) /\ f[i] = "%" /\ f[i + 1] = "c" -> <<a[k][2]>> \o Rest[i + 2, k + 1]
            [] OTHER -> Rest[i + 2, k]
    IN Rest[1, 1]
Least == -(2^(W - 1))

(* The format is what lies before the first NUL. *)
End == CHOOSE i \in DOMAIN memory : memory[i] = NUL /\ \A j \in 1..i - 1 : memory[j] # NUL
Format == SubSeq(memory, 1, End - 1)

(* printf() writes what its format and arguments say and, unless it stepped over the
   format's NUL, nothing more.  Nothing is claimed of an int that is 0, of which no
   digit is written, or the least, whose digits are none. *)
PrintfWrites ==
    pc # "printf" /\ (\A i \in DOMAIN args : args[i] \notin {<<"d", 0>>, <<"d", Least>>}) =>
        /\ IsPrefix(Expected(Format, args), out)
        /\ s = End => out = Expected(Format, args)
(* printf() reads past its format only if that ends in "%". *)
StaysInFormat == s > End => Len(Format) > 0 /\ Last(Format) = "%"

(* The loop of notmain() has no end, but the alarm has: five greetings or six, if a
   sleep takes its second and nothing else takes time. *)
AlarmEnds == <>(pc = "killed" /\ greetings \in {ALARM \div SLEEP, ALARM \div SLEEP + 1})
==============================================================================
