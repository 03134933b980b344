------------------------------- MODULE MccMain -------------------------------
(* The compiler's driver (lab1/mcc/main.c): options, the parse, the assembly file,
   gcc and cp.  A file is its name and what it holds; the program's text may or may
   not parse, a tool may or may not fail, and nobody looks at its status.  The mode is
   uninitialised unless -c or -S is given, so it is any.  The copy of the temporary
   name, which leaves out its NUL (124), is taken to find the dot it looks for, and
   -o's argument to name a file other than the input and the temporary ones. *)
EXTENDS Integers, TLC

VARIABLES option, mode,          \* -c, -S or neither; arguments.mode
          arch, output_name,     \* -m and -o, or "none"
          input, letter,         \* the input file: "none", "missing" or "file"; its name's last letter
          files, cmd, status,
          failed                 \* whether a command system() ran has failed
vars == <<option, mode, arch, output_name, input, letter, files, cmd, failed, status>>
arguments == <<option, mode, arch, output_name, input, letter>>

Absent == <<"absent", "none">>
Source == <<"source", "none">>
Empty == <<"empty", "none">>
InputName == <<"input", letter>>
Names == {<<"input", l>> : l \in {"c", "s", "o"}}
         \cup {<<"asm", "s">>, <<"obj", "o">>, <<"output", "">>, <<"a", "out">>}
asm_file_name == <<"asm", "s">>
obj_file_name == <<"obj", "o">>

(* The arguments argp_parse() leaves. *)
Init == /\ option \in {"-c", "-S", "none"}
        /\ mode \in CASE option = "-c" -> {"ASSEMBLY"} [] option = "-S" -> {"COMPILE"}
                      [] option = "none" -> {"COMPILE", "ASSEMBLY", "other"}
        /\ arch \in {"none", "X64", "RISCV", "unknown"}
        /\ output_name \in {"none", "given"}
        /\ input \in {"none", "missing", "file"} /\ letter \in {"c", "s", "o"}
        /\ files = [f \in Names |-> IF input = "file" /\ f = InputName THEN Source ELSE Absent]
        /\ cmd = "" /\ failed = FALSE /\ status = "open"

Ends(s) == status' = s /\ UNCHANGED <<arguments, files, cmd, failed>>

(* With any argument, the input file is opened, even if it was not named. *)
NoArguments == option = "none" /\ arch = "none" /\ output_name = "none" /\ input = "none"
OpenInput == /\ status = "open"
             /\ Ends(CASE NoArguments        -> "parse"
                       [] ~NoArguments /\ input = "none" -> "crash"   \* fopen(NULL)
                       [] input = "missing"  -> "exit1"
                       [] input = "file"     -> "parse")

Parse == /\ status = "parse"
         /\ Ends("compile") \/ Ends("exit1")

(* An unknown architecture leaves the assembly file empty. *)
Target == CASE arch \in {"none", "X64"} -> "X64" [] arch = "RISCV" -> "RISCV" [] OTHER -> "none"
Compile == /\ status = "compile"
           /\ files' = [files EXCEPT ![asm_file_name] = IF Target = "none" THEN Empty
                                                        ELSE <<"assembly", Target>>]
           /\ status' = "produce"
           /\ UNCHANGED <<arguments, cmd, failed>>

(* Mutant: -o is not looked at. *)
NamedAfterInput(l) == <<"input", l>>
(* tmpname: the input's name with its last letter replaced, in the current directory. *)
Named(l) == CASE output_name = "given" -> <<"output", "">> [] OTHER -> <<"input", l>>
Nameless == output_name = "none" /\ input = "none"
(* cp fails when there is nothing to copy, and may fail for the name it copies to:
   one in a directory that is not there, as "./" makes of an absolute name. *)
Copy(from, to) == \/ files[from] # Absent /\ files' = [files EXCEPT ![to] = files[from]]
                     /\ UNCHANGED failed
                  \/ failed' = TRUE /\ UNCHANGED files

CopyAssembly == /\ status = "produce" /\ mode = "COMPILE"
                /\ IF Nameless THEN Ends("crash")            \* strlen(NULL)
                   ELSE /\ Copy(asm_file_name, Named("s"))
                        /\ status' = "exit0"
                        /\ UNCHANGED <<arguments, cmd>>

(* gcc makes the object file or the program, unless cmd is still empty or it fails. *)
RunGcc == /\ status = "produce" /\ mode # "COMPILE"
          /\ cmd' = IF Target = "none" THEN cmd ELSE Target
          /\ \/ /\ cmd' # ""
                /\ files' = [files EXCEPT ![obj_file_name] =
                               <<IF mode = "ASSEMBLY" THEN "object" ELSE "program", cmd'>>]
                /\ UNCHANGED failed
             \/ cmd' # "" /\ failed' = TRUE /\ UNCHANGED files
             \/ cmd' = "" /\ UNCHANGED <<files, failed>>
          /\ status' = "copy"
          /\ UNCHANGED arguments
CopyObject == /\ status = "copy" /\ mode = "ASSEMBLY"
              /\ IF Nameless THEN Ends("crash")
                 ELSE /\ Copy(obj_file_name, Named("o"))
                      /\ status' = "exit0"
                      /\ UNCHANGED <<arguments, cmd>>
CopyProgram == /\ status = "copy" /\ mode = "other"
               /\ Copy(obj_file_name, IF output_name = "given" THEN <<"output", "">> ELSE <<"a", "out">>)
               /\ status' = "exit0"
               /\ UNCHANGED <<arguments, cmd>>

Next == \/ OpenInput \/ Parse \/ Compile \/ CopyAssembly \/ RunGcc \/ CopyObject \/ CopyProgram
Spec == Init /\ [][Next]_vars

------------------------------------------------------------------------------
(* What the options given promise: -S an assembly file and -c an object file, under
   -o's name or else the input's with another last letter.  Without either nothing is
   certain: it may be any of the three products, as the stack has it. *)
Products == {<<"-S", <<"input", "s">>, "assembly">>, <<"-c", <<"input", "o">>, "object">>,
             <<"none", <<"a", "out">>, "program">>}
Output(name) == IF output_name = "given" THEN <<"output", "">> ELSE name
Promised == {<<Output(p[2]), <<p[3], Target>>>> :
               p \in {q \in Products : option \in {q[1], "none"}}}

(* Whatever fails, a file besides the temporary ones only ever becomes one that the
   options promise, of the machine asked for, or an empty one for an unknown machine:
   so the source is overwritten only where its own name is the promised file's.  And
   one is there after exit status 0, if the machine is known and no tool has failed. *)
OutputAsAsked ==
    LET made == {f \in Names \ {asm_file_name, obj_file_name} : files[f] \notin {Absent, Source}}
    IN /\ \A f \in made : \E p \in Promised :
            p[1] = f /\ files[f] = IF Target = "none" THEN Empty ELSE p[2]
       /\ status = "exit0" /\ Target # "none" /\ ~failed => made # {}
==============================================================================
