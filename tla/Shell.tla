-------------------------------- MODULE Shell --------------------------------
(* How the shell runs a line (lab2/main.c and Cmd_run() of lab2/ast.c): the processes
   it forks, what their descriptors 0 and 1 refer to, the pipes between them and the
   waits.  A program either writes a number of items and ends, or copies its input to
   its output (cat).  What a child does to its descriptors before it runs its command
   is one step with its fork.  Commands have at most nine words (arg[10] holds them
   and a null) and fork() and pipe() succeed. *)
EXTENDS Integers, SequencesExt, FiniteSetsExt

CONSTANTS Lines,                \* the trees yyparse() may leave in root
          Capacity,             \* how many items a pipe holds
          FileItems             \* how many a file has that is read
ASSUME ShellAssumption == Capacity \in Nat \ {0} /\ FileItems \in Nat

VARIABLES root, procs, pipes, cwd, screen
vars == <<root, procs, pipes, cwd, screen>>

(* What a descriptor refers to: <<pipe, "r" or "w">>, or the terminal, a file, nothing. *)
Tty == <<0, "tty">>
File == <<0, "file">>
Closed == <<0, "closed">>

Type(cmd) == cmd[1]
Name(cmd) == cmd[2][1]
Writes(name) == CASE name = "w1" -> 1 [] name = "w3" -> 3 [] OTHER -> 0
Executable(name) == name \in {"w1", "w3", "cat"}

Pids == DOMAIN procs
Main == 1
Live(p) == procs[p].state = "live"
Process(cmd, parent, fds, background) ==
    [cmd |-> cmd, pc |-> "run", parent |-> parent, child |-> 0, fds |-> fds, ends |-> {},
     todo |-> 0, reading |-> FALSE, state |-> "live", background |-> background]
Set(p, pc) == procs' = [procs EXCEPT ![p].pc = pc]
At(p, pc) == Live(p) /\ procs[p].pc = pc
AtCmd(p, type) == p # Main /\ At(p, "run") /\ Type(procs[p].cmd) = type

(* fork(): the child runs cmd with these descriptors, the parent goes on at pc. *)
Fork(p, cmd, fds, pc, ends) ==
    procs' = Append([procs EXCEPT ![p].pc = pc, ![p].child = Len(procs) + 1, ![p].ends = ends],
                    Process(cmd, p, fds, procs[p].background \/ Type(procs[p].cmd) = "back"))
Exited(ps, p) == [ps EXCEPT ![p].state = "zombie", ![p].ends = {}]
Exit(p) == procs' = Exited(procs, p)

(* close(n) and then dup() or open(): the lowest free descriptor gets the target. *)
Reopened(fds, n, target) ==
    LET closed == [fds EXCEPT ![n] = Closed]
        lowest == Min({i \in DOMAIN closed : closed[i] = Closed})
    IN [closed EXCEPT ![lowest] = target]
Ends(p) == procs[p].ends \cup {procs[p].fds[0], procs[p].fds[1]}
Held(end) == \E p \in Pids : Live(p) /\ end \in Ends(p)

Init == /\ root \in Lines
        /\ procs = <<[Process(<<"none">>, 0, (0 :> Tty) @@ (1 :> Tty), FALSE) EXCEPT !.pc = "main"]>>
        /\ pipes = <<>> /\ cwd = "home" /\ screen = 0

(* main(): a command alone may be a builtin; anything else runs in a child. *)
Builtin == Type(root) = "atom" /\ Name(root) \in {"exit", "cd"}
MainExit == /\ At(Main, "main") /\ Builtin /\ Name(root) = "exit"
            /\ Exit(Main)
            /\ UNCHANGED <<root, pipes, cwd, screen>>
MainCd == /\ At(Main, "main") /\ Builtin /\ Name(root) = "cd"
          /\ cwd' = IF Len(root[2]) > 1 /\ root[2][2] = "dir" THEN "dir" ELSE cwd
          /\ Set(Main, "prompt")
          /\ UNCHANGED <<root, pipes, screen>>
MainRun == /\ At(Main, "main") /\ root # <<"none">> /\ ~Builtin
           /\ Fork(Main, root, procs[Main].fds, "wait", {})
           /\ UNCHANGED <<root, pipes, cwd, screen>>
MainEmpty == /\ At(Main, "main") /\ root = <<"none">>
             /\ Set(Main, "prompt")
             /\ UNCHANGED <<root, pipes, cwd, screen>>

(* Mutant: the second command of a sequence is not run. *)
AfterLeft(p) == IF p = Main THEN "prompt"
                ELSE IF Type(procs[p].cmd) = "pipe" /\ procs[p].ends # {} THEN "second" ELSE "exit"
(* wait(0) returns as soon as any child has ended; what follows depends on the command. *)
After(p) == IF p = Main THEN "prompt"
            ELSE CASE Type(procs[p].cmd) = "seq" -> "second"
                   [] Type(procs[p].cmd) = "pipe" /\ procs[p].ends # {} -> "second"
                   [] OTHER -> "exit"
Wait(p) == /\ At(p, "wait")
           /\ \E c \in Pids : /\ procs[c].parent = p /\ procs[c].state = "zombie"
                              /\ procs' = [procs EXCEPT ![c].state = "reaped", ![p].pc = After(p)]
           /\ UNCHANGED <<root, pipes, cwd, screen>>
ExitZero(p) == At(p, "exit") /\ Exit(p) /\ UNCHANGED <<root, pipes, cwd, screen>>

(* CMD_ATOM: execv() of /bin/ or /usr/bin/, or a message and exit(0). *)
Exec(p) == /\ AtCmd(p, "atom")
           /\ LET name == Name(procs[p].cmd)
              IN procs' = IF Executable(name)
                            THEN [procs EXCEPT ![p].pc = "program", ![p].todo = Writes(name),
                                               ![p].reading = (name = "cat")]
                            ELSE Exited(procs, p)
           /\ UNCHANGED <<root, pipes, cwd, screen>>

(* Mutant: the right is run at once. *)
NoWait == "second"
WaitFirst == "wait"
(* CMD_SEQ: the left in a child, then the right in the same process. *)
RunSeq(p) == /\ AtCmd(p, "seq")
             /\ Fork(p, procs[p].cmd[2], procs[p].fds, WaitFirst, {})
             /\ UNCHANGED <<root, pipes, cwd, screen>>
RunSecond(p) == /\ At(p, "second") /\ Type(procs[p].cmd) = "seq"
                /\ procs' = [procs EXCEPT ![p].pc = "run", ![p].cmd = procs[p].cmd[3]]
                /\ UNCHANGED <<root, pipes, cwd, screen>>

(* CMD_BACK: nobody waits for the child; its number is printed, which may block. *)
RunBack(p) == /\ AtCmd(p, "back")
              /\ Fork(p, procs[p].cmd[2], procs[p].fds, "print", {})
              /\ UNCHANGED <<root, pipes, cwd, screen>>

(* CMD_PIPE: the left writes to the pipe and is waited for before the right starts. *)
NewPipe == Len(pipes) + 1
RunPipe(p) == /\ AtCmd(p, "pipe")
              /\ pipes' = Append(pipes, 0)
              /\ Fork(p, procs[p].cmd[2], Reopened(procs[p].fds, 1, <<NewPipe, "w">>), "wait",
                      {<<NewPipe, "r">>, <<NewPipe, "w">>})
              /\ UNCHANGED <<root, cwd, screen>>
(* Mutant: the parent keeps its ends of the pipe. *)
EndsKept(p) == procs[p].ends
EndsLeft(p) == {}
RunRight(p) == /\ At(p, "second") /\ Type(procs[p].cmd) = "pipe"
               /\ LET r == CHOOSE e \in procs[p].ends : e[2] = "r"
                  IN Fork(p, procs[p].cmd[3], Reopened(procs[p].fds, 0, r), "wait", EndsLeft(p))
               /\ UNCHANGED <<root, pipes, cwd, screen>>

(* CMD_REDIR: the right side is taken for a word.  If it is a background command,
   what is read in its place is no path: open() fails and the descriptor stays closed. *)
Path(cmd) == IF Type(cmd) = "atom" THEN File ELSE Closed
RunRedir(p) == /\ AtCmd(p, "redir")
               /\ LET fd == IF procs[p].cmd[4] = 1 THEN 1 ELSE 0
                      target == Path(procs[p].cmd[3])
                  IN Fork(p, procs[p].cmd[2],
                          IF target = Closed THEN [procs[p].fds EXCEPT ![fd] = Closed]
                          ELSE Reopened(procs[p].fds, fd, target), "wait", {})
               /\ UNCHANGED <<root, pipes, cwd, screen>>

(* A write to descriptor 1: of a program's item, or of the number of a background child. *)
Writing(p) == At(p, "print") \/ (At(p, "program") /\ procs[p].todo > 0)
Written(p) == IF procs[p].pc = "print" THEN Exited(procs, p)
              ELSE [procs EXCEPT ![p].todo = @ - 1]
Write(p) == /\ Writing(p)
            /\ LET to == procs[p].fds[1]
               IN CASE to[1] # 0 /\ ~Held(<<to[1], "r">>) -> Exit(p) /\ UNCHANGED <<pipes, screen>>
                    [] to[1] # 0 /\ Held(<<to[1], "r">>)  ->
                         /\ pipes[to[1]] < Capacity
                         /\ pipes' = [pipes EXCEPT ![to[1]] = @ + 1]
                         /\ procs' = Written(p) /\ UNCHANGED screen
                    [] to[1] = 0 ->
                         /\ screen' = IF to = Tty THEN screen + 1 ELSE screen
                         /\ procs' = Written(p) /\ UNCHANGED pipes
            /\ UNCHANGED <<root, cwd>>

(* cat reads an item, or finds its input at an end; the terminal's is empty. *)
Read(p) == /\ At(p, "program") /\ procs[p].todo = 0 /\ procs[p].reading
           /\ LET from == procs[p].fds[0]
              IN IF from[1] # 0 /\ pipes[from[1]] > 0
                   THEN /\ pipes' = [pipes EXCEPT ![from[1]] = @ - 1]
                        /\ procs' = [procs EXCEPT ![p].todo = 1]
                   ELSE /\ from[1] # 0 => ~Held(<<from[1], "w">>)
                        /\ procs' = [procs EXCEPT ![p].reading = FALSE,
                                                  ![p].todo = IF from = File THEN FileItems ELSE 0]
                        /\ UNCHANGED pipes
           /\ UNCHANGED <<root, cwd, screen>>
ProgramEnds(p) == /\ At(p, "program") /\ procs[p].todo = 0 /\ ~procs[p].reading
                  /\ Exit(p) /\ UNCHANGED <<root, pipes, cwd, screen>>

Step(p) == \/ Wait(p) \/ ExitZero(p) \/ Exec(p) \/ RunSeq(p) \/ RunSecond(p) \/ RunBack(p)
           \/ RunPipe(p) \/ RunRight(p) \/ RunRedir(p) \/ Write(p) \/ Read(p) \/ ProgramEnds(p)
Next == MainExit \/ MainCd \/ MainRun \/ MainEmpty \/ (\E p \in Pids : Step(p))
Spec == Init /\ [][Next]_vars /\ WF_vars(Next)

------------------------------------------------------------------------------
(* Back at the prompt, the line's processes are done but for those under a & . *)
ForegroundDone == At(Main, "prompt") => \A p \in Pids \ {Main} : Live(p) => procs[p].background

(* Whoever waits has a child it has not reaped: no wait(0) returns at once for
   want of one. *)
NoWaitFails == \A p \in Pids : At(p, "wait") =>
                 \E c \in Pids : procs[c].parent = p /\ procs[c].state # "reaped"

(* wait(0) takes any child, yet it always finds the one forked last, although
   background children come and go (main.c:38, 45; ast.c:174, 208, 218, 237). *)
WaitReapsOwn ==
    [][\A p \in Pids : procs[p].state = "zombie" /\ procs'[p].state = "reaped"
                          => procs[procs[p].parent].child = p]_vars
==============================================================================
