----------------------------- MODULE ShellProofs -----------------------------
(***************************************************************************)
(* Proofs about how the shell runs a line, for any line, any nesting of    *)
(* commands and any programs' output: which child each wait(0) reaps, and  *)
(* what still runs when the shell prompts again.                           *)
(***************************************************************************)
EXTENDS Shell, ProofFacts

Fields == {"cmd", "pc", "parent", "child", "fds", "ends", "todo", "reading", "state", "background"}
ProcsOK == /\ Len(procs) \in Nat \ {0}
           /\ procs = [i \in 1..Len(procs) |-> procs[i]]
           /\ \A p \in Pids : DOMAIN procs[p] = Fields /\ procs[p].background \in BOOLEAN

(* A process is younger than its parent; main() is nobody's child.            *)
ParentsOK == /\ procs[Main].parent = 0 /\ procs[Main].background = FALSE
             /\ \A c \in Pids \ {Main} : procs[c].parent \in 1..(c - 1)

(* All children of a live process have been reaped but for the last one, and  *)
(* that one too unless it is waited for or has been left in the background.   *)
ChildrenOK == \A p, c \in Pids :
                Live(p) /\ procs[c].parent = p /\ procs[c].state # "reaped" =>
                  procs[p].child = c /\ procs[p].pc \in {"wait", "print"}

(* A process in the foreground has its parent waiting for it.                 *)
ForegroundOK == \A c \in Pids \ {Main} :
                  procs[c].background = FALSE =>
                    /\ procs[procs[c].parent].background = FALSE
                    /\ Live(c) => /\ Live(procs[c].parent)
                                  /\ procs[procs[c].parent].pc = "wait"

(* Who waits has a child that has not been reaped.                            *)
WaitersOK == \A p \in Pids :
               At(p, "wait") => /\ procs[p].child \in Pids
                                /\ procs[procs[p].child].parent = p
                                /\ procs[procs[p].child].state # "reaped"

ShellIInv == ProcsOK /\ ParentsOK /\ ChildrenOK /\ ForegroundOK /\ WaitersOK

-----------------------------------------------------------------------------
(* What a step does to the process table: one process goes on without having  *)
(* a child to wait for, ends, forks, or reaps a child.                        *)
Others(ps) == DOMAIN procs' = Pids /\ \A i \in Pids \ ps : procs'[i] = procs[i]
SameKin(p) == /\ procs'[p].parent = procs[p].parent
              /\ procs'[p].background = procs[p].background
GoesOn(p) == /\ p \in Pids /\ Live(p) /\ procs[p].pc \notin {"wait", "print"}
             /\ Others({p}) /\ SameKin(p)
             /\ procs'[p].child = procs[p].child /\ procs'[p].state = "live"
             /\ procs'[p].pc # "wait"
Ends1(p) == /\ p \in Pids /\ Live(p) /\ procs[p].pc # "wait"
            /\ Others({p}) /\ SameKin(p)
            /\ procs'[p].state = "zombie"
Forks(p) == LET n == Len(procs)
            IN /\ p \in Pids /\ Live(p) /\ procs[p].pc \notin {"wait", "print"}
               /\ DOMAIN procs' = 1..(n + 1)
               /\ \A i \in Pids \ {p} : procs'[i] = procs[i]
               /\ SameKin(p) /\ procs'[p].state = "live" /\ procs'[p].child = n + 1
               /\ procs'[n + 1].parent = p /\ procs'[n + 1].state = "live"
               /\ procs'[n + 1].pc = "run"
               /\ \/ procs'[p].pc = "wait"
                  \/ procs'[p].pc = "print" /\ procs'[n + 1].background = TRUE
               /\ procs'[n + 1].background = FALSE => procs[p].background = FALSE
Reaps(p) == \E c \in Pids :
              /\ p \in Pids /\ Live(p) /\ procs[p].pc = "wait"
              /\ procs[c].parent = p /\ procs[c].state = "zombie"
              /\ Others({p, c}) /\ SameKin(p) /\ SameKin(c)
              /\ procs'[p].child = procs[p].child /\ procs'[p].state = "live"
              /\ procs'[p].pc # "wait" /\ procs'[c].state = "reaped"

LEMMA PidsFacts == ASSUME ProcsOK PROVE Pids = 1..Len(procs) /\ Main \in Pids
  BY DEF ProcsOK, Pids, Main

LEMMA GoesOnKeeps == ASSUME ShellIInv, ProcsOK', NEW p, GoesOn(p) PROVE ShellIInv'
  <1> USE DEF ShellIInv, Pids, Live
  <1>1. /\ Pids' = Pids /\ Main \in Pids /\ p \in Pids
        /\ procs[p].state = "live" /\ procs[p].pc \notin {"wait", "print"} /\ procs'[p].pc # "wait"
        /\ \A i \in Pids : /\ procs'[i].parent = procs[i].parent /\ procs'[i].background = procs[i].background
                           /\ procs'[i].state = procs[i].state /\ procs'[i].child = procs[i].child
                           /\ i # p => procs'[i].pc = procs[i].pc
    BY PidsFacts DEF GoesOn, Others, SameKin
  <1>2. ParentsOK'
    BY <1>1 DEF ParentsOK
  <1>3. ChildrenOK'
    BY <1>1 DEF ChildrenOK
  <1>4. ForegroundOK'
    <2> SUFFICES ASSUME NEW c \in Pids, c # Main, procs'[c].background = FALSE
                 PROVE  /\ procs'[procs'[c].parent].background = FALSE
                        /\ procs'[c].state = "live" => /\ procs'[procs'[c].parent].state = "live"
                                                       /\ procs'[procs'[c].parent].pc = "wait"
      BY <1>1 DEF ForegroundOK
    <2>1. PICK q : q = procs[c].parent
      OBVIOUS
    <2>2. q \in Pids
      BY <2>1, PidsFacts DEF ParentsOK, Main
    <2>3. procs[q].background = FALSE /\ (procs[c].state = "live" => procs[q].state = "live" /\ procs[q].pc = "wait")
      BY <1>1, <2>1 DEF ForegroundOK
    <2>4. QED
      BY <1>1, <2>1, <2>2, <2>3
  <1>5. WaitersOK'
    BY <1>1 DEF WaitersOK, At
  <1>6. QED
    BY <1>2, <1>3, <1>4, <1>5

LEMMA Ends1Keeps == ASSUME ShellIInv, ProcsOK', NEW p, Ends1(p) PROVE ShellIInv'
  <1> USE DEF ShellIInv, Pids, Live
  <1>1. /\ Pids' = Pids /\ Main \in Pids /\ p \in Pids
        /\ procs[p].state = "live" /\ procs'[p].state = "zombie" /\ procs[p].pc # "wait"
        /\ \A i \in Pids : /\ procs'[i].parent = procs[i].parent /\ procs'[i].background = procs[i].background
                           /\ i # p => procs'[i] = procs[i]
    BY PidsFacts DEF Ends1, Others, SameKin
  <1>2. ParentsOK'
    BY <1>1 DEF ParentsOK
  <1>3. ChildrenOK'
    BY <1>1 DEF ChildrenOK
  <1>4. ForegroundOK'
    <2> SUFFICES ASSUME NEW c \in Pids, c # Main, procs'[c].background = FALSE
                 PROVE  /\ procs'[procs'[c].parent].background = FALSE
                        /\ procs'[c].state = "live" => /\ procs'[procs'[c].parent].state = "live"
                                                       /\ procs'[procs'[c].parent].pc = "wait"
      BY <1>1 DEF ForegroundOK
    <2>1. PICK q : q = procs[c].parent
      OBVIOUS
    <2>2. q \in Pids
      BY <2>1, PidsFacts DEF ParentsOK, Main
    <2>3. procs[q].background = FALSE /\ (procs[c].state = "live" => procs[q].state = "live" /\ procs[q].pc = "wait")
      BY <1>1, <2>1 DEF ForegroundOK
    <2>4. QED
      BY <1>1, <2>1, <2>2, <2>3
  <1>5. WaitersOK'
    BY <1>1 DEF WaitersOK, At
  <1>6. QED
    BY <1>2, <1>3, <1>4, <1>5

LEMMA ForksKeeps == ASSUME ShellIInv, ProcsOK', NEW p, Forks(p) PROVE ShellIInv'
  <1> USE DEF ShellIInv, Pids, Live
  <1>1. PICK n : n = Len(procs)
    OBVIOUS
  <1>2. /\ n \in Nat \ {0} /\ Pids = 1..n /\ Pids' = 1..(n + 1) /\ Main \in Pids /\ p \in Pids
        /\ procs[p].state = "live" /\ procs[p].pc \notin {"wait", "print"}
        /\ \A i \in Pids : /\ procs'[i].parent = procs[i].parent /\ procs'[i].background = procs[i].background
                           /\ procs'[i].state = procs[i].state
                           /\ i # p => procs'[i] = procs[i]
        /\ procs'[p].child = n + 1
        /\ procs'[n + 1].parent = p /\ procs'[n + 1].state = "live" /\ procs'[n + 1].pc = "run"
        /\ \/ procs'[p].pc = "wait"
           \/ procs'[p].pc = "print" /\ procs'[n + 1].background = TRUE
        /\ procs'[n + 1].background = FALSE => procs[p].background = FALSE
    BY <1>1, PidsFacts DEF Forks, SameKin, ProcsOK
  <1>3. /\ \A i \in Pids' : i \in Pids \/ i = n + 1
        /\ \A i \in Pids : procs[i].parent # n + 1 /\ i # n + 1
    BY <1>2 DEF ParentsOK
  <1>4. ParentsOK'
    BY <1>2, <1>3 DEF ParentsOK, Main
  <1>5. ChildrenOK'
    <2> SUFFICES ASSUME NEW q \in Pids', NEW c \in Pids',
                        procs'[q].state = "live", procs'[c].parent = q, procs'[c].state # "reaped"
                 PROVE  procs'[q].child = c /\ procs'[q].pc \in {"wait", "print"}
      BY DEF ChildrenOK
    <2>1. CASE c = n + 1
      BY <1>2, <2>1
    <2>2. CASE c \in Pids
      <3>1. procs[c].parent = q /\ procs[c].state # "reaped" /\ q \in Pids
        BY <1>2, <1>3, <2>2
      <3>2. procs[q].state = "live" /\ procs[q].child = c /\ procs[q].pc \in {"wait", "print"}
        BY <1>2, <2>2, <3>1 DEF ChildrenOK
      <3>3. QED
        BY <1>2, <3>1, <3>2
    <2>3. QED
      BY <1>3, <2>1, <2>2
  <1>6. ForegroundOK'
    <2> SUFFICES ASSUME NEW c \in Pids', c # Main, procs'[c].background = FALSE
                 PROVE  /\ procs'[procs'[c].parent].background = FALSE
                        /\ procs'[c].state = "live" => /\ procs'[procs'[c].parent].state = "live"
                                                       /\ procs'[procs'[c].parent].pc = "wait"
      BY DEF ForegroundOK
    <2>1. CASE c = n + 1
      BY <1>2, <2>1
    <2>2. CASE c \in Pids
      <3>1. PICK q : q = procs[c].parent
        OBVIOUS
      <3>2. q \in Pids
        BY <1>2, <2>2, <3>1 DEF ParentsOK, Main
      <3>3. procs[q].background = FALSE /\ (procs[c].state = "live" => procs[q].state = "live" /\ procs[q].pc = "wait")
        BY <1>2, <2>2, <3>1 DEF ForegroundOK
      <3>4. QED
        BY <1>2, <2>2, <3>1, <3>2, <3>3
    <2>3. QED
      BY <1>3, <2>1, <2>2
  <1>7. WaitersOK'
    <2> SUFFICES ASSUME NEW q \in Pids', procs'[q].state = "live", procs'[q].pc = "wait"
                 PROVE  /\ procs'[q].child \in Pids'
                        /\ procs'[procs'[q].child].parent = q
                        /\ procs'[procs'[q].child].state # "reaped"
      BY DEF WaitersOK, At
    <2>1. CASE q = p
      BY <1>2, <2>1
    <2>2. CASE q = n + 1
      BY <1>2, <2>2
    <2>3. CASE q \in Pids /\ q # p
      <3>1. procs[q].state = "live" /\ procs[q].pc = "wait" /\ procs'[q].child = procs[q].child
        BY <1>2, <2>3
      <3>2. PICK d : d = procs[q].child
        OBVIOUS
      <3>3. d \in Pids /\ procs[d].parent = q /\ procs[d].state # "reaped"
        BY <2>3, <3>1, <3>2 DEF WaitersOK, At
      <3>4. QED
        BY <1>2, <1>3, <3>1, <3>2, <3>3
    <2>4. QED
      BY <1>3, <2>1, <2>2, <2>3
  <1>8. QED
    BY <1>4, <1>5, <1>6, <1>7

LEMMA ReapsKeeps == ASSUME ShellIInv, ProcsOK', NEW p, Reaps(p) PROVE ShellIInv'
  <1> USE DEF ShellIInv, Pids, Live
  <1>1. PICK c \in Pids : /\ p \in Pids /\ procs[p].state = "live" /\ procs[p].pc = "wait"
                          /\ procs[c].parent = p /\ procs[c].state = "zombie"
                          /\ Others({p, c}) /\ SameKin(p) /\ SameKin(c)
                          /\ procs'[p].child = procs[p].child /\ procs'[p].state = "live"
                          /\ procs'[p].pc # "wait" /\ procs'[c].state = "reaped"
    BY DEF Reaps
  <1>2. /\ Pids' = Pids /\ Main \in Pids /\ c # p
        /\ \A i \in Pids : /\ procs'[i].parent = procs[i].parent /\ procs'[i].background = procs[i].background
                           /\ i \notin {p, c} => procs'[i] = procs[i]
    BY <1>1, PidsFacts DEF Others, SameKin
  <1>3. \A i \in Pids : procs[i].parent = p /\ procs[i].state # "reaped" => i = c
    BY <1>1 DEF ChildrenOK
  <1>4. ParentsOK'
    BY <1>1, <1>2 DEF ParentsOK
  <1>5. ChildrenOK'
    BY <1>1, <1>2, <1>3 DEF ChildrenOK
  <1>6. ForegroundOK'
    <2> SUFFICES ASSUME NEW i \in Pids, i # Main, procs'[i].background = FALSE
                 PROVE  /\ procs'[procs'[i].parent].background = FALSE
                        /\ procs'[i].state = "live" => /\ procs'[procs'[i].parent].state = "live"
                                                       /\ procs'[procs'[i].parent].pc = "wait"
      BY <1>2 DEF ForegroundOK
    <2>1. PICK q : q = procs[i].parent
      OBVIOUS
    <2>2. q \in Pids
      BY <2>1, PidsFacts DEF ParentsOK, Main
    <2>3. procs[q].background = FALSE /\ (procs[i].state = "live" => procs[q].state = "live" /\ procs[q].pc = "wait")
      BY <1>2, <2>1 DEF ForegroundOK
    <2>4. procs'[i].state = "live" => i # c /\ procs[i].state = "live" /\ q # p /\ q # c
      BY <1>1, <1>2, <1>3, <2>1, <2>3
    <2>5. QED
      BY <1>1, <1>2, <2>1, <2>2, <2>3, <2>4
  <1>7. WaitersOK'
    <2> SUFFICES ASSUME NEW q \in Pids, procs'[q].state = "live", procs'[q].pc = "wait"
                 PROVE  /\ procs'[q].child \in Pids
                        /\ procs'[procs'[q].child].parent = q
                        /\ procs'[procs'[q].child].state # "reaped"
      BY <1>2 DEF WaitersOK, At
    <2>1. q # p /\ q # c /\ procs'[q] = procs[q]
      BY <1>1, <1>2
    <2>2. PICK d : d = procs[q].child
      OBVIOUS
    <2>3. d \in Pids /\ procs[d].parent = q /\ procs[d].state # "reaped"
      BY <2>1, <2>2 DEF WaitersOK, At
    <2>4. d # c
      BY <1>1, <2>1, <2>3
    <2>5. QED
      BY <1>1, <1>2, <2>1, <2>2, <2>3, <2>4
  <1>8. QED
    BY <1>4, <1>5, <1>6, <1>7

-----------------------------------------------------------------------------
(* What EXCEPT and Append make of the process table.                          *)
LEMMA Table ==
  ASSUME NEW n \in Nat, NEW s, s = [i \in 1..n |-> s[i]]
  PROVE  Len(s) = n /\ DOMAIN s = 1..n
  <1> DEFINE T == {s[i] : i \in 1..n}
  <1>1. s \in [1..n -> T]
    OBVIOUS
  <1> HIDE DEF T
  <1>2. QED
    BY <1>1, FunctionIsSeq

LEMMA Replaced ==
  ASSUME ProcsOK, NEW p \in Pids, NEW r, DOMAIN r = Fields, r.background \in BOOLEAN,
         procs' = [procs EXCEPT ![p] = r]
  PROVE  ProcsOK' /\ Others({p}) /\ procs'[p] = r
  <1>1. PICK n : n = Len(procs)
    OBVIOUS
  <1>2. n \in Nat \ {0} /\ procs = [i \in 1..n |-> procs[i]] /\ DOMAIN procs = 1..n
    BY <1>1 DEF ProcsOK
  <1>3. procs' = [i \in 1..n |-> procs'[i]] /\ DOMAIN procs' = 1..n
    BY <1>2
  <1>4. Len(procs') = n
    BY <1>2, <1>3, Table
  <1>5. procs'[p] = r /\ \A i \in 1..n : i # p => procs'[i] = procs[i]
    BY <1>2 DEF Pids
  <1>6. QED
    BY <1>1, <1>2, <1>3, <1>4, <1>5 DEF ProcsOK, Others, Pids

LEMMA Appended ==
  ASSUME ProcsOK, NEW p \in Pids, NEW r, DOMAIN r = Fields, r.background \in BOOLEAN,
         NEW e, DOMAIN e = Fields, e.background \in BOOLEAN,
         procs' = Append([procs EXCEPT ![p] = r], e)
  PROVE  /\ ProcsOK' /\ DOMAIN procs' = 1..(Len(procs) + 1)
         /\ \A i \in Pids \ {p} : procs'[i] = procs[i]
         /\ procs'[p] = r /\ procs'[Len(procs) + 1] = e
  <1>1. PICK n, s : n = Len(procs) /\ s = [procs EXCEPT ![p] = r]
    OBVIOUS
  <1>2. n \in Nat \ {0} /\ procs = [i \in 1..n |-> procs[i]] /\ DOMAIN procs = 1..n
    BY <1>1 DEF ProcsOK
  <1>3. s = [i \in 1..n |-> s[i]] /\ DOMAIN s = 1..n
    BY <1>1, <1>2
  <1>4. Len(s) = n
    BY <1>2, <1>3, Table
  <1>5. s[p] = r /\ \A i \in 1..n : i # p => s[i] = procs[i]
    BY <1>1, <1>2 DEF Pids
  <1> DEFINE T == {s[i] : i \in 1..n} \cup {e}
  <1>6. s \in [1..n -> T] /\ e \in T
    BY <1>3
  <1> HIDE DEF T
  <1>7. s \in Seq(T)
    BY <1>2, <1>6, FunctionIsSeq
  <1>8. /\ procs' \in Seq(T) /\ Len(procs') = n + 1
        /\ \A i \in 1..n : procs'[i] = s[i]
        /\ procs'[n + 1] = e
    BY <1>1, <1>4, <1>6, <1>7, AppendProperties
  <1>9. DOMAIN procs' = 1..(n + 1) /\ procs' = [i \in 1..(n + 1) |-> procs'[i]] /\ n + 1 \in Nat \ {0}
    BY <1>2, <1>8
  <1>10. \A i \in 1..(n + 1) : i \in 1..n \/ i = n + 1
    BY <1>2
  <1>11. \A i \in 1..(n + 1) : DOMAIN procs'[i] = Fields /\ procs'[i].background \in BOOLEAN
    BY <1>1, <1>2, <1>5, <1>8, <1>10 DEF ProcsOK, Pids
  <1>12. QED
    BY <1>1, <1>2, <1>5, <1>8, <1>9, <1>11 DEF ProcsOK, Pids

(* A process whose entry changes otherwise than by exit() goes on.            *)
LEMMA UpdateGoesOn ==
  ASSUME ShellIInv, NEW p \in Pids, Live(p), procs[p].pc \notin {"wait", "print"},
         NEW r, DOMAIN r = Fields, r.parent = procs[p].parent, r.background = procs[p].background,
         r.child = procs[p].child, r.state = procs[p].state, r.pc # "wait",
         procs' = [procs EXCEPT ![p] = r]
  PROVE  ProcsOK' /\ GoesOn(p)
  <1>1. ProcsOK /\ r.background \in BOOLEAN /\ r.state = "live"
    BY DEF ShellIInv, ProcsOK, Live
  <1>2. QED
    BY <1>1, Replaced DEF GoesOn, SameKin

LEMMA SetGoesOn ==
  ASSUME ShellIInv, NEW p \in Pids, Live(p), procs[p].pc \notin {"wait", "print"}, NEW pc, pc # "wait", Set(p, pc)
  PROVE  ProcsOK' /\ GoesOn(p)
  <1> DEFINE r == [procs[p] EXCEPT !.pc = pc]
  <1>1. /\ DOMAIN r = Fields /\ r.parent = procs[p].parent /\ r.background = procs[p].background
        /\ r.child = procs[p].child /\ r.state = procs[p].state /\ r.pc # "wait"
    BY DEF ShellIInv, ProcsOK, Fields
  <1>2. procs' = [procs EXCEPT ![p] = r]
    BY DEF Set
  <1> HIDE DEF r
  <1>3. QED
    BY <1>1, <1>2, UpdateGoesOn

LEMMA ExitEnds ==
  ASSUME ShellIInv, NEW p \in Pids, Live(p), procs[p].pc # "wait", Exit(p)
  PROVE  ProcsOK' /\ Ends1(p)
  <1> DEFINE r == [procs[p] EXCEPT !.state = "zombie", !.ends = {}]
  <1>1. /\ DOMAIN r = Fields /\ r.parent = procs[p].parent /\ r.background = procs[p].background
        /\ r.state = "zombie" /\ r.background \in BOOLEAN
    BY DEF ShellIInv, ProcsOK, Live, Fields
  <1>2. procs' = [procs EXCEPT ![p] = r]
    BY DEF Exit, Exited
  <1> HIDE DEF r
  <1>3. QED
    BY <1>1, <1>2, Replaced DEF Ends1, SameKin, ShellIInv

LEMMA ForkForks ==
  ASSUME ShellIInv, NEW p \in Pids, Live(p), procs[p].pc \notin {"wait", "print"},
         NEW cmd, NEW fds, NEW pc, NEW ends, Fork(p, cmd, fds, pc, ends),
         \/ pc = "wait"
         \/ pc = "print" /\ Type(procs[p].cmd) = "back"
  PROVE  ProcsOK' /\ Forks(p)
  <1> DEFINE n == Len(procs)
             r == [procs[p] EXCEPT !.pc = pc, !.child = n + 1, !.ends = ends]
             e == Process(cmd, p, fds, procs[p].background \/ Type(procs[p].cmd) = "back")
  <1>1. /\ DOMAIN r = Fields /\ r.parent = procs[p].parent /\ r.background = procs[p].background
        /\ r.state = "live" /\ r.background \in BOOLEAN /\ r.pc = pc /\ r.child = n + 1
    BY DEF ShellIInv, ProcsOK, Live, Fields
  <1>2. /\ DOMAIN e = Fields /\ e.parent = p /\ e.state = "live" /\ e.pc = "run"
        /\ e.background = (procs[p].background \/ Type(procs[p].cmd) = "back")
    BY DEF Process, Fields
  <1>3. procs[p].background \in BOOLEAN
    BY DEF ShellIInv, ProcsOK
  <1>4. /\ e.background \in BOOLEAN
        /\ Type(procs[p].cmd) = "back" => e.background = TRUE
        /\ e.background = FALSE => procs[p].background = FALSE
    BY <1>2, <1>3
  <1>5. procs' = Append([procs EXCEPT ![p] = r], e)
    BY DEF Fork
  <1> HIDE DEF r, e
  <1>6. ProcsOK
    BY DEF ShellIInv
  <1>7. /\ ProcsOK' /\ DOMAIN procs' = 1..(Len(procs) + 1)
        /\ \A i \in Pids \ {p} : procs'[i] = procs[i]
        /\ procs'[p] = r /\ procs'[Len(procs) + 1] = e
    <2>1. /\ DOMAIN r = Fields /\ r.background \in BOOLEAN
          /\ DOMAIN e = Fields /\ e.background \in BOOLEAN
      BY <1>1, <1>2, <1>4
    <2>2. QED
      BY ONLY p \in Pids, <1>5, <1>6, <2>1, Appended, Zenon
  <1>8. SameKin(p) /\ procs'[p].state = "live" /\ procs'[p].child = n + 1 /\ procs'[p].pc = pc
    BY ONLY <1>1, <1>7 DEF SameKin
  <1>9. /\ procs'[n + 1].parent = p /\ procs'[n + 1].state = "live" /\ procs'[n + 1].pc = "run"
        /\ Type(procs[p].cmd) = "back" => procs'[n + 1].background = TRUE
        /\ procs'[n + 1].background = FALSE => procs[p].background = FALSE
    BY ONLY <1>2, <1>4, <1>7
  <1> HIDE DEF n
  <1>10. QED
    BY <1>7, <1>8, <1>9 DEF Forks, n

LEMMA WaitReaps == ASSUME ShellIInv, NEW p \in Pids, Wait(p) PROVE ProcsOK' /\ Reaps(p)
  <1>1. PICK c \in Pids : /\ Live(p) /\ procs[p].pc = "wait"
                          /\ procs[c].parent = p /\ procs[c].state = "zombie"
                          /\ procs' = [procs EXCEPT ![c].state = "reaped", ![p].pc = After(p)]
    BY DEF Wait, At
  <1> DEFINE n == Len(procs)
             x == [procs[c] EXCEPT !.state = "reaped"]
             y == [procs[p] EXCEPT !.pc = After(p)]
  <1>2. c # p
    BY <1>1 DEF Live
  <1>3. /\ DOMAIN x = Fields /\ x.parent = procs[c].parent /\ x.background = procs[c].background
        /\ x.background \in BOOLEAN /\ x.state = "reaped"
    BY DEF ShellIInv, ProcsOK, Fields
  <1>4. /\ DOMAIN y = Fields /\ y.parent = procs[p].parent /\ y.background = procs[p].background
        /\ y.background \in BOOLEAN /\ y.state = "live" /\ y.child = procs[p].child
        /\ y.pc # "wait"
    BY <1>1 DEF ShellIInv, ProcsOK, Fields, Live, After
  <1>5. /\ n \in Nat \ {0} /\ DOMAIN procs = 1..n /\ procs = [i \in 1..n |-> procs[i]]
        /\ \A i \in 1..n : DOMAIN procs[i] = Fields /\ procs[i].background \in BOOLEAN
    BY DEF ShellIInv, ProcsOK, Pids
  <1>6. procs' = [[procs EXCEPT ![c] = x] EXCEPT ![p] = y]
    BY <1>1, <1>2, <1>5 DEF Pids
  <1> HIDE DEF n, x, y
  <1>7. /\ DOMAIN procs' = 1..n /\ procs' = [i \in 1..n |-> procs'[i]]
        /\ procs'[c] = x /\ procs'[p] = y /\ \A i \in (1..n) \ {p, c} : procs'[i] = procs[i]
    BY <1>2, <1>5, <1>6 DEF Pids
  <1>8. Len(procs') = n
    BY <1>5, <1>7, Table
  <1>9. ProcsOK'
    BY <1>3, <1>4, <1>5, <1>7, <1>8 DEF ProcsOK, Pids
  <1>10. Reaps(p)
    BY <1>1, <1>3, <1>4, <1>5, <1>7 DEF Reaps, Others, SameKin, Pids
  <1>11. QED
    BY <1>9, <1>10

-----------------------------------------------------------------------------
(* Every step of main() or of a process is one of these, or leaves the table. *)
LEMMA WriteSteps == ASSUME ShellIInv, NEW p \in Pids, Write(p) PROVE ProcsOK' /\ (GoesOn(p) \/ Ends1(p))
  <1>1. /\ Live(p) /\ procs[p].pc \in {"print", "program"}
        /\ Exit(p) \/ procs' = Written(p)
    BY DEF Write, Writing, At
  <1>2. CASE Exit(p)
    BY <1>1, <1>2, ExitEnds
  <1>3. CASE procs' = Written(p) /\ procs[p].pc = "print"
    <2>1. Exit(p)
      BY <1>3 DEF Written, Exit
    <2>2. QED
      BY <1>1, <2>1, ExitEnds
  <1>4. CASE procs' = Written(p) /\ procs[p].pc = "program"
    <2> DEFINE r == [procs[p] EXCEPT !.todo = @ - 1]
    <2>1. /\ DOMAIN r = Fields /\ r.parent = procs[p].parent /\ r.background = procs[p].background
          /\ r.child = procs[p].child /\ r.state = procs[p].state /\ r.pc # "wait"
      BY <1>4 DEF ShellIInv, ProcsOK, Fields
    <2>2. procs' = [procs EXCEPT ![p] = r]
      BY <1>4 DEF Written
    <2> HIDE DEF r
    <2>3. QED
      BY <1>1, <1>4, <2>1, <2>2, UpdateGoesOn
  <1>5. QED
    BY <1>1, <1>2, <1>3, <1>4

LEMMA ReadSteps == ASSUME ShellIInv, NEW p \in Pids, Read(p) PROVE ProcsOK' /\ GoesOn(p)
  <1>1. Live(p) /\ procs[p].pc = "program"
    BY DEF Read, At
  <1> DEFINE n == IF procs[p].fds[0] = File THEN FileItems ELSE 0
             r == [procs[p] EXCEPT !.todo = 1]
             q == [procs[p] EXCEPT !.reading = FALSE, !.todo = n]
  <1>2. \/ procs' = [procs EXCEPT ![p].todo = 1]
        \/ procs' = [procs EXCEPT ![p].reading = FALSE, ![p].todo = n]
    BY DEF Read
  <1>3. /\ DOMAIN r = Fields /\ r.parent = procs[p].parent /\ r.background = procs[p].background
        /\ r.child = procs[p].child /\ r.state = procs[p].state /\ r.pc # "wait"
    BY <1>1 DEF ShellIInv, ProcsOK, Fields
  <1>4. /\ DOMAIN q = Fields /\ q.parent = procs[p].parent /\ q.background = procs[p].background
        /\ q.child = procs[p].child /\ q.state = procs[p].state /\ q.pc # "wait"
    BY <1>1 DEF ShellIInv, ProcsOK, Fields
  <1>5. procs' = [procs EXCEPT ![p] = r] \/ procs' = [procs EXCEPT ![p] = q]
    BY <1>2
  <1> HIDE DEF r, q
  <1>6. QED
    BY <1>1, <1>3, <1>4, <1>5, UpdateGoesOn

LEMMA ExecSteps == ASSUME ShellIInv, NEW p \in Pids, Exec(p) PROVE ProcsOK' /\ (GoesOn(p) \/ Ends1(p))
  <1>1. Live(p) /\ procs[p].pc = "run"
    BY DEF Exec, AtCmd, At
  <1> DEFINE name == Name(procs[p].cmd)
             todo == Writes(name)
             reading == (name = "cat")
             r == [procs[p] EXCEPT !.pc = "program", !.todo = todo, !.reading = reading]
  <1>2. CASE Executable(name)
    <2>1. procs' = [procs EXCEPT ![p].pc = "program", ![p].todo = todo, ![p].reading = reading]
      BY <1>2 DEF Exec
    <2> HIDE DEF todo, reading
    <2>2. /\ DOMAIN r = Fields /\ r.parent = procs[p].parent /\ r.background = procs[p].background
          /\ r.child = procs[p].child /\ r.state = procs[p].state /\ r.pc # "wait"
      BY DEF ShellIInv, ProcsOK, Fields
    <2>3. procs' = [procs EXCEPT ![p] = r]
      BY <2>1
    <2> HIDE DEF r
    <2>4. QED
      BY <1>1, <2>2, <2>3, UpdateGoesOn
  <1>3. CASE ~Executable(name)
    <2>1. Exit(p)
      BY <1>3 DEF Exec, Exit
    <2>2. QED
      BY <1>1, <2>1, ExitEnds
  <1>4. QED
    BY <1>2, <1>3

LEMMA SecondSteps == ASSUME ShellIInv, NEW p \in Pids, RunSecond(p) PROVE ProcsOK' /\ GoesOn(p)
  <1>1. Live(p) /\ procs[p].pc = "second"
    BY DEF RunSecond, At
  <1> DEFINE cmd == procs[p].cmd[3]
             r == [procs[p] EXCEPT !.pc = "run", !.cmd = cmd]
  <1>2. procs' = [procs EXCEPT ![p].pc = "run", ![p].cmd = cmd]
    BY DEF RunSecond
  <1> HIDE DEF cmd
  <1>3. /\ DOMAIN r = Fields /\ r.parent = procs[p].parent /\ r.background = procs[p].background
        /\ r.child = procs[p].child /\ r.state = procs[p].state /\ r.pc # "wait"
    BY DEF ShellIInv, ProcsOK, Fields
  <1>4. procs' = [procs EXCEPT ![p] = r]
    BY <1>2
  <1> HIDE DEF r
  <1>5. QED
    BY <1>1, <1>3, <1>4, UpdateGoesOn

LEMMA ForkSteps ==
  ASSUME ShellIInv, NEW p \in Pids, RunSeq(p) \/ RunBack(p) \/ RunPipe(p) \/ RunRight(p) \/ RunRedir(p)
  PROVE  ProcsOK' /\ Forks(p)
  <1>1. Live(p) /\ procs[p].pc \notin {"wait", "print"}
    BY DEF RunSeq, RunBack, RunPipe, RunRight, RunRedir, AtCmd, At
  <1>2. \/ \E cmd, fds, ends : Fork(p, cmd, fds, "wait", ends)
        \/ \E cmd, fds, ends : Fork(p, cmd, fds, "print", ends) /\ Type(procs[p].cmd) = "back"
    <2>1. CASE RunSeq(p)
      BY <2>1, Zenon DEF RunSeq, WaitFirst
    <2>2. CASE RunBack(p)
      BY <2>2, Zenon DEF RunBack, AtCmd
    <2>3. CASE RunPipe(p)
      BY <2>3, Zenon DEF RunPipe
    <2>4. CASE RunRight(p)
      BY <2>4, Zenon DEF RunRight
    <2>5. CASE RunRedir(p)
      BY <2>5, Zenon DEF RunRedir
    <2>6. QED
      BY <2>1, <2>2, <2>3, <2>4, <2>5
  <1>3. QED
    BY <1>1, <1>2, ForkForks

LEMMA ShellSteps ==
  ASSUME ShellIInv, [Next]_vars
  PROVE  ProcsOK' /\ (procs' = procs \/ \E p : GoesOn(p) \/ Ends1(p) \/ Forks(p) \/ Reaps(p))
  <1>1. Main \in Pids
    BY PidsFacts DEF ShellIInv
  <1>2. CASE MainExit
    BY <1>1, <1>2, ExitEnds DEF MainExit, At
  <1>3. CASE MainCd
    BY <1>1, <1>3, SetGoesOn DEF MainCd, At
  <1>4. CASE MainEmpty
    BY <1>1, <1>4, SetGoesOn DEF MainEmpty, At
  <1>5. CASE MainRun
    <2>1. Fork(Main, root, procs[Main].fds, "wait", {}) /\ Live(Main) /\ procs[Main].pc = "main"
      BY <1>5 DEF MainRun, At
    <2>2. QED
      BY <1>1, <2>1, ForkForks
  <1>6. ASSUME NEW p \in Pids, Step(p) PROVE ProcsOK' /\ (GoesOn(p) \/ Ends1(p) \/ Forks(p) \/ Reaps(p))
    <2>1. CASE Wait(p)
      BY <2>1, WaitReaps
    <2>2. CASE ExitZero(p)
      BY <2>2, ExitEnds DEF ExitZero, At
    <2>3. CASE Exec(p)
      BY <2>3, ExecSteps
    <2>4. CASE RunSecond(p)
      BY <2>4, SecondSteps
    <2>5. CASE RunSeq(p) \/ RunBack(p) \/ RunPipe(p) \/ RunRight(p) \/ RunRedir(p)
      BY <2>5, ForkSteps
    <2>6. CASE Write(p)
      BY <2>6, WriteSteps
    <2>7. CASE Read(p)
      BY <2>7, ReadSteps
    <2>8. CASE ProgramEnds(p)
      BY <2>8, ExitEnds DEF ProgramEnds, At
    <2>9. QED
      BY <1>6, <2>1, <2>2, <2>3, <2>4, <2>5, <2>6, <2>7, <2>8 DEF Step
  <1>7. CASE UNCHANGED vars
    BY <1>7 DEF ShellIInv, ProcsOK, Pids, vars
  <1>8. QED
    BY <1>2, <1>3, <1>4, <1>5, <1>6, <1>7 DEF Next

LEMMA ShellInit == Init => ShellIInv
  <1> SUFFICES ASSUME Init PROVE ShellIInv
    OBVIOUS
  <1> DEFINE e == [Process(<<"none">>, 0, (0 :> Tty) @@ (1 :> Tty), FALSE) EXCEPT !.pc = "main"]
  <1>1. procs = <<e>>
    BY DEF Init
  <1>2. /\ DOMAIN e = Fields /\ e.parent = 0 /\ e.background = FALSE /\ e.state = "live" /\ e.child = 0
        /\ e.pc = "main"
    BY DEF Process, Fields
  <1> HIDE DEF e
  <1>3. Len(procs) = 1 /\ DOMAIN procs = {1} /\ procs = [i \in 1..1 |-> procs[i]] /\ procs[1] = e
    BY <1>1
  <1>4. procs[1].parent = 0 /\ procs[1].background = FALSE /\ procs[1].pc = "main" /\ DOMAIN procs[1] = Fields
    BY ONLY <1>2, <1>3
  <1>5. ProcsOK
    <2>1. Len(procs) \in Nat \ {0} /\ procs = [i \in 1..Len(procs) |-> procs[i]]
      BY <1>3
    <2>2. ASSUME NEW p \in Pids PROVE DOMAIN procs[p] = Fields /\ procs[p].background \in BOOLEAN
      <3>1. p = 1
        BY <1>3 DEF Pids
      <3>2. QED
        BY ONLY <1>4, <3>1
    <2>3. QED
      BY <2>1, <2>2 DEF ProcsOK
  <1>6. ParentsOK
    BY ONLY <1>3, <1>4 DEF ParentsOK, Pids, Main
  <1>7. ChildrenOK
    BY ONLY <1>3, <1>4 DEF ChildrenOK, Pids, Live
  <1>8. ForegroundOK
    BY ONLY <1>3, <1>4 DEF ForegroundOK, Pids, Main
  <1>9. WaitersOK
    BY ONLY <1>3, <1>4 DEF WaitersOK, Pids, At
  <1>10. QED
    BY <1>5, <1>6, <1>7, <1>8, <1>9 DEF ShellIInv

LEMMA ShellNext == ASSUME ShellIInv, [Next]_vars PROVE ShellIInv'
  <1>1. CASE procs' = procs
    BY <1>1 DEF ShellIInv, ProcsOK, ParentsOK, ChildrenOK, ForegroundOK, WaitersOK, Pids, Live, At
  <1>2. QED
    BY <1>1, ShellSteps, GoesOnKeeps, Ends1Keeps, ForksKeeps, ReapsKeeps

(* main.c, ast.c: wait(0) takes any child that has ended, yet it is always    *)
(* the one the process forked last, whatever runs in the background.          *)
THEOREM WaitsForItsOwn == Spec => WaitReapsOwn
  <1>1. ASSUME ShellIInv, [Next]_vars, NEW c \in Pids, procs[c].state = "zombie", procs'[c].state = "reaped"
        PROVE  procs[procs[c].parent].child = c
    <2>1. procs' # procs
      BY <1>1
    <2>2. PICK p : GoesOn(p) \/ Ends1(p) \/ Forks(p) \/ Reaps(p)
      BY <1>1, <2>1, ShellSteps
    <2>3. Live(p) /\ c # p
      BY <1>1, <2>2 DEF GoesOn, Ends1, Forks, Reaps, Live
    <2>4. Reaps(p)
      BY <1>1, <2>2, <2>3 DEF GoesOn, Ends1, Forks, Others
    <2>5. PICK d \in Pids : procs[d].parent = p /\ procs[d].state = "zombie" /\ Others({p, d}) /\ p \in Pids
      BY <2>4 DEF Reaps
    <2>6. c = d
      BY <1>1, <2>3, <2>5 DEF Others
    <2>7. procs[p].child = c
      BY <1>1, <2>3, <2>5, <2>6 DEF ShellIInv, ChildrenOK
    <2>8. QED
      BY <2>5, <2>6, <2>7
  <1>2. ASSUME ShellIInv, [Next]_vars
        PROVE  \A p \in Pids : procs[p].state = "zombie" /\ procs'[p].state = "reaped"
                                => procs[procs[p].parent].child = p
    BY <1>1, <1>2
  <1>3. QED
    BY <1>2, ShellInit, ShellNext, PTL DEF Spec, WaitReapsOwn

(* ast.c, main.c: no wait(0) comes back for want of a child, whatever order    *)
(* the processes end in.                                                      *)
THEOREM WaitsHaveAChild == Spec => []NoWaitFails
  <1>1. ShellIInv => NoWaitFails
    BY DEF ShellIInv, WaitersOK, NoWaitFails
  <1>2. QED
    BY <1>1, ShellInit, ShellNext, PTL DEF Spec

(* main.c: when the shell prompts again, nothing of the line runs any more    *)
(* but what stands under a & .                                                *)
THEOREM NothingLeftInForeground == Spec => []ForegroundDone
  <1>1. ASSUME ShellIInv PROVE ForegroundDone
    <2> SUFFICES ASSUME procs[Main].pc # "wait"
                 PROVE  \A c \in Pids \ {Main} : Live(c) => procs[c].background
      BY DEF ForegroundDone, At
    <2> DEFINE S == {k \in Nat : \A c \in Pids \ {Main} : c <= k /\ Live(c) => procs[c].background = TRUE}
    <2>1. Pids = 1..Len(procs) /\ Len(procs) \in Nat /\ \A c \in Pids : procs[c].background \in BOOLEAN
      BY <1>1, PidsFacts DEF ShellIInv, ProcsOK
    <2>2. 0 \in S
      BY <2>1
    <2>3. ASSUME NEW k \in Nat, k \in S PROVE k + 1 \in S
      <3> k + 1 \in Nat
        OBVIOUS
      <3> SUFFICES ASSUME NEW c \in Pids \ {Main}, c <= k + 1, Live(c), procs[c].background # TRUE
                   PROVE  FALSE
        BY Zenon
      <3>0. procs[c].background = FALSE
        BY <2>1
      <3>1. PICK q : q = procs[c].parent
        OBVIOUS
      <3>2. q \in 1..(c - 1) /\ c \in Nat
        BY <1>1, <2>1, <3>1 DEF ShellIInv, ParentsOK
      <3>3. Live(q) /\ procs[q].pc = "wait" /\ procs[q].background = FALSE
        BY <1>1, <3>0, <3>1 DEF ShellIInv, ForegroundOK
      <3>4. q \in Pids \ {Main} /\ q <= k
        BY <2>1, <3>2, <3>3
      <3>5. QED
        BY <2>3, <3>3, <3>4
    <2>4. Nat \subseteq S
      <3> HIDE DEF S
      <3>1. QED
        BY <2>2, <2>3, NatInductionOnSet
    <2>5. QED
      BY <2>1, <2>4
  <1>2. QED
    BY <1>1, ShellInit, ShellNext, PTL DEF Spec
=============================================================================
