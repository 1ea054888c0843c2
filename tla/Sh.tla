--------------------------------- MODULE Sh ----------------------------------
(***************************************************************************)
(* The shell of xv6 (lab2/user/sh.c) under init (lab2/user/init.c): the    *)
(* parser of a line, and the tree of processes that runs what it returns.  *)
(* A word of the line, a pipe and a redirected file are named by the place *)
(* of their token. A program is a source, or reads its input to the end:   *)
(* it may exit unless its input is a pipe somebody may still write to.     *)
(***************************************************************************)
EXTENDS Integers, Sequences, FiniteSets, FiniteSetsExt

CONSTANTS NPROC, MAXARGS,
          CmdLines,     \* bound: the line typed, a sequence of tokens, is one of these
          MaxShells,    \* bound: shells init starts
          MaxFails      \* bound: system calls that fail although they could work

Procs == 1 .. NPROC
init  == 1
Fd    == 0 .. 4
NoFile == <<0, "none">>
Console  == <<0, "console">>

VARIABLES line, unread,   \* what is typed: a line, then the end of the input
          tree,           \* what the line is parsed to
          pc, cmd,        \* of a process: the statement it is at, the command it runs
          parent, fds,    \* its parent, its open files
          sh, shells,     \* the shell init waits for; bound: how many there were
          fails           \* system calls that failed
shVars == <<line, unread, tree, pc, cmd, parent, fds, sh, shells, fails>>

-----------------------------------------------------------------------------
(* The parser: what starts at token i, and the token that comes next; next is *)
(* 0 after panic(), where no token is.                                        *)
Tok(i) == IF i \in DOMAIN line THEN line[i] ELSE "end"

execcmd(argv)           == [type |-> "EXEC", argv |-> argv]
redircmd(c, f, fd)      == [type |-> "REDIR", cmd |-> c, file |-> f, fd |-> fd]
pipecmd(at, left, right) == [type |-> "PIPE", at |-> at, left |-> left, right |-> right]
listcmd(left, right)    == [type |-> "LIST", left |-> left, right |-> right]
backcmd(c)              == [type |-> "BACK", cmd |-> c]
Redirected(c, files) ==
  LET wrap[n \in 0 .. Len(files)] == IF n = 0 THEN c ELSE redircmd(wrap[n - 1], files[n][1], files[n][2])
  IN wrap[Len(files)]

RECURSIVE parseredirs(_, _), Words(_, _), parseline(_), parsepipe(_), Backs(_, _)

parseredirs(files, i) ==
  IF Tok(i) \notin {"<", ">"} THEN [files |-> files, next |-> i]
  ELSE IF Tok(i + 1) # "w" THEN [files |-> files, next |-> 0]
  ELSE parseredirs(Append(files, <<i + 1, IF Tok(i) = "<" THEN 0 ELSE 1>>), i + 2)

(* The loop of parseexec(), redirs being what parseredirs() returned last.    *)
Words(argv, redirs) ==
  IF Tok(redirs.next) \in {"|", ")", "&", ";", "end"} THEN [redirs EXCEPT !.files = <<argv, @>>]
  ELSE IF Tok(redirs.next) # "w" THEN [files |-> <<argv, redirs.files>>, next |-> 0]
  ELSE Words(Append(argv, redirs.next), parseredirs(redirs.files, redirs.next + 1))
Simple(words) ==
  [cmd  |-> Redirected(execcmd(words.files[1]), words.files[2]),
   next |-> IF Len(words.files[1]) >= MAXARGS THEN 0 ELSE words.next]

Closed(c, redirs) == [cmd |-> Redirected(c, redirs.files), next |-> redirs.next]
Block(inside) ==
  Closed(inside.cmd, IF Tok(inside.next) = ")" THEN parseredirs(<<>>, inside.next + 1)
                     ELSE [files |-> <<>>, next |-> 0])
parseexec(i) ==
  IF Tok(i) = "(" THEN Block(parseline(i + 1)) ELSE Simple(Words(<<>>, parseredirs(<<>>, i)))

Pipe(left, right) == [cmd |-> pipecmd(left.next, left.cmd, right.cmd), next |-> right.next]
PipeOrNot(left)   == IF Tok(left.next) # "|" THEN left ELSE Pipe(left, parsepipe(left.next + 1))
parsepipe(i)      == PipeOrNot(parseexec(i))

List(left, right) == [cmd |-> listcmd(left.cmd, right.cmd), next |-> right.next]
Backs(c, i)       == IF Tok(i) = "&" THEN Backs(backcmd(c), i + 1) ELSE [cmd |-> c, next |-> i]
ListOrNot(left)   == IF Tok(left.next) # ";" THEN left ELSE List(left, parseline(left.next + 1))
Background(pipe)  == Backs(pipe.cmd, pipe.next)
parseline(i)      == ListOrNot(Background(parsepipe(i)))

Syntax == [type |-> "SYNTAX"]
Whole(parsed) == IF parsed.next = Len(line) + 1 THEN parsed.cmd ELSE Syntax
parsecmd == Whole(parseline(1))

-----------------------------------------------------------------------------
(* Processes.                                                                 *)
Unused == {p \in Procs : pc[p] = "unused"}
Living == {p \in Procs : pc[p] \notin {"unused", "zombie"}}

Close(f, d) == [f EXCEPT ![d] = NoFile]
Open(f, x)  == [f EXCEPT ![Min({d \in Fd : f[d] = NoFile})] = x]   \* open() and dup()

Init ==
  /\ line \in CmdLines /\ unread = TRUE /\ tree = Syntax
  /\ pc = [p \in Procs |-> IF p = init THEN "starting" ELSE "unused"]
  /\ cmd = [p \in Procs |-> Syntax] /\ parent = [p \in Procs |-> init]
  /\ fds = [p \in Procs |-> [d \in Fd |-> IF p = init /\ d <= 2 THEN Console ELSE NoFile]]
  /\ sh = 0 /\ shells = 0 /\ fails = 0

(* fork(): the child is at statement at, of command c; its parent goes on.    *)
Fork(p, child, at, c, then) ==
  /\ pc' = [pc EXCEPT ![p] = then, ![child] = at]
  /\ cmd' = [cmd EXCEPT ![child] = c]
  /\ parent' = [parent EXCEPT ![child] = p]
  /\ fds' = [fds EXCEPT ![child] = fds[p]]
  /\ UNCHANGED fails

(* exit(): zombie, without files; init takes the children.                    *)
Exit(p) ==
  /\ pc' = [pc EXCEPT ![p] = "zombie"]
  /\ fds' = [fds EXCEPT ![p] = [d \in Fd |-> NoFile]]
  /\ parent' = [q \in Procs |-> IF parent[q] = p THEN init ELSE parent[q]]
  /\ cmd' = [cmd EXCEPT ![p] = Syntax]

Fail(p) == fails < MaxFails /\ fails' = fails + 1 /\ Exit(p)

(* fork1(), whose failure is the end of the process.                          *)
fork1(p, at, c, then) ==
  \/ Unused # {} /\ Fork(p, Min(Unused), at, c, then)
  \/ Unused = {} /\ Exit(p) /\ fails' = fails + 1
  \/ Unused # {} /\ Fail(p)

(* wait(): child q is found and freed, and nothing else changes.              *)
Kids(p)    == {q \in Procs \ {init} : parent[q] = p /\ pc[q] # "unused"}
Zombies(p) == {q \in Kids(p) : pc[q] = "zombie"}
Wait(p, q, then) ==
  /\ q \in Zombies(p) /\ pc' = [pc EXCEPT ![p] = then, ![q] = "unused"]
  /\ parent' = [parent EXCEPT ![q] = init]
  /\ UNCHANGED <<fds, fails>>

Mine == UNCHANGED <<line, unread, tree, sh, shells>>

-----------------------------------------------------------------------------
(* runcmd().                                                                  *)
RunExec(p) ==
  /\ pc[p] = "run" /\ cmd[p].type = "EXEC" /\ Mine
  /\ \/ cmd[p].argv # <<>> /\ pc' = [pc EXCEPT ![p] = "program"]
        /\ UNCHANGED <<cmd, parent, fds, fails>>
     \/ cmd[p].argv # <<>> /\ Fail(p)
     \/ cmd[p].argv = <<>> /\ Exit(p) /\ UNCHANGED fails

RunRedir(p) ==
  /\ pc[p] = "run" /\ cmd[p].type = "REDIR" /\ Mine
  /\ \/ /\ fds' = [fds EXCEPT ![p] = Open(Close(@, cmd[p].fd), <<cmd[p].file, "file">>)]
        /\ cmd' = [cmd EXCEPT ![p] = @.cmd] /\ UNCHANGED <<pc, parent, fails>>
     \/ Fail(p)

RunList(p) == pc[p] = "run" /\ cmd[p].type = "LIST" /\ Mine /\ fork1(p, "run", cmd[p].left, "list")
ListNext(p) == /\ pc[p] = "list" /\ Mine
               /\ \E q \in Procs : Wait(p, q, "run") /\ cmd' = [cmd EXCEPT ![p] = @.right]

RunPipe(p) ==
  /\ pc[p] = "run" /\ cmd[p].type = "PIPE" /\ Mine
  /\ \/ /\ fds' = [fds EXCEPT ![p] = Open(Open(@, <<cmd[p].at, "read">>), <<cmd[p].at, "write">>)]
        /\ pc' = [pc EXCEPT ![p] = "left"] /\ UNCHANGED <<cmd, parent, fails>>
     \/ Fail(p)
Ends(p)  == {d \in Fd : fds[p][d] \in {<<cmd[p].at, "read">>, <<cmd[p].at, "write">>}}
Shut(f, ends) == [d \in Fd |-> IF d \in ends THEN NoFile ELSE f[d]]
PipeLeft(p)  == pc[p] = "left" /\ Mine /\ fork1(p, "out", cmd[p], "right")
PipeRight(p) == pc[p] = "right" /\ Mine /\ fork1(p, "in", cmd[p], "shut")

(* The children: the end of the pipe takes the place of file 1, or 0.         *)
LeftChild(p) ==
  /\ pc[p] = "out" /\ Mine
  /\ fds' = [fds EXCEPT ![p] = Shut(Open(Close(@, 1), <<cmd[p].at, "write">>), Ends(p))]
  /\ cmd' = [cmd EXCEPT ![p] = @.left] /\ pc' = [pc EXCEPT ![p] = "run"] /\ UNCHANGED <<parent, fails>>
RightChild(p) ==
  /\ pc[p] = "in" /\ Mine
  /\ fds' = [fds EXCEPT ![p] = Shut(Open(Close(@, 0), <<cmd[p].at, "read">>), Ends(p))]
  /\ cmd' = [cmd EXCEPT ![p] = @.right] /\ pc' = [pc EXCEPT ![p] = "run"] /\ UNCHANGED <<parent, fails>>

PipeClose(p) ==
  /\ pc[p] = "shut" /\ Mine /\ pc' = [pc EXCEPT ![p] = "both"]
  /\ fds' = [fds EXCEPT ![p] = Shut(@, Ends(p))] /\ UNCHANGED <<cmd, parent, fails>>
PipeWait(p) ==
  /\ pc[p] \in {"both", "one"} /\ Mine /\ UNCHANGED cmd
  /\ \E q \in Procs : Wait(p, q, IF pc[p] = "both" THEN "one" ELSE "exit")

RunBack(p) == pc[p] = "run" /\ cmd[p].type = "BACK" /\ Mine /\ fork1(p, "run", cmd[p].cmd, "exit")

(* exit(0) after the switch; a program that is over.                          *)
Written(f) == \E q \in Living, d \in Fd : fds[q][d] = <<f[1], "write">>
MayExit(p) == fds[p][0][2] = "read" => ~Written(fds[p][0])
RunExit(p) ==
  /\ pc[p] = "exit" \/ (pc[p] = "program" /\ MayExit(p))
  /\ Mine /\ Exit(p) /\ UNCHANGED fails

-----------------------------------------------------------------------------
(* main() of sh: a line is parsed and run by a child; the input ends.         *)
GetLine(p) ==
  /\ pc[p] = "prompt" /\ unread /\ unread' = FALSE /\ UNCHANGED <<line, tree, sh, shells>>
  /\ fork1(p, "parse", Syntax, "busy")
GetEnd(p) == pc[p] = "prompt" /\ ~unread /\ Mine /\ Exit(p) /\ UNCHANGED fails
Parse(p) ==
  /\ pc[p] = "parse" /\ tree' = parsecmd /\ UNCHANGED <<line, unread, sh, shells, fails>>
  /\ \/ tree' = Syntax /\ Exit(p)
     \/ /\ tree' # Syntax /\ cmd' = [cmd EXCEPT ![p] = tree']
        /\ pc' = [pc EXCEPT ![p] = "run"] /\ UNCHANGED <<parent, fds>>
LineOver(p) == pc[p] = "busy" /\ Mine /\ UNCHANGED cmd /\ \E q \in Procs : Wait(p, q, "prompt")

(* init: starts a shell, and another when that one is over.                   *)
StartShell ==
  /\ pc[init] = "starting" /\ shells < MaxShells /\ Unused # {}
  /\ shells' = shells + 1 /\ sh' = Min(Unused) /\ UNCHANGED <<line, unread, tree>>
  /\ Fork(init, sh', "exec", Syntax, "waiting")
NoShell ==   \* fork() fails: init exits, and the kernel panics
  /\ pc[init] = "starting" /\ shells < MaxShells
  /\ \/ Unused = {} /\ fails' = fails + 1
     \/ Unused # {} /\ fails < MaxFails /\ fails' = fails + 1
  /\ pc' = [pc EXCEPT ![init] = "zombie"]
  /\ UNCHANGED <<line, unread, tree, cmd, parent, fds, sh, shells>>
ShellExec(p) ==
  /\ pc[p] = "exec" /\ Mine
  /\ \/ pc' = [pc EXCEPT ![p] = "prompt"] /\ UNCHANGED <<cmd, parent, fds, fails>>
     \/ Fail(p)

InitWait ==
  /\ pc[init] = "waiting" /\ Mine /\ UNCHANGED cmd
  /\ \E q \in Procs : Wait(init, q, IF q = sh THEN "starting" ELSE "waiting")

Over == \/ pc[init] = "zombie"
        \/ pc[init] = "starting" /\ shells = MaxShells
Step(p) == \/ RunExec(p) \/ RunRedir(p) \/ RunList(p) \/ ListNext(p) \/ RunPipe(p) \/ PipeLeft(p)
           \/ PipeRight(p) \/ LeftChild(p) \/ RightChild(p) \/ PipeClose(p) \/ PipeWait(p) \/ RunBack(p)
           \/ RunExit(p) \/ GetLine(p) \/ GetEnd(p) \/ Parse(p) \/ LineOver(p) \/ ShellExec(p)
Next == \/ pc[init] # "zombie" /\ \E p \in Procs : Step(p)
        \/ StartShell \/ NoShell \/ InitWait
        \/ Over /\ UNCHANGED shVars
Spec == Init /\ [][Next]_shVars

-----------------------------------------------------------------------------
(* What the line from token a to token b means, by what separates its parts:  *)
(* the first ; outside of parentheses, then the &s at the end, then the first *)
(* |; what is left is a block or words, with redirections.                    *)
Depth(a, i)  == Cardinality({j \in a .. i - 1 : line[j] = "("}) - Cardinality({j \in a .. i - 1 : line[j] = ")"})
Top(a, b, t) == {i \in a .. b : line[i] = t /\ Depth(a, i) = 0}
Sign(i)      == line[i] \in {"<", ">"}
Files(a, b)  == LET at == {i \in a .. b : Sign(i)}
                IN [n \in 1 .. Cardinality(at) |->
                      LET i == CHOOSE i \in at : Cardinality({j \in at : j <= i}) = n
                      IN <<i + 1, IF line[i] = "<" THEN 0 ELSE 1>>]
Named(a, b)  == \A i \in a .. b : Sign(i) => i < b /\ line[i + 1] = "w"
Args(a, b)   == LET at == {i \in a .. b : ~Sign(i) /\ (i = a \/ ~Sign(i - 1))}
                IN [n \in 1 .. Cardinality(at) |-> CHOOSE i \in at : Cardinality({j \in at : j <= i}) = n]

RECURSIVE Meaning(_, _), Forked(_, _), Piped(_, _)
Unit(a, b) ==
  IF a <= b /\ line[a] = "("
  THEN LET closes == {i \in a + 1 .. b : line[i] = ")" /\ Depth(a, i) = 1}
           c == Min(closes)
       IN IF closes # {} /\ Named(c + 1, b) /\ (\A i \in c + 1 .. b : Sign(i) \/ (i > c + 1 /\ Sign(i - 1)))
          THEN Redirected(Meaning(a + 1, c - 1), Files(c + 1, b)) ELSE Syntax
  ELSE IF (\A i \in a .. b : line[i] \in {"w", "<", ">"}) /\ Named(a, b) /\ Len(Args(a, b)) < MAXARGS
       THEN Redirected(execcmd(Args(a, b)), Files(a, b)) ELSE Syntax
Piped(a, b) ==
  IF Top(a, b, "|") = {} THEN Unit(a, b)
  ELSE LET m == Min(Top(a, b, "|")) IN pipecmd(m, Unit(a, m - 1), Piped(m + 1, b))
Forked(a, b) ==
  IF a <= b /\ line[b] = "&" /\ Depth(a, b) = 0 THEN backcmd(Forked(a, b - 1)) ELSE Piped(a, b)
Meaning(a, b) ==
  IF Top(a, b, ";") = {} THEN Forked(a, b)
  ELSE LET m == Min(Top(a, b, ";")) IN listcmd(Forked(a, m - 1), Meaning(m + 1, b))

RECURSIVE Correct(_)
Correct(c) ==
  CASE c.type = "SYNTAX" -> FALSE
    [] c.type = "EXEC" -> TRUE
    [] c.type \in {"LIST", "PIPE"} -> Correct(c.left) /\ Correct(c.right)
    [] c.type \in {"BACK", "REDIR"} -> Correct(c.cmd)

(* PROPERTY: the parser accepts the lines that have a meaning, and returns    *)
(* the tree of that meaning (parsecmd() and what it calls).                   *)
ParseRight == LET m == Meaning(1, Len(line)) IN parsecmd = IF Correct(m) THEN m ELSE Syntax

(* The programs of a command, each with its input and output; those the shell *)
(* waits for; which program must be over before which other starts.           *)
RECURSIVE Wires(_, _, _), Waited(_), Before(_)
Wires(c, in, out) ==
  CASE c.type = "EXEC" -> IF c.argv = <<>> THEN {} ELSE {<<c.argv, in, out>>}
    [] c.type = "REDIR" -> LET file == <<c.file, "file">>
                           IN Wires(c.cmd, IF c.fd = 0 THEN file ELSE in, IF c.fd = 1 THEN file ELSE out)
    [] c.type = "BACK" -> Wires(c.cmd, in, out)
    [] c.type = "LIST" -> Wires(c.left, in, out) \cup Wires(c.right, in, out)
    [] c.type = "PIPE" -> Wires(c.left, in, <<c.at, "write">>) \cup Wires(c.right, <<c.at, "read">>, out)
    [] OTHER -> {}
All(c) == {wire[1] : wire \in Wires(c, Console, Console)}
Waited(c) ==
  CASE c.type = "EXEC" -> {c.argv} \ {<<>>}
    [] c.type = "REDIR" -> Waited(c.cmd)
    [] c.type \in {"LIST", "PIPE"} -> Waited(c.left) \cup Waited(c.right)
    [] OTHER -> {}
Before(c) ==
  CASE c.type \in {"REDIR", "BACK"} -> Before(c.cmd)
    [] c.type = "PIPE" -> Before(c.left) \cup Before(c.right)
    [] c.type = "LIST" -> Before(c.left) \cup Before(c.right) \cup (Waited(c.left) \X All(c.right))
    [] OTHER -> {}

Programs == {p \in Procs : pc[p] = "program"}
(* What a process still runs, itself or in a child it has yet to fork.        *)
Ahead(p) == CASE pc[p] \in {"run", "left", "program"} -> All(cmd[p])
              [] pc[p] \in {"list", "right", "in"} -> All(cmd[p].right)
              [] pc[p] = "out" -> All(cmd[p].left)
              [] OTHER -> {}

(* PROPERTY: a program starts with its input and output where the line says,  *)
(* its errors on the console, and no other file open: no end of any pipe.     *)
Wired == \A p \in Programs :
  \E wire \in Wires(tree, Console, Console) :
    wire = <<cmd[p].argv, fds[p][0], fds[p][1]>> /\ fds[p][2] = Console /\ fds[p][3] = NoFile /\ fds[p][4] = NoFile

(* PROPERTY: unless a system call failed, a program starts when what stands   *)
(* before a ; is over, and the prompt comes back when all programs but those  *)
(* in the background are.                                                     *)
InSequence == fails = 0 =>
  /\ \A p \in Programs, q \in Living, x \in Before(tree) : ~(cmd[p].argv = x[2] /\ x[1] \in Ahead(q))
  /\ \A p, q \in Living : pc[p] = "prompt" => Waited(tree) \cap Ahead(q) = {}

(* PROPERTY: nobody waits for ever for the end of a pipe: while the shell     *)
(* waits for a line to be run, somebody can go on.                            *)
LineGoesOn == \A s \in Living : pc[s] = "busy" =>
  \E p \in Living \ {init} : /\ pc[p] \in {"list", "both", "one", "busy"} => Zombies(p) # {}
                             /\ pc[p] = "program" => MayExit(p)

(* PROPERTY: there is one shell at the console, init's, and init starts no    *)
(* other before it is over, whoever else exits.                               *)
OneShell == Cardinality({p \in Living : pc[p] \in {"exec", "prompt", "busy"}}) <= 1
=============================================================================
