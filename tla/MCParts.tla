------------------------------ MODULE MCParts ------------------------------
(***************************************************************************)
(* Parts of the system that share no state, checked side by side: each     *)
(* behaviour is one of a part. The parts take turns with the variables     *)
(* x1, x2, ..., which stand for those of the part; 0 where it has no more. *)
(* Spinlock, PingPong, Scheduler, Printf, Kalloc, Console, Uart, Clock and *)
(* Blocks keep variables of their own, which stay as they are in the       *)
(* behaviours of another part.                                             *)
(***************************************************************************)
EXTENDS Spinlock, PingPong, Scheduler, Printf, Kalloc, Console, Uart, Clock, Blocks, Sequences,
        TLC
LOCAL INSTANCE SequencesExt

CONSTANTS p1, p2, p3, c1, c2, None

(* Arguments of sleep().                                                      *)
Naps == {-1, 0, 2}

(* Blocks of files: one process writes the file the other truncates.          *)
Writings    == {<<p1, 1>>, <<p2, 1>>, <<p2, 2>>}
Truncations == {<<p2, 1>>}

VARIABLES part, x1, x2, x3, x4, x5, x6, x7, x8, x9, x10, x11, x12, x13, x14, x15, x16, x17, x18,
          x19, x20
ownVars == <<spinVars, pingpongVars, schedVars, printfVars, kallocVars, consVars, uartVars,
             clockVars, blockVars>>
xVars == <<x1, x2, x3, x4, x5, x6, x7, x8, x9, x10, x11, x12, x13, x14, x15, x16, x17,
           x18, x19, x20>>
vars == <<ownVars, part, xVars>>

Dsk == INSTANCE VirtioDisk WITH Procs <- {p1, p2, p3}, Blocks <- {"b"}, Data <- {"d"}, NBUF <- 3,
         NUM <- 6, IdxMod <- 6, at <- x1, buf <- x2, write <- x3, blockno <- x4, data <- x5,
         owned <- x6, free <- x7, next <- x8, req <- x9, info <- x10, avail <- x11,
         avail_idx <- x12, used <- x13, used_idx <- x14, seen <- x15, irq <- x16,
         handler <- x17, taken <- x18, inflight <- x19, disk <- x20

(* Memory: enough pages for two processes and a part of a third space.        *)
Mem == INSTANCE Memory WITH NPROC <- 3, NPAGES <- 24, PGSIZE <- 2, LEVELS <- 3, FAN <- 2,
         MAXVA <- 8, Grow <- {1, 3}, Shrink <- {1, 9}, Segment <- {3}, free <- x1, state <- x2,
         frame <- x3, tables <- x4, mapped <- x5, sz <- x6, pc <- x7, call <- x8, np <- x9,
         va <- x10, oldsz <- x11, newsz <- x12, mem <- x13

Heap == INSTANCE Malloc WITH HEAP <- 12, MinCore <- 4, Wants <- {2, 3}, ptr <- x1, size <- x2,
         freep <- x3, brk <- x4, live <- x5, own <- x6

Bash == INSTANCE Shell WITH MaxCmds <- 3, MaxTokens <- 2, Jobs <- {1, 2}, shell <- x1,
         ahead <- x2, ntok <- x3, cmd <- x4, cmds <- x5, wait <- x6, job <- x7, i <- x8,
         ignored <- x9, ends <- x10, child <- x11, redir <- x12, fg <- x13, failed <- x14

(* Lines of the shell of xv6: all of three tokens, and some longer ones.      *)
Tokens == {"w", "|", "&", ";", "(", ")", "<", ">"}
Longer == {
  <<"w", "|", "w", "|", "w">>, <<"(", "w", "|", "w", ")", "|", "w">>, <<"w", ";", "w", ";", "w">>,
  <<"(", "w", "&", ")", "|", "w", ";", "w">>, <<"(", "w", ";", "w", ")", "|", "w", ">", "w">>,
  <<"w", "&", ";", "w", "|", "w">>, <<"(", "w", "|", "w", ")", "&">>, <<"w", "<", "w", ">", "w", "w">>,
  <<"w", ">", "w", ">", "w">>, <<"(", "w", ";", "w", ")", "&", ";", "w">>, <<"w", "(", "w", ")">>,
  <<"(", "(", "w", ")", "<", "w", ")", ">", "w">>, <<"w", "|", "(", "w", ";", "w", ")">>,
  <<"(", "w", ")", "w">>, <<"(", "w", ")", "|", "(", "w", ")">>}
ShLines == BoundedSeq(Tokens, 3) \cup Longer
Xsh == INSTANCE Sh WITH NPROC <- 7, MAXARGS <- 3, CmdLines <- ShLines, MaxShells <- 2,
         MaxFails <- 1, line <- x1, unread <- x2, pc <- x3, cmd <- x4, parent <- x5, fds <- x6,
         sh <- x7, shells <- x8, fails <- x9, tree <- x10

(* Expressions of three characters, files of two and some longer ones.        *)
Patterns == BoundedSeq({"a", ".", "*", "^", "$"}, 3)
Files    == BoundedSeq({"a", "*", "\n"}, 2) \cup
              {<<"a", "a", "\n", "*", "\n">>, <<"\n", "a", "a", "a", "\n", "a">>}
Grp == INSTANCE Grep WITH Patterns <- Patterns, Files <- Files, BUF <- 4, pattern <- x1,
         file <- x2, togo <- x3, buf <- x4, printed <- x5, over <- x6

Hosts == BoundedSeq({0, 1, 3, 6, 7}, 3)   \* up to three host files
Mk == INSTANCE Mkfs WITH Hosts <- Hosts, BSIZE <- 2, NDIRECT <- 1, NINDIRECT <- 2, nmeta <- 2,
         FSSIZE <- 24, NINODES <- 4, at <- x1, host <- x2, f <- x3, k <- x4, image <- x5

(* User memory of three pages of two bytes, some of them not mapped.          *)
PageTables == {[v \in 0 .. 2 |-> t[v + 1]] : t \in {<<2, 3, 1>>, <<3, 1, 0>>, <<1, 0, 2>>}}
NoPages    == [v \in 0 .. 2 |-> 0]
Copies(ops, nuls) == [op : ops, va : 0 .. 6, len : 0 .. 5, pt : PageTables, nuls : nuls]
Calls == Copies({"copyout", "copyin"}, {{}}) \cup Copies({"copyinstr"}, {{z} : z \in 0 .. 6})
   \cup [op : {"memmove", "umemmove"}, va : 0 .. 5, len : 0 .. 5, pt : {NoPages}, nuls : {{}}]
   \cup [op : {"path"}, va : {0}, len : {0}, pt : {NoPages}, nuls : {{}},
         path : BoundedSeq({"a", "b", "/"}, 5)]
Str == INSTANCE Strings WITH PGSIZE <- 2, DIRSIZ <- 2, MaxLen <- 5, Calls <- Calls, call <- x1,
         mem <- x2, kbuf <- x3, va <- x4, left <- x5, ret <- x6

Arguments == BoundedSeq({0, 3, 6, 15, 16}, 4)   \* the lengths of up to four strings
Arg == INSTANCE ExecArgs WITH MAXARG <- 4, PGSIZE <- 16, ALIGN <- 4, PTR <- 2, StackBase <- 32,
         Arguments <- Arguments, at <- x1, uargv <- x2, argv <- x3, sp <- x4, ustack <- x5,
         ret <- x6

(* Two programs that take turns on a CPU; a program that moves between two.   *)
Tr1 == INSTANCE Traps WITH CPUs <- {c1}, Threads <- {p1, p2}, cpu <- x1, frame <- x2,
         stack <- x3, context <- x4, user <- x5, kernel <- x6
Tr2 == INSTANCE Traps WITH CPUs <- {c1, c2}, Threads <- {p1}, cpu <- x1, frame <- x2,
         stack <- x3, context <- x4, user <- x5, kernel <- x6

(* Formats of up to two pieces, and a % at the end.                           *)
Piece(text, takes, k, s) == [text |-> text, takes |-> takes, n |-> k, s |-> s]
InBoth == {
  Piece(<<"a">>, FALSE, 0, <<"a">>), Piece(<<"%", "%">>, FALSE, 0, <<"%">>),
  Piece(<<"%", "q">>, FALSE, 0, <<"%", "q">>), Piece(<<"%", "s">>, TRUE, 0, <<"%", "d">>),
  Piece(<<"%", "s">>, TRUE, 0, <<"null">>), Piece(<<"%", "d">>, TRUE, 10, <<"1", "0">>),
  Piece(<<"%", "d">>, TRUE, -128, <<"-", "1", "2", "8">>)}
InKernel == InBoth \cup {
  Piece(<<"%", "x">>, TRUE, -11, <<"-", "b">>), Piece(<<"%", "l">>, FALSE, 0, <<"%", "l">>),
  Piece(<<"%", "p">>, TRUE, -11, <<"0", "x", "f", "5">>)}
InUser == InBoth \cup {
  Piece(<<"%", "x">>, TRUE, -11, <<"F", "5">>), Piece(<<"%", "l">>, TRUE, 261, <<"5">>),
  Piece(<<"%", "c">>, TRUE, 0, <<"c">>), Piece(<<"%", "p">>, TRUE, 11, <<"0", "x", "0", "B">>)}
Ends == {<<>>, <<Piece(<<"%">>, FALSE, 0, <<>>)>>}
Formats(who, pieces) == {[who |-> who, pieces |-> p \o e] : p \in BoundedSeq(pieces, 2), e \in Ends}
Fmt == INSTANCE Format WITH BITS <- 8, call <- x1, i <- x2, state <- x3, ap <- x4, out <- x5,
         Calls <- Formats("kernel", InKernel) \cup Formats("user", InUser)

Cmd == INSTANCE Command WITH Strings <- {p1, p2, p3}, Commands <- {c1, c2}, MaxQueues <- 4,
         live <- x1, mine <- x2, comm <- x3, in <- x4, out <- x5, pipe <- x6, waiting <- x7,
         queues <- x8, dead <- x9, twice <- x10

Hrt == INSTANCE Harts WITH Others <- {1}, Irqs <- {p1, p2}, MaxWork <- 2, MaxTimes <- 2, pc <- x1,
         step <- x2, started <- x3, ready <- x4, own <- x5, work <- x6, pending <- x7,
         claimed <- x8, irq <- x9, sip <- x10, fired <- x11, ticks <- x12

-----------------------------------------------------------------------------
(* The variables a part of n variables does not have.                         *)
NoMore(n) ==
  /\ IF n > 0  THEN TRUE ELSE x1 = 0 /\ x2 = 0 /\ x3 = 0 /\ x4 = 0 /\ x5 = 0
  /\ IF n > 5  THEN TRUE ELSE x6 = 0
  /\ IF n > 6  THEN TRUE ELSE x7 = 0 /\ x8 = 0
  /\ IF n > 8  THEN TRUE ELSE x9 = 0
  /\ IF n > 9  THEN TRUE ELSE x10 = 0
  /\ IF n > 10 THEN TRUE ELSE x11 = 0
  /\ IF n > 11 THEN TRUE ELSE x12 = 0 /\ x13 = 0
  /\ IF n > 13 THEN TRUE ELSE x14 = 0
  /\ IF n > 14 THEN TRUE ELSE x15 = 0 /\ x16 = 0 /\ x17 = 0 /\ x18 = 0 /\ x19 = 0 /\ x20 = 0
Rest(n) ==
  /\ IF n > 5  THEN TRUE ELSE UNCHANGED x6
  /\ IF n > 6  THEN TRUE ELSE UNCHANGED <<x7, x8>>
  /\ IF n > 8  THEN TRUE ELSE UNCHANGED x9
  /\ IF n > 9  THEN TRUE ELSE UNCHANGED x10
  /\ IF n > 10 THEN TRUE ELSE UNCHANGED x11
  /\ IF n > 11 THEN TRUE ELSE UNCHANGED <<x12, x13>>
  /\ IF n > 13 THEN TRUE ELSE UNCHANGED x14
  /\ IF n > 14 THEN TRUE ELSE UNCHANGED <<x15, x16, x17, x18, x19, x20>>

GamesNext == GameNext \/ ((\A g \in Games : Over(g)) /\ UNCHANGED pingpongVars)
(* A panic stops every CPU; a client of mybash's commands has what is bounded. *)
AllStopped == panicked /\ \A c \in PrintCPUs : saying[c] \in {"acquire", "frozen", "stopped"}
LinesNext == PrintNext \/ (AllStopped /\ UNCHANGED printfVars)
CmdNext == Cmd!Next \/ (x9 = 4 /\ UNCHANGED <<x1, x2, x3, x4, x5, x6, x7, x8, x9, x10>>)

(* What the parts with variables of their own begin with, elsewhere too.      *)
OwnInit ==
  /\ SpinInit /\ GameInit /\ PrintInit /\ ConsInit /\ UartInit /\ ClockInit /\ BlocksInit
  /\ SchedInit /\ (part # "sched" => state = [p \in Procs |-> "out"])
  /\ (part # "kalloc" => freelist = p1 /\ word = (p1 :> p2 @@ p2 :> p3 @@ p3 :> Nil)) /\ KallocInit

Init ==
  /\ \/ /\ part \in {"spinlock", "games", "sched", "printf", "kalloc", "console", "uart",
                    "clock", "blocks"}
        /\ NoMore(0)
     \/ part = "disk"      /\ Dsk!AloneInit  /\ NoMore(20)
     \/ part = "memory"    /\ Mem!Init  /\ NoMore(13)
     \/ part = "heap"      /\ Heap!Init /\ NoMore(6)
     \/ part = "shell"     /\ Bash!Init /\ NoMore(14)
     \/ part = "sh"        /\ Xsh!Init  /\ NoMore(10)
     \/ part = "grep"      /\ Grp!Init  /\ NoMore(6)
     \/ part = "mkfs"      /\ Mk!Init   /\ NoMore(5)
     \/ part = "strings"   /\ Str!Init  /\ NoMore(6)
     \/ part = "args"      /\ Arg!Init  /\ NoMore(6)
     \/ part = "traps1"    /\ Tr1!Init  /\ NoMore(6)
     \/ part = "traps2"    /\ Tr2!Init  /\ NoMore(6)
     \/ part = "format"    /\ Fmt!Init /\ NoMore(5)
     \/ part = "command"   /\ Cmd!Init /\ NoMore(10)
     \/ part = "harts"     /\ Hrt!Init /\ NoMore(13) /\ x13 = 0
  /\ OwnInit

OwnNext ==
  /\ \/ part = "spinlock" /\ SpinNext
     \/ part = "games"    /\ GamesNext
     \/ part = "sched"    /\ SchedNext
     \/ part = "printf"   /\ LinesNext
     \/ part = "kalloc"   /\ KallocNext
     \/ part = "console"  /\ ConsNext
     \/ part = "uart"     /\ UartNext
     \/ part = "clock"    /\ ClockNext
     \/ part = "blocks"   /\ BlocksNext
  /\ part # "spinlock" => UNCHANGED spinVars
  /\ part # "games"    => UNCHANGED pingpongVars
  /\ part # "sched"    => UNCHANGED schedVars
  /\ part # "printf"   => UNCHANGED printfVars
  /\ part # "kalloc"   => UNCHANGED kallocVars
  /\ part # "console"  => UNCHANGED consVars
  /\ part # "uart"     => UNCHANGED uartVars
  /\ part # "clock"    => UNCHANGED clockVars
  /\ part # "blocks"   => UNCHANGED blockVars
XNext ==
  \/ part = "disk"      /\ Dsk!AloneNext  /\ Rest(20)
  \/ part = "memory"    /\ Mem!Next  /\ Rest(13)
  \/ part = "heap"      /\ Heap!Next /\ Rest(6)
  \/ part = "shell"     /\ Bash!Next /\ Rest(14)
  \/ part = "sh"        /\ Xsh!Next  /\ Rest(10)
  \/ part = "grep"      /\ Grp!Next  /\ Rest(6)
  \/ part = "mkfs"      /\ Mk!Next   /\ Rest(5)
  \/ part = "strings"   /\ Str!Next  /\ Rest(6)
  \/ part = "args"      /\ Arg!Next  /\ Rest(6)
  \/ part = "traps1"    /\ Tr1!Next  /\ Rest(6)
  \/ part = "traps2"    /\ Tr2!Next  /\ Rest(6)
  \/ part = "format"    /\ Fmt!Next /\ Rest(5)
  \/ part = "command"   /\ CmdNext  /\ Rest(10)
  \/ part = "harts"     /\ Hrt!Next /\ Rest(13) /\ UNCHANGED x13
Next ==
  /\ UNCHANGED part
  /\ \/ OwnNext /\ UNCHANGED xVars
     \/ XNext /\ UNCHANGED ownVars
Spec == Init /\ [][Next]_vars

-----------------------------------------------------------------------------
(* PROPERTY: mybash connects the commands of a pipeline and nothing else,     *)
(* waits for those in the foreground, and owns each string and command once;  *)
(* sh parses a line as its grammar says, gives every command of it the right  *)
(* files at the right time and ends, and init keeps one shell (execute.c,     *)
(* command.c, sh.c, init.c).                                                  *)
ShellsRight ==
  /\ part = "shell" => Bash!Neighbours /\ Bash!ForegroundOver
  /\ part = "command" => Cmd!OneOwner /\ Cmd!TextRight
  /\ part = "sh" => /\ Xsh!ParseRight /\ Xsh!Wired /\ Xsh!InSequence
                   /\ Xsh!LineGoesOn /\ Xsh!OneShell

(* PROPERTY: a program and a kernel thread go on after a trap as if it had    *)
(* not been, on whatever CPU; harts start after hart 0 is ready, an interrupt *)
(* has one handler and a tick is counted once; that of the disk forgets no    *)
(* request and no descriptor (trap.c, trampoline.S, kernelvec.S, main.c,      *)
(* plic.c, virtio_disk.c:312).                                                *)
TrapsRight ==
  /\ part = "traps1" => Tr1!ProgramsGoOn /\ Tr1!KernelGoesOn /\ Tr1!HartRight /\ Tr1!TrapsRight
  /\ part = "traps2" => Tr2!ProgramsGoOn /\ Tr2!KernelGoesOn /\ Tr2!HartRight /\ Tr2!TrapsRight
  /\ part = "harts" => Hrt!BootOrder /\ Hrt!OneHandler /\ Hrt!TicksRight
  /\ part = "disk" => Dsk!DriverRight /\ Dsk!DescriptorsFreed

(* PROPERTY: sequential code computes what it says it does: both printf()s,   *)
(* atoi(), copies over pages, memmove(), path elements, the stack of exec(),  *)
(* grep's matches, the image of mkfs; and every page of a space and word of a *)
(* heap is free or somebody's, and not both, whatever fails on the way        *)
(* (printf.c, vm.c, string.c, fs.c:583, exec.c, grep.c, mkfs.c, umalloc.c).   *)
ResultsRight ==
  /\ part = "grep" => Grp!LinesRight
  /\ part = "strings" => Str!CopyRight /\ Str!MoveRight /\ Str!PathRight
  /\ part = "args" => Arg!ArgsRight
  /\ part = "format" => Fmt!NumbersRight /\ Fmt!FormatRight
  /\ part = "mkfs" => Mk!ImageRight /\ Mk!BitmapRight
  /\ part = "heap" => Heap!HeapIsBlocks /\ Heap!Ring
  /\ part = "memory" => Mem!PagesAccounted /\ Mem!NoPanic /\ Mem!SizeIsMapped
=============================================================================
