-------------------------------- MODULE Shell --------------------------------
(***************************************************************************)
(* mybash: parse_pipeline() (lab1/parsing.c) reads a line, execute_pipeline() *)
(* (lab1/execute.c) makes the pipes and forks a child for every command,   *)
(* in the background or not.  The lexer is a library of the course: here,  *)
(* what comes next in the line is decided when it is read.  Of a pipe, who *)
(* has which end open; of a program, whether it reads its input to the end.*)
(***************************************************************************)
EXTENDS Integers, Sequences, FiniteSets

CONSTANTS MaxCmds, MaxTokens,   \* bound: commands, and tokens, of a line; two
                                \* commands while another pipeline runs
          Jobs,                 \* bound: pipelines that still run, or failed
          None

Tokens == {"word", "in", "out", "bare", "|", "&", "end"}  \* "bare": < or > without a name
Shell  == <<0, 0>>   \* a child is <<job, k>>
Pos    == 1 .. MaxCmds

VARIABLES shell,      \* the statement mybash is at
          ahead,      \* the next token
          ntok,       \* bound: tokens of this line
          cmd, cmds,  \* of parse_scommand(); the queue of the pipeline
          wait,       \* pipeline_get_wait()
          job, i,     \* the pipeline being executed, and the loop's variable
          ignored,    \* SIGCHLD is ignored
          ends,       \* the open ends of pipes, <<who, <<job, k>>, end>>
          child,      \* the state of the k-th child of a pipeline
          redir,      \* its redirections
          fg, failed  \* ghosts, of pipelines: in the foreground; a fork() failed

parseVars == <<ahead, ntok, cmd, cmds, wait>>
jobVars   == <<job, i, ignored, ends, child, redir, fg, failed>>
shellVars == <<shell, parseVars, jobVars>>

Empty == {}   \* a command is the set of what was given: "word", "in", "out"
Init ==
  /\ shell = "prompt" /\ ahead = "end" /\ ntok = 0 /\ cmd = Empty /\ cmds = <<>> /\ wait = TRUE
  /\ job = None /\ i = 0 /\ ignored = FALSE /\ ends = {}
  /\ child = [j \in Jobs |-> [k \in Pos |-> "none"]] /\ redir = [j \in Jobs |-> [k \in Pos |-> Empty]]
  /\ fg = [j \in Jobs |-> FALSE] /\ failed = [j \in Jobs |-> FALSE]

Busy(j) == (\E k \in Pos : child[j][k] \notin {"none", "gone"}) \/ (\E e \in ends : e[2][1] = j)
Free    == {j \in Jobs : ~Busy(j)}

-----------------------------------------------------------------------------
(* The lexer shows the next token.                                            *)
Last == Len(cmds') + 1 >= IF Free = Jobs THEN MaxCmds ELSE 2
Look == /\ ntok' = ntok + 1
        /\ ahead' \in IF ntok >= MaxTokens THEN {"&", "end"} ELSE Tokens \ (IF Last THEN {"|"} ELSE {})

Prompt ==
  /\ shell = "prompt" /\ Free # {} /\ shell' = "args"
  /\ UNCHANGED <<cmd, cmds, wait, jobVars>> /\ Look

(* parse_scommand(): an argument, a redirection, or one without its name.     *)
Argument ==
  /\ shell = "args" /\ ahead \in {"word", "in", "out"} /\ cmd' = cmd \cup {ahead}
  /\ UNCHANGED <<shell, cmds, wait, jobVars>> /\ Look
NoName ==
  /\ shell = "args" /\ ahead = "bare" /\ shell' = "error"
  /\ UNCHANGED <<cmd, cmds, wait, jobVars>> /\ Look

(* The command joins the pipeline, and "|" announces another.                 *)
PushBack ==
  /\ shell = "args" /\ ahead \in {"|", "&", "end"}
  /\ cmds' = Append(cmds, cmd) /\ cmd' = Empty
  /\ IF ahead = "|" THEN shell' = "args" /\ Look
     ELSE shell' = "background" /\ UNCHANGED <<ahead, ntok>>
  /\ UNCHANGED <<wait, jobVars>>

Nothing == Len(cmds) = 1 /\ "word" \notin cmds[1]   \* scommand_length()
Again   == /\ shell' = "prompt" /\ ahead' = "end" /\ ntok' = 0 /\ cmd' = Empty /\ cmds' = <<>> /\ wait' = TRUE
Destroyed == shell = "error" \/ Nothing

(* parser_op_background(), the checks, and parser_garbage().  Garbage after   *)
(* what was destroyed already: pipeline_destroy(NULL), and its assertion.     *)
LineEnd ==
  /\ shell \in {"error", "background"}
  /\ \E garbage \in IF ahead = "&" THEN BOOLEAN ELSE {ahead # "end"} :
       \/ /\ garbage /\ Destroyed /\ shell' = "aborted"
          /\ UNCHANGED parseVars
       \/ garbage # Destroyed /\ Again
       \/ /\ ~garbage /\ ~Destroyed
          /\ shell' = "run" /\ wait' = (ahead # "&")
          /\ UNCHANGED <<ahead, ntok, cmd, cmds>>
  /\ UNCHANGED jobVars

-----------------------------------------------------------------------------
(* execute_pipeline(): a builtin alone, exit or one that returns.             *)
Builtin ==
  /\ shell = "run" /\ Len(cmds) = 1 /\ "word" \in cmds[1]
  /\ \/ Again /\ UNCHANGED jobVars
     \/ /\ shell' = "exited" /\ ends' = {e \in ends : e[1] # Shell}
        /\ UNCHANGED <<parseVars, job, i, ignored, child, redir, fg, failed>>

Ignore(w) == ignored \/ ~w
Start ==
  /\ shell = "run" /\ shell' = "pipe" /\ i' = 1 /\ ignored' = Ignore(wait)
  /\ \E j \in Free : /\ \A j2 \in Free : j <= j2
                     /\ job' = j /\ fg' = [fg EXCEPT ![j] = wait]
                     /\ child' = [child EXCEPT ![j] = [k \in Pos |-> "none"]]
                     /\ failed' = [failed EXCEPT ![j] = FALSE]
  /\ cmds' = [k \in DOMAIN cmds |-> cmds[k] \ {"word"}] /\ ahead' = "end" /\ ntok' = 0
  /\ UNCHANGED <<cmd, wait, ends, redir>>

BothEnds(who, k) == {<<who, <<job, k>>, "r">>, <<who, <<job, k>>, "w">>}
n == Len(cmds)

Pipe ==
  /\ shell = "pipe" /\ shell' = "fork"
  /\ ends' = ends \cup IF i # n THEN BothEnds(Shell, i) ELSE {}
  /\ UNCHANGED <<parseVars, job, i, ignored, child, redir, fg, failed>>

Fork ==
  /\ shell = "fork" /\ shell' = "close"
  /\ child' = [child EXCEPT ![job][i] = "forked"]
  /\ redir' = [redir EXCEPT ![job][i] = cmds[i]]
  /\ ends' = ends \cup {<<<<job, i>>, e[2], e[3]>> : e \in {e \in ends : e[1] = Shell}}
  /\ UNCHANGED <<parseVars, job, i, ignored, fg, failed>>

(* Nothing that was made is undone.  Bound: one fork() fails.                 *)
ForkFails ==
  /\ shell = "fork" /\ (\A j \in Jobs : ~failed[j]) /\ Again
  /\ failed' = [failed EXCEPT ![job] = TRUE] /\ job' = None /\ i' = 0
  /\ UNCHANGED <<ignored, ends, child, redir, fg>>

(* Mutant: the parent keeps the writing end.                                  *)
CloseRead(k) == {<<Shell, <<job, k>>, "r">>}

CloseBoth(k) == BothEnds(Shell, k)
Close ==
  /\ shell = "close" /\ ends' = ends \ CloseBoth(i - 1)
  /\ \/ i < n /\ shell' = "pipe" /\ i' = i + 1 /\ UNCHANGED <<parseVars, job>>
     \/ i = n /\ wait /\ shell' = "wait" /\ i' = 1 /\ UNCHANGED <<parseVars, job>>
     \/ i = n /\ ~wait /\ Again /\ job' = None /\ i' = 0
  /\ UNCHANGED <<ignored, child, redir, fg, failed>>

(* Mutant: the loop ends before the last child.                               *)
ButLast == i + 1 >= n

AllWaited == i = n
WaitPid ==
  /\ shell = "wait" /\ child[job][i] \in {"zombie", "gone"}
  /\ child' = [child EXCEPT ![job][i] = "gone"]
  /\ IF AllWaited THEN Again /\ job' = None /\ i' = 0
     ELSE i' = i + 1 /\ UNCHANGED <<shell, parseVars, job>>
  /\ UNCHANGED <<ignored, ends, redir, fg, failed>>

-----------------------------------------------------------------------------
(* A child closes and duplicates, redirects, and executes its program; or it  *)
(* exits, when a file does not open or there is no program.                   *)
Input(c)   == <<c[1], c[2] - 1>>
Mine(c)    == {e \in ends : e[1] = c}
Dead(c)    == [child EXCEPT ![c[1]][c[2]] = IF ignored THEN "gone" ELSE "zombie"]

(* Mutant: a child in the middle keeps the writing end of its input.          *)
KeepsPrev(c) == {e \in Mine(c) : e[2] = c => e[3] = "w" /\ "out" \notin redir[c[1]][c[2]]}

Kept(c) == {e \in Mine(c) : /\ e[2] = Input(c) => e[3] = "r" /\ "in" \notin redir[c[1]][c[2]]
                            /\ e[2] = c                  => e[3] = "w" /\ "out" \notin redir[c[1]][c[2]]}
Reads(c) == <<c, Input(c), "r">> \in Kept(c)
Execute(c) ==
  /\ child[c[1]][c[2]] = "forked"
  /\ \/ /\ ends' = (ends \ Mine(c)) \cup Kept(c)
        /\ \E prog \in {"any"} \cup (IF Reads(c) THEN {"filter"} ELSE {}) : child' = [child EXCEPT ![c[1]][c[2]] = prog]
     \/ ends' = ends \ Mine(c) /\ child' = Dead(c)
  /\ redir' = [redir EXCEPT ![c[1]][c[2]] = Empty]
  /\ UNCHANGED <<shell, parseVars, job, i, ignored, fg, failed>>

(* The program exits: one that filters a pipe, at its end.                    *)
AtEnd(c) == ~\E e \in ends : e[2] = Input(c) /\ e[3] = "w"
Exit(c) ==
  /\ child[c[1]][c[2]] = "any" \/ (child[c[1]][c[2]] = "filter" /\ AtEnd(c))
  /\ ends' = ends \ Mine(c) /\ child' = Dead(c)
  /\ UNCHANGED <<shell, parseVars, job, i, ignored, redir, fg, failed>>

(* mybash is over, or at the bound of Jobs.                                   *)
Over == /\ shell \in {"exited", "aborted"} \/ (shell = "prompt" /\ Free = {})
        /\ UNCHANGED shellVars

Next == \/ Prompt \/ Argument \/ NoName \/ PushBack \/ LineEnd
        \/ Builtin \/ Start \/ Pipe \/ Fork \/ ForkFails \/ Close \/ WaitPid
        \/ \E c \in Jobs \X Pos : Execute(c) \/ Exit(c)
        \/ Over

Spec == Init /\ [][Next]_shellVars

-----------------------------------------------------------------------------
(* Of the pipe between two commands, no one but they has an end, once the     *)
(* shell is out of the loop that makes them and they execute their programs:  *)
(* the reader sees the end of its input when the writer exits, and the writer *)
(* a broken pipe when the reader does.  A fork() that fails, after which the  *)
(* shell keeps both ends, spoils only its own pipeline.                       *)
Settled(j) == (job = j => shell \notin {"pipe", "fork", "close"}) /\ ~failed[j]
                /\ \A k \in Pos : child[j][k] # "forked"
Neighbours == \A j \in Jobs : Settled(j) =>
  \A e \in ends : e[2][1] = j => \/ e[1] = e[2] /\ e[3] = "w"
                                 \/ e[1] = <<j, e[2][2] + 1>> /\ e[3] = "r"

(* At the prompt every child of a pipeline that ran in the foreground is      *)
(* dead, and no child is a zombie: the ones in the background never are.      *)
ForegroundOver == shell = "prompt" => \A j \in Jobs, k \in Pos :
  /\ child[j][k] = "zombie" => failed[j]
  /\ fg[j] /\ ~failed[j] => child[j][k] \in {"none", "gone"}

(* parse_pipeline() returns a pipeline, or NULL in case of error.             *)
NeverAborts == shell # "aborted"
=============================================================================
