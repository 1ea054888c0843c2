------------------------------- MODULE Command -------------------------------
(***************************************************************************)
(* Commands and pipelines of mybash (lab1/command.c), and who owns their   *)
(* memory: a client builds, changes, prints and destroys a pipeline. A     *)
(* string is an address; a command owns a queue of strings and two more.   *)
(***************************************************************************)
EXTENDS Integers, Sequences, FiniteSets
LOCAL INSTANCE SequencesExt

CONSTANTS Strings, Commands,  \* addresses malloc() gives
          None,
          MaxQueues           \* bound on the GQueues that are allocated

VARIABLES live,       \* addresses that are allocated
          mine,       \* those the client owns
          comm, in, out,
          pipe, waiting,   \* the pipeline, None if there is none
          queues,     \* GQueues that are allocated
          dead,       \* pipelines that were destroyed
          twice       \* an address was freed that was not allocated
commandVars == <<live, mine, comm, in, out, pipe, waiting, queues, dead, twice>>

Init ==
  /\ live = {} /\ mine = {} /\ comm = [c \in Commands |-> <<>>]
  /\ in = [c \in Commands |-> None] /\ out = [c \in Commands |-> None]
  /\ pipe = None /\ waiting = TRUE /\ queues = 0 /\ dead = 0 /\ twice = FALSE

Some(x) == {x} \ {None}
Inside(c) == Range(comm[c]) \cup Some(in[c]) \cup Some(out[c])

(* free() of what the pointers lead to; free(NULL) does nothing. What was in  *)
(* a command is gone with it.                                                 *)
Free(addrs) == live' = live \ addrs /\ twice' = (twice \/ ~(addrs \subseteq live))
FreeAll(cs) ==
  /\ Free(cs \cup UNION {Inside(c) : c \in cs})
  /\ comm' = [c \in Commands |-> IF c \in cs THEN <<>> ELSE comm[c]]
  /\ in' = [c \in Commands |-> IF c \in cs THEN None ELSE in[c]]
  /\ out' = [c \in Commands |-> IF c \in cs THEN None ELSE out[c]]

-----------------------------------------------------------------------------
(* The client has a string; a command it may change is its own, or one of     *)
(* the pipeline.                                                              *)
strdup(s) ==
  /\ s \in Strings \ live /\ live' = live \cup {s} /\ mine' = mine \cup {s}
  /\ UNCHANGED <<comm, in, out, pipe, waiting, queues, dead, twice>>
Usable(c) == c \in mine \/ (pipe # None /\ c \in Range(pipe))

scommand_new(c) ==
  /\ c \in Commands \ live /\ queues < MaxQueues /\ queues' = queues + 1
  /\ live' = live \cup {c} /\ mine' = mine \cup {c} /\ UNCHANGED <<comm, in, out, pipe, waiting, dead, twice>>
scommand_destroy(c) ==
  /\ c \in mine /\ FreeAll({c}) /\ queues' = queues - 1 /\ mine' = mine \ {c}
  /\ UNCHANGED <<pipe, waiting, dead>>
scommand_push_back(c, s) ==
  /\ Usable(c) /\ s \in mine /\ comm' = [comm EXCEPT ![c] = Append(@, s)] /\ mine' = mine \ {s}
  /\ UNCHANGED <<live, in, out, pipe, waiting, queues, dead, twice>>
scommand_pop_front(c) ==
  /\ Usable(c) /\ comm[c] # <<>> /\ Free({Head(comm[c])}) /\ comm' = [comm EXCEPT ![c] = Tail(@)]
  /\ UNCHANGED <<mine, in, out, pipe, waiting, queues, dead>>

(* The redirection there was is freed.                                        *)
scommand_set_redir_in(c, s) ==
  /\ Usable(c) /\ s \in (mine \cap Strings) \cup {None} /\ Free(Some(in[c]))
  /\ in' = [in EXCEPT ![c] = s] /\ mine' = mine \ {s}
  /\ UNCHANGED <<comm, out, pipe, waiting, queues, dead>>
scommand_set_redir_out(c, s) ==
  /\ Usable(c) /\ s \in (mine \cap Strings) \cup {None} /\ Free(Some(out[c]))
  /\ out' = [out EXCEPT ![c] = s] /\ mine' = mine \ {s}
  /\ UNCHANGED <<comm, in, pipe, waiting, queues, dead>>

-----------------------------------------------------------------------------
(* Pipelines. pipeline_destroy() frees its commands, and no GQueue but theirs. *)
pipeline_new ==
  /\ pipe = None /\ queues < MaxQueues /\ queues' = queues + 1 /\ pipe' = <<>> /\ waiting' = TRUE
  /\ UNCHANGED <<live, mine, comm, in, out, dead, twice>>
pipeline_destroy ==
  /\ pipe # None /\ FreeAll(Range(pipe)) /\ pipe' = None
  /\ queues' = queues - Len(pipe) /\ dead' = dead + 1
  /\ UNCHANGED <<mine, waiting>>
pipeline_push_back(c) ==
  /\ pipe # None /\ c \in mine \cap Commands /\ pipe' = Append(pipe, c) /\ mine' = mine \ {c}
  /\ UNCHANGED <<live, comm, in, out, waiting, queues, dead, twice>>
pipeline_pop_front ==
  /\ pipe # None /\ pipe # <<>> /\ FreeAll({Head(pipe)})
  /\ pipe' = Tail(pipe) /\ queues' = queues - 1
  /\ UNCHANGED <<mine, waiting, dead>>
pipeline_set_wait(w) ==
  /\ pipe # None /\ waiting' = w
  /\ UNCHANGED <<live, mine, comm, in, out, pipe, queues, dead, twice>>

(* to_string(): a space, or a bar, after every part but the last.             *)
Between(i, length)   == i < length
Joined(parts, sep) ==
  FoldLeftDomain(LAMBDA result, i : result \o parts[i] \o
                   (IF Between(i, Len(parts)) THEN sep ELSE <<>>), <<>>, parts)
scommand_to_string(c) ==
  Joined([i \in DOMAIN comm[c] |-> <<comm[c][i]>>], <<" ">>)
    \o (IF in[c] = None THEN <<>> ELSE <<"<", in[c]>>)
    \o (IF out[c] = None THEN <<>> ELSE <<">", out[c]>>)
pipeline_to_string ==
  Joined([i \in DOMAIN pipe |-> scommand_to_string(pipe[i])], <<"|">>)
    \o (IF waiting THEN <<>> ELSE <<"&">>)

Next ==
  \/ \E s \in Strings : strdup(s)
  \/ \E c \in Commands :
       \/ scommand_new(c) \/ scommand_destroy(c) \/ scommand_pop_front(c) \/ pipeline_push_back(c)
       \/ \E s \in Strings : scommand_push_back(c, s)
       \/ \E s \in Strings \cup {None} : scommand_set_redir_in(c, s) \/ scommand_set_redir_out(c, s)
  \/ pipeline_new \/ pipeline_destroy \/ pipeline_pop_front
  \/ \E w \in BOOLEAN : pipeline_set_wait(w)
Spec == Init /\ [][Next]_commandVars

-----------------------------------------------------------------------------
(* PROPERTY: what is allocated has one owner, the client, a place in a        *)
(* command or a place in the pipeline; nothing is freed twice, or owned when  *)
(* it is not allocated; of the queues, the one of every destroyed pipeline,   *)
(* and no other, stays behind (command.c:220).                                *)
Held == mine \cup (IF pipe = None THEN {} ELSE Range(pipe))
Owners(a) == Cardinality(mine \cap {a})
  + (IF pipe = None THEN 0 ELSE Cardinality({i \in DOMAIN pipe : pipe[i] = a}))
  + Cardinality({<<c, i>> \in (Held \cap Commands) \X (1 .. Cardinality(Strings)) :
                   i \in DOMAIN comm[c] /\ comm[c][i] = a})
  + Cardinality({c \in Held \cap Commands : in[c] = a}) + Cardinality({c \in Held \cap Commands : out[c] = a})
OneOwner ==
  /\ ~twice
  /\ \A a \in Strings \cup Commands : Owners(a) = IF a \in live THEN 1 ELSE 0
  /\ queues = Cardinality(live \cap Commands) + (IF pipe = None THEN 0 ELSE 1) + dead

(* PROPERTY: what to_string() returns reads as the pipeline it was given, its *)
(* commands between bars, their words between spaces.                         *)
Minus1(n) == IF n = 0 THEN 0 ELSE n - 1
TextRight == pipe # None =>
  LET text == pipeline_to_string
      isWord(x) == x \in Strings
      Count(x) == Cardinality({i \in DOMAIN text : text[i] = x})
      words == [i \in DOMAIN pipe |-> comm[pipe[i]] \o
                  SelectSeq(<<in[pipe[i]], out[pipe[i]]>>, LAMBDA s : s # None)]
  IN /\ SelectSeq(text, isWord) = FlattenSeq(words)
     /\ Count("|") = Minus1(Len(pipe)) /\ Count("&") = (IF waiting THEN 0 ELSE 1)
     /\ Count(" ") = FoldLeft(LAMBDA n, c : n + Minus1(Len(comm[c])), 0, pipe)
     /\ \A i \in DOMAIN text : text[i] = " " => i \in 2 .. Len(text) - 1 /\ isWord(text[i - 1])
                                                 /\ isWord(text[i + 1])
=============================================================================
