-------------------------------- MODULE Grep ---------------------------------
(***************************************************************************)
(* grep (lab2/user/grep.c): a matcher of regular expressions with ^ . * $  *)
(* and a loop that reads a file, in pieces of any size, into a buffer of   *)
(* BUF characters and prints the lines that match.                         *)
(***************************************************************************)
EXTENDS Integers, Sequences, FiniteSetsExt, SequencesExt

CONSTANTS Patterns, Files,   \* bound: what is looked for, in files that say what
          BUF                \* sizeof(buf)

NL == "\n"

VARIABLES pattern, file,   \* the arguments: one file
          togo, buf,       \* what read() has not given yet, what is in the buffer
          printed,         \* the lines written
          over             \* grep() has returned
vars == <<pattern, file, togo, buf, printed, over>>

Init == /\ pattern \in Patterns /\ file \in Files /\ togo = file
        /\ buf = <<>> /\ printed = <<>> /\ over = FALSE

-----------------------------------------------------------------------------
RECURSIVE matchhere(_, _), matchstar(_, _, _)

(* Search for re at the beginning of text.                                    *)
matchhere(re, text) ==
  CASE re = <<>> -> TRUE
    [] Len(re) > 1 /\ re[2] = "*" -> matchstar(re[1], SubSeq(re, 3, Len(re)), text)
    [] re = <<"$">> -> text = <<>>
    [] OTHER -> text # <<>> /\ re[1] \in {".", text[1]} /\ matchhere(Tail(re), Tail(text))

(* Search for c*re at the beginning of text.                                  *)
matchstar(c, re, text) ==
  \/ matchhere(re, text)
  \/ text # <<>> /\ c \in {".", text[1]} /\ matchstar(c, re, Tail(text))

match(re, text) ==
  IF re # <<>> /\ re[1] = "^" THEN matchhere(Tail(re), text)
  ELSE \E i \in 0 .. Len(text) : matchhere(re, SubSeq(text, i + 1, Len(text)))

-----------------------------------------------------------------------------
(* The complete lines of s, and what follows the last of them.                *)
Ends(s)  == {i \in DOMAIN s : s[i] = NL}
Lines(s) == LET ends == <<0>> \o SetToSortSeq(Ends(s), <)
            IN [k \in 1 .. Len(ends) - 1 |-> SubSeq(s, ends[k] + 1, ends[k + 1] - 1)]
Rest(s)  == SubSeq(s, Max(Ends(s) \cup {0}) + 1, Len(s))

(* read() gives k characters; their lines are looked at, the rest is kept.    *)
Read(k) ==
  /\ ~over /\ k <= BUF - Len(buf) - 1
  /\ LET text == buf \o SubSeq(togo, 1, k)
     IN /\ printed' = printed \o SelectSeq(Lines(text), LAMBDA l : match(pattern, l))
        /\ buf' = Rest(text)
  /\ togo' = SubSeq(togo, k + 1, Len(togo))
  /\ UNCHANGED <<pattern, file, over>>

(* read() gives nothing: the file is over, or nothing more fits the buffer.   *)
End ==
  /\ ~over /\ (togo = <<>> \/ Len(buf) = BUF - 1)
  /\ over' = TRUE /\ UNCHANGED <<pattern, file, togo, buf, printed>>

Next == (\E k \in 1 .. Len(togo) : Read(k)) \/ End \/ (over /\ UNCHANGED vars)
Spec == Init /\ [][Next]_vars

-----------------------------------------------------------------------------
(* What a regular expression means: a sequence of items, each a character     *)
(* with or without a star; ^ first and $ last hold the ends of the text.      *)
Anchored(re) == re # <<>> /\ re[1] = "^"
Body(re)     == IF Anchored(re) THEN Tail(re) ELSE re
Starts(re)   == LET star[i \in Nat] == i > 1 /\ i <= Len(re) /\ re[i] = "*" /\ ~star[i - 1]
                IN {i \in DOMAIN re : ~star[i]}
Items(re)    == LET b == Body(re)
                    first == SetToSortSeq(Starts(b), <)
                IN [k \in DOMAIN first |-> <<b[first[k]], first[k] + 1 \in DOMAIN b \ Starts(b)>>]
Held(re)     == Items(re) # <<>> /\ Last(Items(re)) = <<"$", FALSE>>
Fits(item, piece) ==
  /\ item[2] \/ Len(piece) = 1
  /\ \A i \in DOMAIN piece : item[1] \in {".", piece[i]}
Matches(re, text) ==
  LET items == IF Held(re) THEN Front(Items(re)) ELSE Items(re)
      Cuts  == {c \in [0 .. Len(items) -> 0 .. Len(text)] :
                  \A k \in DOMAIN items : c[k - 1] <= c[k]}
  IN \E c \in Cuts :
       /\ Anchored(re) => c[0] = 0
       /\ Held(re) => c[Len(items)] = Len(text)
       /\ \A k \in DOMAIN items : Fits(items[k], SubSeq(text, c[k - 1] + 1, c[k]))

(* Of a file, grep looks at its lines up to the first that does not fit the   *)
(* buffer; text that no newline ends is never printed.                        *)
Fitting == LET all  == Lines(file)
               long == {k \in DOMAIN all : Len(all[k]) >= BUF - 1}
           IN SubSeq(all, 1, Min(long \cup {Len(all) + 1}) - 1)

(* PROPERTY: whatever pieces read() gives, grep prints the lines that match,  *)
(* in order, each once and whole: all of them that come before a line too     *)
(* long for the buffer.                                                       *)
LinesRight ==
  LET expected == SelectSeq(Fitting, LAMBDA l : Matches(pattern, l))
  IN IF over THEN printed = expected ELSE IsPrefix(printed, expected)
=============================================================================
