-------------------------------- MODULE Format --------------------------------
(***************************************************************************)
(* What the printf() of the kernel (lab2/kernel/printf.c) and the one of   *)
(* user programs (lab2/user/printf.c) print, a piece of the format at a    *)
(* time, and atoi() (lab2/user/ulib.c). An int has BITS bits. A piece of a *)
(* format has its text, the argument it takes as a number n or a string s, *)
(* and is to print s; s is <<"null">> for a null pointer.                  *)
(***************************************************************************)
EXTENDS Integers, Sequences
LOCAL INSTANCE SequencesExt

CONSTANTS BITS,
          Calls    \* of a printf(): who, and pieces of text with their arguments

VARIABLES call, i, state, ap, out
formatVars == <<call, i, state, ap, out>>

fmt == FlattenSeq([k \in DOMAIN call.pieces |-> call.pieces[k].text])
args == SelectSeq(call.pieces, LAMBDA p : p.takes)
Arg == args[ap]

Init == call \in Calls /\ i = 1 /\ state = "text" /\ ap = 1 /\ out = <<>>

-----------------------------------------------------------------------------
(* printint(), printptr(): the digits, the last one first, then a sign. An    *)
(* unsigned int holds -xx for every xx.                                       *)
Lower == <<"0", "1", "2", "3", "4", "5", "6", "7", "8", "9", "a", "b", "c", "d", "e", "f">>
Upper == <<"0", "1", "2", "3", "4", "5", "6", "7", "8", "9", "A", "B", "C", "D", "E", "F">>
Uint(xx) == xx % 2 ^ BITS
Digits(x, base, digits) ==
  LET buf[y \in Nat] == <<digits[1 + (y % base)]>> \o (IF y < base THEN <<>> ELSE buf[y \div base])
  IN buf[x]
printint(xx, base, sign, digits) ==
  LET negative == sign /\ xx < 0
  IN Reverse(Digits(Uint(IF negative THEN -xx ELSE xx), base, digits)
             \o (IF negative THEN <<"-">> ELSE <<>>))
printptr(x, digits) ==
  <<"0", "x">> \o [k \in 1 .. BITS \div 4 |-> digits[1 + ((Uint(x) \div 16 ^ (BITS \div 4 - k)) % 16)]]
String(a) == IF a.s = <<"null">> THEN <<"(", "n", "u", "l", "l", ")">> ELSE a.s

(* What a letter after a % prints of the next argument.                       *)
Takes(c) == c \in {"d", "x", "p", "s"} \/ (call.who = "user" /\ c \in {"l", "c"})
Directive(c) ==
  CASE c = "d" -> printint(Arg.n, 10, TRUE, Lower)
    [] c = "x" /\ call.who = "kernel" -> printint(Arg.n, 16, TRUE, Lower)
    [] c = "x" /\ call.who = "user"   -> printint(Arg.n, 16, FALSE, Upper)
    [] c = "l" /\ call.who = "user"   -> printint(Arg.n, 10, FALSE, Upper)
    [] c = "c" /\ call.who = "user"   -> Arg.s
    [] c = "p" -> printptr(Arg.n, IF call.who = "user" THEN Upper ELSE Lower)
    [] c = "s" -> String(Arg)
    [] c = "%" -> <<"%">>
    [] OTHER   -> <<"%", c>>

-----------------------------------------------------------------------------
(* The kernel's printf() looks at two characters at a time; a % at the end    *)
(* prints nothing.                                                            *)
More == i <= Len(fmt)
KernelText ==
  /\ call.who = "kernel" /\ More /\ fmt[i] # "%" /\ out' = Append(out, fmt[i]) /\ i' = i + 1
  /\ UNCHANGED <<call, state, ap>>
KernelDirective ==
  /\ call.who = "kernel" /\ More /\ fmt[i] = "%" /\ UNCHANGED <<call, state>> /\ i' = i + 2
  /\ IF i = Len(fmt) THEN UNCHANGED <<ap, out>>
     ELSE /\ out' = out \o Directive(fmt[i + 1])
          /\ ap' = IF Takes(fmt[i + 1]) THEN ap + 1 ELSE ap

(* vprintf() of user programs has a state.                                    *)
StateAfter(c) == "text"
UserText ==
  /\ call.who = "user" /\ More /\ state = "text" /\ i' = i + 1 /\ UNCHANGED <<call, ap>>
  /\ IF fmt[i] = "%" THEN state' = "directive" /\ UNCHANGED out
     ELSE out' = Append(out, fmt[i]) /\ UNCHANGED state
UserDirective ==
  /\ call.who = "user" /\ More /\ state = "directive" /\ i' = i + 1 /\ state' = StateAfter(fmt[i])
  /\ out' = out \o Directive(fmt[i]) /\ UNCHANGED call
  /\ ap' = IF Takes(fmt[i]) THEN ap + 1 ELSE ap

(* atoi(): up to the first character that is no digit.                        *)
Value(c) == CHOOSE d \in 0 .. 15 : c \in {Lower[d + 1], Upper[d + 1]}
atoi(s) ==
  LET read[k \in Nat] == IF k = 0 THEN 0 ELSE 10 * read[k - 1] + Value(s[k])
      end == CHOOSE k \in 0 .. Len(s) : /\ \A j \in 1 .. k : s[j] \in Range(SubSeq(Lower, 1, 10))
                                        /\ k < Len(s) => s[k + 1] \notin Range(SubSeq(Lower, 1, 10))
  IN read[end]

Over == ~More /\ UNCHANGED formatVars
Next == KernelText \/ KernelDirective \/ UserText \/ UserDirective \/ Over
Spec == Init /\ [][Next]_formatVars

-----------------------------------------------------------------------------
(* PROPERTY: every number, the smallest int too, is printed as what it is:    *)
(* read again it is the same, and no digit is there for nothing.              *)
Number(s, base) == FoldLeft(LAMBDA x, c : base * x + Value(c), 0, s)
Canonical(s) == s # <<>> /\ (Len(s) = 1 \/ s[1] # "0")
Abs(x) == IF x < 0 THEN -x ELSE x
Prints(s, x, base) == Canonical(s) /\ Number(s, base) = x
NumbersRight == call.pieces = <<>> => \A x \in -(2 ^ (BITS - 1)) .. 2 ^ (BITS - 1) - 1 :
  /\ \A base \in {10, 16} : LET s == printint(x, base, TRUE, Lower) IN
       /\ IF x < 0 THEN s[1] = "-" /\ Prints(Tail(s), Abs(x), base) ELSE Prints(s, x, base)
       /\ Prints(printint(x, base, FALSE, Upper), Uint(x), base)
  /\ x >= 0 => atoi(printint(x, 10, TRUE, Lower)) = x

(* PROPERTY: a call prints its pieces, one after the other, each with the     *)
(* argument that stands for it, unknown letters as they are.                  *)
FormatRight == ~More => out = FlattenSeq([k \in DOMAIN call.pieces |-> String(call.pieces[k])])
=============================================================================
