---------------------------------- MODULE Regex ----------------------------------
(***************************************************************************)
(* src/src/dpi/uvm_regex.cc: globs are turned into POSIX regular           *)
(* expressions, in a static buffer whose use is counted in advance;        *)
(* expressions are compiled and executed.  Strings are sequences of        *)
(* characters.                                                             *)
(*                                                                         *)
(* The last part says what regcomp and regexec of the C library do         *)
(* (external) and, apart from all of it, what a glob matches.              *)
(***************************************************************************)
EXTENDS Integers, Sequences, FiniteSets

CONSTANTS
    Chars,                  \* the characters that occur
    UVM_REGEX_MAX_LENGTH    \* 2048; the buffer has room for four more

ASSUME RegexAssumption ==
    /\ {"/", "^", "$", "\\", ".", "*", "+", "?", "(", ")", "[", "]"} \subseteq Chars
    /\ UVM_REGEX_MAX_LENGTH \in Nat \ {0}

REG_NOMATCH == 1

----------------------------------------------------------------------------
(* uvm_re_deglobbed.  In b, len is glob_len, which the code adds to and    *)
(* compares with the maximum before it writes; text is what buffer holds.  *)

(* Mutant: the sum is compared and not kept.                               *)
Uncounted(b, k, cs) ==
    IF ~b.ok THEN b
    ELSE IF b.len + k > UVM_REGEX_MAX_LENGTH THEN [b EXCEPT !.ok = FALSE]
    ELSE [b EXCEPT !.text = @ \o cs]

(* Write cs after counting k; the function returns NULL where that is more *)
(* than the maximum.                                                       *)
Emit(b, k, cs) ==
    IF ~b.ok THEN b
    ELSE IF b.len + k > UVM_REGEX_MAX_LENGTH THEN [b EXCEPT !.ok = FALSE]
    ELSE [b EXCEPT !.len = @ + k, !.text = @ \o cs]

(* A character that needs no more room than it has in the glob is copied   *)
(* without looking at the maximum.                                         *)
Copy(b, c) == IF b.ok THEN [b EXCEPT !.text = Append(@, c)] ELSE b

(* Mutant: '+' is taken over as it is.                                     *)
PlusCopied(b, c) ==
    CASE c = "*"                           -> Emit(b, 2, <<".", c>>)
      [] c \in {".", "[", "]", "(", ")"}   -> Emit(b, 2, <<"\\", c>>)
      [] c = "?"                           -> Copy(b, ".")
      [] OTHER                             -> Copy(b, c)

expand_char(b, c) ==
    CASE c \in {"*", "+"}                  -> Emit(b, 2, <<".", c>>)
      [] c \in {".", "[", "]", "(", ")"}   -> Emit(b, 2, <<"\\", c>>)
      [] c = "?"                           -> Copy(b, ".")
      [] OTHER                             -> Copy(b, c)

expand(glob, b0) ==
    LET b[i \in 0..Len(glob)] == IF i = 0 THEN b0 ELSE expand_char(b[i - 1], glob[i])
    IN  b[Len(glob)]

Bracketed(s) == Len(s) > 0 /\ s[1] = "/" /\ s[Len(s)] = "/"

(* The last of the counted writes is that of the terminating zero, which is*)
(* not part of the text.                                                   *)
deglob(glob, brackets) ==
    LET slash(b) == IF brackets THEN Emit(b, 1, <<"/">>) ELSE b
        opened == slash([len |-> Len(glob), ok |-> TRUE, text |-> <<>>])
        caret == IF glob[1] = "^" THEN opened ELSE Emit(opened, 1, <<"^">>)
        body == expand(glob, caret)
        dollar == IF body.ok /\ body.text[Len(body.text)] = "$" THEN body
                  ELSE Emit(body, 1, <<"$">>)
    IN  Emit(slash(dollar), 1, <<>>)

(* The result: NULL unless ok; over: more has been written than the buffer *)
(* holds, the zero after a text that is returned included.                 *)
Result(ok, text) ==
    [ok |-> ok, text |-> text,
     over |-> Len(text) + (IF ok THEN 1 ELSE 0) > UVM_REGEX_MAX_LENGTH + 4]

uvm_re_deglobbed(glob, brackets) ==
    LET d == deglob(glob, brackets) IN
    IF glob = <<>> \/ glob = <<"/">>
    THEN Result(TRUE, IF brackets THEN <<"/", "^", "$", "/">> ELSE <<"^", "$">>)
    ELSE IF Bracketed(glob)
    THEN IF Len(glob) > UVM_REGEX_MAX_LENGTH THEN Result(FALSE, <<>>)
         ELSE Result(TRUE, IF brackets THEN glob ELSE SubSeq(glob, 2, Len(glob) - 1))
    ELSE Result(d.ok, d.text)

(* The expression that uvm_re_comp hands to regcomp.  Brackets are stripped*)
(* here for an expression that is no glob; those of "/" alone make a       *)
(* negative length.                                                        *)
stripped(re, deglob_) ==
    IF deglob_ THEN uvm_re_deglobbed(re, FALSE)
    ELSE IF Len(re) > UVM_REGEX_MAX_LENGTH THEN Result(FALSE, <<>>)
    ELSE IF re = <<"/">> THEN [ok |-> TRUE, text |-> <<>>, over |-> TRUE]
    ELSE IF Bracketed(re) THEN Result(TRUE, SubSeq(re, 2, Len(re) - 1))
    ELSE [ok |-> TRUE, text |-> re, over |-> FALSE]

----------------------------------------------------------------------------
(* External: regcomp and regexec, for the expressions made of ordinary     *)
(* characters, '.', escapes, '*' and '+' after one of these, and anchors.  *)

Escaped(rx, i) == rx[i] = "\\" /\ i < Len(rx)

(* A parenthesis that is not closed makes regcomp fail.                    *)
regcomp_ok(rx) ==
    \A i \in 1..Len(rx) : rx[i] = "(" => i > 1 /\ rx[i - 1] = "\\"

(* The atom at i, what is after it, and whether a character fits it.       *)
PastAtom(rx, i) == i + (IF Escaped(rx, i) THEN 2 ELSE 1)

Quantifier(rx, i) == IF PastAtom(rx, i) <= Len(rx) THEN rx[PastAtom(rx, i)] ELSE ""

Fits(rx, i, c) == IF Escaped(rx, i) THEN rx[i + 1] = c ELSE rx[i] \in {".", c}

(* The places of s where what rx has from i on matches, from those of what *)
(* comes later in rx.                                                      *)
Places(rx, s, i, later) ==
    LET end == Len(s) + 1
        Run(j, k) == \A l \in j..(k - 1) : Fits(rx, i, s[l])
    IN  IF i > Len(rx) THEN 1..end
        ELSE CASE rx[i] = "^" -> {1} \cap later[i + 1]
               [] rx[i] = "$" -> {end} \cap later[i + 1]
               [] Quantifier(rx, i) = "*" ->
                    {j \in 1..end : \E k \in j..end :
                                      Run(j, k) /\ k \in later[PastAtom(rx, i) + 1]}
               [] Quantifier(rx, i) = "+" ->
                    {j \in 1..end : \E k \in (j + 1)..end :
                                      Run(j, k) /\ k \in later[PastAtom(rx, i) + 1]}
               [] OTHER -> {j \in 1..Len(s) : /\ Fits(rx, i, s[j])
                                             /\ j + 1 \in later[PastAtom(rx, i)]}

regexec(rx, s) ==
    LET match[i \in 1..(Len(rx) + 1)] == Places(rx, s, i, match)
    IN  match[1] # {}

(* What a glob matches: '*' any string, '+' any but the empty one, '?' any *)
(* character, anything else itself.  The places of s where what the glob   *)
(* has from i on matches the rest of s:                                    *)
GlobPlaces(glob, s, i, later) ==
    LET end == Len(s) + 1 IN
    IF i > Len(glob) THEN {end}
    ELSE CASE glob[i] = "*" -> {j \in 1..end : \E k \in j..end : k \in later[i + 1]}
           [] glob[i] = "+" -> {j \in 1..end : \E k \in (j + 1)..end : k \in later[i + 1]}
           [] OTHER -> {j \in 1..Len(s) : glob[i] \in {"?", s[j]} /\ j + 1 \in later[i + 1]}

GlobMatches(glob, s) ==
    LET match[i \in 1..(Len(glob) + 1)] == GlobPlaces(glob, s, i, match)
    IN  1 \in match[1]
==================================================================================
