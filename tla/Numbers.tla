-------------------------------- MODULE Numbers --------------------------------
(***************************************************************************)
(* LessThanN.cpp, on numbers written with given digits, and Caculator.cpp, *)
(* on characters.  Integers are not large enough to overflow.              *)
(***************************************************************************)
EXTENDS Integers, SequencesExt

\* std::to_string and std::stoi, for n >= 0.
RECURSIVE ToDigits(_)
ToDigits(n) == IF n < 10 THEN <<n>> ELSE Append(ToDigits(n \div 10), n % 10)

ToNumber(digits) == FoldLeft(LAMBDA n, d : n * 10 + d, 0, digits)

-----------------------------------------------------------------------------
(* The greatest number below n, and how many there are up to n *)

\* Mutant: below a digit smaller than the one of n the limit stays.
StillLimited(limited, d, up) == limited

OnLimit(limited, d, up) == limited /\ d = up

\* dfs of lessN from digit i of s: the path that makes it return true, which
\* tries the greatest digit first, or <<>>.
RECURSIVE Below(_, _, _, _, _)
Below(nums, s, i, limited, path) ==
  IF i > Len(s) THEN IF ToNumber(path) < ToNumber(s) THEN path ELSE <<>>
  ELSE LET up == IF limited THEN s[i] ELSE 9
           found(d) == Below(nums, s, i + 1, OnLimit(limited, d, up), Append(path, d))
           good == {d \in nums : d <= up /\ found(d) # <<>>}
       IN  IF good = {} THEN <<>> ELSE found(Max(good))

\* lessN, for digits nums: with as many digits as n, or with one less.
LessN(nums, n) ==
  LET s == ToDigits(n)
      path == Below(nums, s, 1, TRUE, <<>>)
  IN  CASE path # <<>> -> ToNumber(path)
        [] path = <<>> /\ Len(s) = 1 -> -1
        [] OTHER -> ToNumber([i \in 1 .. Len(s) - 1 |-> Max(nums)])

\* Mutant: a count is kept and used although the limit still holds.
InNumber(limited, isNum) == isNum

\* The counts from digit i on that dp keeps.
BelowLimit(limited, isNum) == ~limited /\ isNum

\* dfs of atMostNGivenDigitSet: the count and dp after it, -1 for a count that
\* is not known yet.  The loop ends at the first digit above up.
RECURSIVE Ways(_, _, _, _, _, _)
Ways(digits, s, i, limited, isNum, dp) ==
  IF i > Len(s) THEN [ret |-> IF isNum THEN 1 ELSE 0, dp |-> dp]
  ELSE IF BelowLimit(limited, isNum) /\ dp[i] >= 0 THEN [ret |-> dp[i], dp |-> dp]
  ELSE LET up == IF limited THEN s[i] ELSE 9
           above == SelectInSeq(digits, LAMBDA d : d > up)
           tried == IF above = 0 THEN digits ELSE SubSeq(digits, 1, above - 1)
           shorter == IF isNum THEN [ret |-> 0, dp |-> dp]
                               ELSE Ways(digits, s, i + 1, FALSE, FALSE, dp)
           AddDigit(sum, d) ==
             LET rest == Ways(digits, s, i + 1, OnLimit(limited, d, up), TRUE, sum.dp)
             IN  [ret |-> sum.ret + rest.ret, dp |-> rest.dp]
           all == FoldLeft(AddDigit, shorter, tried)
       IN  IF BelowLimit(limited, isNum) THEN [all EXCEPT !.dp[i] = all.ret] ELSE all

AtMostNGivenDigitSet(digits, n) ==
  LET s == ToDigits(n)
  IN  Ways(digits, s, 1, TRUE, FALSE, [i \in DOMAIN s |-> -1]).ret

-----------------------------------------------------------------------------
(* The calculator *)

DigitChar == <<"0", "1", "2", "3", "4", "5", "6", "7", "8", "9">>

CharValue(c) == SelectInSeq(DigitChar, LAMBDA d : d = c) - 1

IsDigit(c) == Contains(DigitChar, c)

\* Division of C++, which truncates.
Quotient(a, b) ==
  LET abs(n) == IF n < 0 THEN -n ELSE n
  IN  IF (a < 0) = (b < 0) THEN abs(a) \div abs(b) ELSE -(abs(a) \div abs(b))

\* Mutant: an operand of - is pushed as it is.
PushedUnsigned(stk, sign, num) ==
  CASE sign \in {"+", "-"} -> Append(stk, num)
    [] sign = "*" -> Append(Front(stk), Last(stk) * num)
    [] sign = "/" -> Append(Front(stk), Quotient(Last(stk), num))
    [] OTHER -> stk

\* stk after the number and the sign before it; any other sign does nothing.
Pushed(stk, sign, num) ==
  CASE sign = "+" -> Append(stk, num)
    [] sign = "-" -> Append(stk, -num)
    [] sign = "*" -> Append(Front(stk), Last(stk) * num)
    [] sign = "/" -> Append(Front(stk), Quotient(Last(stk), num))
    [] OTHER -> stk

Total(stk) == FoldLeft(LAMBDA m, n : m + n, 0, stk)

\* dfs of calculate from character i of s, with its variables; it returns the
\* total and the next i.
RECURSIVE Dfs(_, _, _, _, _)
Dfs(s, i, stk, num, sign) ==
  IF i > Len(s) THEN <<Total(stk), i>>
  ELSE LET inner == Dfs(s, i + 1, <<>>, 0, "+")
           num1 == CASE IsDigit(s[i]) -> num * 10 + CharValue(s[i])
                     [] s[i] = "(" -> inner[1]
                     [] OTHER -> num
           i1 == IF s[i] = "(" THEN inner[2] ELSE i
           c == IF i1 > Len(s) THEN "end" ELSE s[i1]
           ends == (~IsDigit(c) /\ c # " ") \/ i1 = Len(s)
           stk1 == Pushed(stk, sign, num1)
       IN  CASE ~ends -> Dfs(s, i1 + 1, stk, num1, sign)
             [] ends /\ c = ")" -> <<Total(stk1), i1 + 1>>
             [] OTHER -> Dfs(s, i1 + 1, stk1, 0, c)

Calculate(s) == Dfs(s, 1, <<>>, 0, "+")[1]

-----------------------------------------------------------------------------
(* Expressions as trees: what the calculator should do *)

\* A tree is <<"num", n>>, <<"neg", tree>> or <<operation, tree, tree>>.
Level(e) == CASE e[1] = "num" -> 3 [] e[1] \in {"*", "/"} -> 2
              [] e[1] \in {"+", "-"} -> 1 [] OTHER -> 0

RECURSIVE Meaning(_)
Meaning(e) ==
  CASE e[1] = "num" -> e[2]
    [] e[1] = "neg" -> -Meaning(e[2])
    [] e[1] = "+" -> Meaning(e[2]) + Meaning(e[3])
    [] e[1] = "-" -> Meaning(e[2]) - Meaning(e[3])
    [] e[1] = "*" -> Meaning(e[2]) * Meaning(e[3])
    [] e[1] = "/" -> Quotient(Meaning(e[2]), Meaning(e[3]))

RECURSIVE Defined(_)
Defined(e) ==
  CASE e[1] = "num" -> TRUE
    [] e[1] = "neg" -> Defined(e[2])
    [] OTHER -> Defined(e[2]) /\ Defined(e[3]) /\ (e[1] = "/" => Meaning(e[3]) # 0)

\* The characters of a tree, with the parentheses it needs.
RECURSIVE Text(_)
Text(e) ==
  LET part(f, least) == IF Level(f) < least THEN <<"(">> \o Text(f) \o <<")">> ELSE Text(f)
  IN  CASE e[1] = "num" -> [i \in DOMAIN ToDigits(e[2]) |-> DigitChar[ToDigits(e[2])[i] + 1]]
        [] e[1] = "neg" -> <<"-">> \o part(e[2], 2)
        [] OTHER -> part(e[2], Level(e)) \o <<e[1]>> \o part(e[3], Level(e) + 1)

\* The same with a space before and after every operation and parenthesis.
Spaced(s) ==
  FlattenSeq([i \in DOMAIN s |-> IF IsDigit(s[i]) THEN <<s[i]>> ELSE <<" ", s[i], " ">>])

-----------------------------------------------------------------------------
(* Properties *)

\* lessN gives the greatest number below n that is written with the digits,
\* and -1 when there is none; with sorted digits other than 0 atMostN counts
\* the numbers from 1 to n that are.
DigitsRight(nums, n) ==
  LET written(least, most) == {m \in least .. most : ToSet(ToDigits(m)) \subseteq nums}
  IN  /\ LessN(nums, n) = Max({-1} \union written(0, n - 1))
      /\ 0 \notin nums => AtMostNGivenDigitSet(SetToSortSeq(nums, <), n) = Cardinality(written(1, n))

\* The calculator follows the precedence of the operations, their order, the
\* parentheses however deep, and signs, whether or not there are spaces.
CalculatesRight(e) ==
  Defined(e) => /\ Calculate(Text(e)) = Meaning(e)
                /\ Calculate(Spaced(Text(e))) = Meaning(e)
=============================================================================
