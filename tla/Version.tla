------------------------------- MODULE Version -------------------------------
(***************************************************************************)
(* The order of releases: Compare and CompareSuffixes of internal/version, *)
(* and the order of semantic versions to compare them with.                *)
(*                                                                         *)
(* A version has a base of numbers, major, minor and patch, and a suffix   *)
(* of a name and a number, such as rc4; a release without a suffix has     *)
(* NoSuffix.  The program has the base as text only.  Suffixes of another  *)
(* form, which the tags of the Makefile never have, are left out.          *)
(***************************************************************************)
EXTENDS Integers, Sequences

\* Names of suffixes stand for themselves in the order of the alphabet: 1 for
\* beta, 2 for rc.
NoSuffix == [name |-> 0, number |-> 0]

\* s comes before t in the lexicographic order.
Before(s, t) ==
  \E k \in 1..Len(t) :
    /\ \A j \in 1..(k - 1) : j <= Len(s) /\ s[j] = t[j]
    /\ k > Len(s) \/ s[k] < t[k]

\* The decimal digits of a number, and the text of a base; the dot comes before
\* every digit.
Digits[n \in Nat] == IF n < 10 THEN <<n>> ELSE Append(Digits[n \div 10], n % 10)
Dot == -1
Text(base) == Digits[base[1]] \o <<Dot>> \o Digits[base[2]] \o <<Dot>> \o Digits[base[3]]

Sign(less, greater) == IF less THEN -1 ELSE IF greater THEN 1 ELSE 0

\* Mutant of CompareSuffixes: the numbers are compared as text.
SuffixesAsText(s1, s2) ==
  IF s1.name # s2.name THEN Sign(s1.name < s2.name, s2.name < s1.name)
  ELSE Sign(Before(Digits[s1.number], Digits[s2.number]),
            Before(Digits[s2.number], Digits[s1.number]))

\* Suffixes of different names compare by name, others by number.
CompareSuffixes(s1, s2) ==
  IF s1.name # s2.name THEN Sign(s1.name < s2.name, s2.name < s1.name)
  ELSE Sign(s1.number < s2.number, s2.number < s1.number)

\* Bases compare as text; of two versions with one base, one without a suffix is
\* the newer one.
Compare(v1, v2) ==
  CASE v1 = v2 -> 0
    [] v1.base # v2.base -> Sign(Before(Text(v1.base), Text(v2.base)), TRUE)
    [] v1.base = v2.base /\ v1 # v2 /\ v1.suffix = NoSuffix -> 1
    [] v1.base = v2.base /\ v1 # v2 /\ v2.suffix = NoSuffix -> -1
    [] OTHER -> CompareSuffixes(v1.suffix, v2.suffix)

\* The order of semantic versions: bases compare number by number, and a suffix
\* makes a version older.
Precedes(v1, v2) ==
  \/ Before(v1.base, v2.base)
  \/ /\ v1.base = v2.base /\ v1.suffix # v2.suffix
     /\ \/ v2.suffix = NoSuffix
        \/ /\ v1.suffix # NoSuffix
           /\ Before(<<v1.suffix.name, v1.suffix.number>>, <<v2.suffix.name, v2.suffix.number>>)
=============================================================================
