---------------------------- MODULE FastestFind ----------------------------
(***************************************************************************)
(* The only_fastest filter of analyze_fdb.py (build_find_groups): the     *)
(* solutions of one find-db entry are sorted by float(kernel_time), then   *)
(* every solution after the first whose kernel_time is greater than the    *)
(* first one's is popped.  The comparison is between the kernel_time       *)
(* fields as parse_fdb_line returns them, which are strings.               *)
(*                                                                         *)
(* A kernel time is a number of tenths of a millisecond; its text is the   *)
(* decimal form with one digit after the point, as a sequence of character *)
(* codes.                                                                  *)
(***************************************************************************)
EXTENDS Naturals, Sequences, TLC

CONSTANTS
  Times,    \* kernel times a solution may report, in tenths
  MaxSols   \* most solutions of one entry

\* Character codes of '0' and '.'.
ZERO == 48
POINT == 46

RECURSIVE Digits(_)
Digits(n) == IF n < 10 THEN <<ZERO + n>> ELSE Digits(n \div 10) \o <<ZERO + (n % 10)>>

\* The kernel_time text of a time in tenths: "9.5", "10.0".
Text(t) == Digits(t \div 10) \o <<POINT, ZERO + (t % 10)>>

\* Python's a > b on two strings: the first differing character decides,
\* and a proper prefix is the smaller.
RECURSIVE StrGt(_, _)
StrGt(a, b) ==
  IF a = <<>> THEN FALSE
  ELSE IF b = <<>> THEN TRUE
  ELSE IF Head(a) # Head(b) THEN Head(a) > Head(b)
  ELSE StrGt(Tail(a), Tail(b))

\* alg_list.sort(key=float(kernel_time)), then the loop from the last index
\* down to 1 popping alg_list[i] when its kernel_time string is greater than
\* alg_list[0]'s: as the loop pops only at or after i, each element is
\* tested against the first one, which is never popped.
OnlyFastest(algs) ==
  LET sorted == SortSeq(algs, LAMBDA x, y : x < y)
  IN SelectSeq(sorted, LAMBDA t : ~StrGt(Text(t), Text(sorted[1])))

VARIABLES algList, kept

Inputs == UNION {[1..n -> Times] : n \in 1..MaxSols}

FInit == algList \in Inputs /\ kept = OnlyFastest(algList)

FSpec == FInit /\ [][UNCHANGED <<algList, kept>>]_<<algList, kept>>

\* The --only_fastest option: what is left of an entry are exactly its
\* fastest solutions (those whose kernel time is the least).
FastestKept ==
  LET sorted == SortSeq(algList, LAMBDA x, y : x < y)
  IN kept = SelectSeq(sorted, LAMBDA t : t = sorted[1])

=============================================================================
