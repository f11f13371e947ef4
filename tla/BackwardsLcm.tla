---------------------------- MODULE BackwardsLcm ----------------------------
(***************************************************************************)
(* memory_algorithm_common::calculate_lcm_and_needs_backwards_lcmed: by    *)
(* how many bytes a buffer of objects of backwards_multiple bytes must be  *)
(* extended backwards, so that its beginning stays aligned and moves by a  *)
(* whole number of objects.                                                *)
(***************************************************************************)
EXTENDS Naturals

\* gcd and lcm of math_functions.hpp.
Divides(d, n) == n % d = 0
gcd(a, b) ==
  CHOOSE d \in 1..a : /\ Divides(d, a) /\ Divides(d, b)
                      /\ \A e \in (d + 1)..a : ~(Divides(e, a) /\ Divides(e, b))
lcm(a, b) == (a \div gcd(a, b)) * b

get_truncated_size(size, multiple) == (size \div multiple) * multiple


get_rounded_size(size, to) == ((size + to - 1) \div to) * to

IsPow2(n) == \A d \in 2..n : Divides(d, n) => Divides(2, d)

\* The remainder of the quarter branch: a mask and a shift by alignment / 8.
QuarterRemainder(needs, alignment) == (needs % alignment) \div 2^(alignment \div 8)

Result(l, needs) == [ok |-> TRUE, lcm |-> l, needs |-> needs]
Failure == [ok |-> FALSE, lcm |-> 0, needs |-> 0]

\* A multiple of half of the alignment.
HalfBranch(b, alignment, needs) ==
  Result(2 * b, IF needs % alignment # 0 THEN needs + b ELSE needs)

\* A multiple of a quarter of the alignment.
QuarterBranch(b, alignment, needs) ==
  LET r == QuarterRemainder(needs, alignment)
      up == IF (b \div (alignment \div 2)) % 2 = 1 THEN r ELSE 4 - r
  IN  Result(4 * b, IF r # 0 THEN needs + up * b ELSE needs)

calculate_lcm_and_needs_backwards_lcmed(b, alignment, received, size_to_achieve) ==
  LET larger == IF b < alignment THEN alignment ELSE b
      needs == size_to_achieve - get_truncated_size(received, b)
  IN  CASE IsPow2(b) ->
             IF size_to_achieve % b # 0 THEN Failure
             ELSE Result(larger, get_rounded_size(needs, larger))
        [] ~IsPow2(b) /\ b % alignment = 0 -> Result(b, needs)
        [] ~IsPow2(b) /\ b % alignment # 0 /\ b % (alignment \div 2) = 0 ->
             HalfBranch(b, alignment, needs)
        [] ~IsPow2(b) /\ b % (alignment \div 2) # 0 /\ b % (alignment \div 4) = 0 ->
             QuarterBranch(b, alignment, needs)
        [] OTHER -> LET l == lcm(b, alignment) IN Result(l, get_rounded_size(needs, l))

=============================================================================
