-------------------------- MODULE WrappingIntegers --------------------------
(***************************************************************************)
(* Sequence numbers (libsponge/wrapping_integers.{hh,cc}).  On the wire a  *)
(* sequence number is an integer modulo SeqnoMod that starts at the        *)
(* initial sequence number isn; inside an endpoint it is an "absolute"     *)
(* number that starts at 0 and does not wrap.  SeqnoMod stands for 2^32.   *)
(***************************************************************************)
EXTENDS Integers

CONSTANT SeqnoMod

ASSUME SeqnoModAssumption == SeqnoMod \in Nat \ {0}

WrappingInt32 == 0 .. SeqnoMod - 1

wrap(n, isn) == (isn + n) % SeqnoMod

Distance(a, b) == IF a > b THEN a - b ELSE b - a

\* The k-th absolute number that wraps to n: the code's cases 1 and 2.
curr_val_one_case(n, isn, k) == k * SeqnoMod + Distance(n, isn)   \* mutant: no case 2

curr_val(n, isn, k) ==
  IF n >= isn THEN k * SeqnoMod + n - isn
              ELSE k * SeqnoMod + SeqnoMod + n - isn

init_k_late(checkpoint) == checkpoint \div SeqnoMod   \* mutant: not one epoch back

init_k(checkpoint) ==
  IF checkpoint \div SeqnoMod > 0 THEN checkpoint \div SeqnoMod - 1 ELSE 0

\* The scan starts at init_k and stops at the first candidate that is no
\* closer to the checkpoint than the one before it, which is the result.
\* (Three candidates past init_k always suffice.)
unwrap(n, isn, checkpoint) ==
  LET first == init_k(checkpoint)
      diff(k) == Distance(curr_val(n, isn, k), checkpoint)
      last == CHOOSE k \in first + 1 .. first + 3 :
                /\ diff(k) >= diff(k - 1)
                /\ \A j \in first + 1 .. k - 1 : diff(j) < diff(j - 1)
  IN  curr_val(n, isn, last) - SeqnoMod
=============================================================================
