-------------------------- MODULE SequenceTracking --------------------------
(***************************************************************************)
(* How both TCPReceiver and TCPSender use wrapping_integers.cc: a position *)
(* in the peer's stream arrives wrapped, is unwrapped around the last      *)
(* known position, and the result is the checkpoint for the next one.      *)
(***************************************************************************)
EXTENDS WrappingIntegers

CONSTANT MaxAbs   \* bound: the largest absolute sequence number

ASSUME MaxAbsAssumption == MaxAbs \in Nat

VARIABLES isn,         \* the initial sequence number, fixed
          position,    \* the absolute number the peer meant
          checkpoint   \* the absolute number recovered from the wire

TrackVars == <<isn, position, checkpoint>>

TrackInit ==
  /\ isn \in WrappingInt32
  /\ position = 0
  /\ checkpoint = 0

\* The next number is less than half the number space away from the last.
Hear(p) ==
  /\ 2 * Distance(p, checkpoint) < SeqnoMod
  /\ position' = p
  /\ checkpoint' = unwrap(wrap(p, isn), isn, checkpoint)
  /\ UNCHANGED isn

TrackNext == \E p \in 0 .. MaxAbs : Hear(p)

TrackSpec == TrackInit /\ [][TrackNext]_TrackVars
-----------------------------------------------------------------------------
(***************************************************************************)
(* However often the 32-bit number wraps, unwrap recovers the absolute     *)
(* number that was meant, as long as it is within half the number space of *)
(* the checkpoint: no epoch is ever lost or gained.                        *)
(***************************************************************************)
NeverLosesTrack == checkpoint = position

(***************************************************************************)
(* wrapping_integers.cc:23: unwrap returns "the 64-bit sequence number     *)
(* that wraps to `n` and is closest to `checkpoint`", for every n, against *)
(* the definition of closest: the candidate scan starts early enough, does *)
(* not stop too soon and never returns a negative number.                  *)
(***************************************************************************)
UnwrapIsClosest ==
  \A n \in WrappingInt32 :
    LET u == unwrap(n, isn, checkpoint)
    IN  /\ u \in Nat
        /\ wrap(u, isn) = n
        /\ \A v \in 0 .. MaxAbs + 2 * SeqnoMod :
             wrap(v, isn) = n => Distance(u, checkpoint) <= Distance(v, checkpoint)
=============================================================================
