---------------------------- MODULE SubnetraReplay ----------------------------
(***************************************************************************)
(* The Subnetra anti-replay window (src/src/subnetra/replay.rs): the       *)
(* highest sequence number accepted so far and a bitmap over the WINDOW    *)
(* numbers that end with it.  Bit i of the u64 is modelled by i being an   *)
(* element of the set bitmap, so a left shift is an addition and the bits  *)
(* shifted out are the ones that reach WINDOW.                             *)
(***************************************************************************)
EXTENDS Integers

CONSTANT WINDOW          \* width of the window; 64 in the code

ASSUME WindowAssumption == WINDOW \in Nat \ {0}

Bits == 0 .. WINDOW - 1

ReplayWindow == [highest : Nat, bitmap : SUBSET Bits]

\* ReplayWindow::new and ReplayWindow::reset
EmptyWindow == [highest |-> 0, bitmap |-> {}]

\* Faulty variant: the window moves by one whatever the gap.
ShiftByOne(bitmap, k) == {i \in Bits : i >= 1 /\ i - 1 \in bitmap}

\* bitmap <<= k on a WINDOW-bit word; a shift by WINDOW or more clears it.
Shift(bitmap, k) == {i \in Bits : i >= k /\ i - k \in bitmap}

\* The verdict of check_and_set: newer than everything, or inside the window
\* and not seen.
IsFresh(w, seq) ==
    \/ seq > w.highest
    \/ /\ w.highest - seq < WINDOW
       /\ w.highest - seq \notin w.bitmap

\* The window check_and_set leaves behind when the verdict is "fresh".
Record(w, seq) ==
    IF seq > w.highest
    THEN [highest |-> seq,
          bitmap  |-> Shift(w.bitmap, seq - w.highest) \cup {0}]
    ELSE [highest |-> w.highest,
          bitmap  |-> w.bitmap \cup {w.highest - seq}]

\* The set of sequence numbers a window remembers.
Remembered(w) == {w.highest - i : i \in w.bitmap}
===============================================================================
