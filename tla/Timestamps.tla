----------------------------- MODULE Timestamps ------------------------------
(***************************************************************************)
(* Instants as internal/store/store.go writes and compares them: ts is RFC *)
(* 3339 in UTC with the fraction of the second cut of its trailing zeros,  *)
(* parseTS reads it back without loss, and the queries order and compare   *)
(* the texts.  An instant is a number of ticks; a second has Base^Digits   *)
(* of them (10^9 in the code).                                             *)
(***************************************************************************)
EXTENDS Naturals

CONSTANTS
    Base,       \* values of a digit
    Digits      \* digits of the fraction

ASSUME FormatAssumption == Base \in Nat \ {0, 1} /\ Digits \in Nat \ {0}

(* Ticks to a digit with so many digits behind it.                         *)
Ticks[n \in 0..Digits] == IF n = 0 THEN 1 ELSE Base * Ticks[n - 1]

Second(t) == t \div Ticks[Digits]

(* The digits of the fraction from place i on are zeros: they are cut, and *)
(* a "Z" follows, which sorts after every digit.  Without any digit it is  *)
(* in the place of the point and sorts after that.                         *)
Cut(t, i) == t % Ticks[Digits - i + 1] = 0
Mark(t, i) ==
    IF Cut(t, i) THEN Base ELSE (t \div Ticks[Digits - i]) % Base

(* The text of a comes before the text of b.  The part up to the second    *)
(* has a fixed width.                                                      *)
TextBefore(a, b) ==
    \/ Second(a) < Second(b)
    \/ /\ Second(a) = Second(b)
       /\ \E i \in 1..Digits :
             /\ Mark(a, i) < Mark(b, i)
             /\ \A k \in 1..i-1 : Mark(a, k) = Mark(b, k)
==============================================================================
