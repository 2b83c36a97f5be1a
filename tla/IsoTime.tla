------------------------------ MODULE IsoTime ------------------------------
(***************************************************************************)
(* Instants as the reservation table stores them.  reservation.py writes   *)
(* expires_at with datetime.isoformat() and then compares it in two ways:  *)
(* the sweep compares the TEXT inside SQLite (expires_at <= ?), confirm    *)
(* parses it back with fromisoformat() and compares datetimes.             *)
(*                                                                         *)
(* Every instant is a UTC instant, so its text is a fixed-width date and   *)
(* time down to the second, followed by "+00:00" when the microsecond is   *)
(* zero and by ".ffffff+00:00" otherwise: isoformat() drops a zero         *)
(* fraction.  Only the second, the character that follows it and the       *)
(* fraction decide a comparison, so these three are the text here.         *)
(***************************************************************************)
EXTENDS Integers

CONSTANT SecondLength   \* instants in a second (1000000 in Python)

ASSUME SecondAssumption == SecondLength \in Nat \ {0}

Plus == 43              \* code of "+", which opens the UTC offset
Dot == 46               \* code of ".", which opens the fraction

IsoText == [second : Nat, mark : {Plus, Dot}, fraction : 0 .. SecondLength - 1]

\* Variant: an isoformat that closes a whole second with "Z", as other
\* libraries do; "Z" sorts after "." where "+" sorts before it.
IsoFormatZulu(t) ==
  [second   |-> t \div SecondLength,
   mark     |-> IF t % SecondLength = 0 THEN 90 ELSE Dot,
   fraction |-> t % SecondLength]

IsoFormat(t) ==
  [second   |-> t \div SecondLength,
   mark     |-> IF t % SecondLength = 0 THEN Plus ELSE Dot,
   fraction |-> t % SecondLength]

FromIsoFormat(x) == x.second * SecondLength + x.fraction

\* SQLite's BINARY collation: the first difference decides.
TextLeq(x, y) ==
  \/ x.second < y.second
  \/ x.second = y.second /\ x.mark < y.mark
  \/ x.second = y.second /\ x.mark = y.mark /\ x.fraction <= y.fraction
=============================================================================
