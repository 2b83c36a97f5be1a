-------------------------- MODULE IsoTime_proofs --------------------------
(***************************************************************************)
(* The text of an instant loses nothing and sorts like the instant, for    *)
(* every number of instants in a second.                                   *)
(***************************************************************************)
EXTENDS IsoTime, TLAPS

\* An instant is its seconds and its fraction.
LEMMA DivMod ==
  ASSUME NEW t \in Nat
  PROVE  /\ t \div SecondLength \in Nat
         /\ t % SecondLength \in 0 .. SecondLength - 1
         /\ t = (t \div SecondLength) * SecondLength + (t % SecondLength)
BY SecondAssumption, SMT

\* isoformat() writes a well-formed text.
LEMMA IsoFormatType ==
  ASSUME NEW t \in Nat
  PROVE  IsoFormat(t) \in IsoText
BY DivMod DEF IsoFormat, IsoText

\* Reading back what isoformat() wrote gives the instant again, whether or
\* not the fraction was dropped (reservation.py:98 and 132).
THEOREM FromIsoFormatInverts ==
  ASSUME NEW t \in Nat
  PROVE  FromIsoFormat(IsoFormat(t)) = t
BY DivMod DEF IsoFormat, FromIsoFormat

\* A later second is later whatever the fractions are.
LEMMA SecondsDecide ==
  ASSUME NEW s \in Nat, NEW r \in Nat, s < r,
         NEW f \in 0 .. SecondLength - 1, NEW g \in 0 .. SecondLength - 1
  PROVE  s * SecondLength + f < r * SecondLength + g
<1>1. (s + 1) * SecondLength <= r * SecondLength
  BY SecondAssumption, SMT
<1>2. (s + 1) * SecondLength = s * SecondLength + SecondLength
  BY SecondAssumption, SMT
<1>3. s * SecondLength \in Nat /\ r * SecondLength \in Nat
  BY SecondAssumption, SMT
<1> QED
  BY <1>1, <1>2, <1>3, SecondAssumption, SMT

\* SQLite's comparison of two texts is the comparison of the instants, so the
\* sweep (expires_at <= ?) and confirm (fromisoformat(...) <= current) draw
\* the line at the same instant (reservation.py:132 and 181).
THEOREM TextOrderIsTimeOrder ==
  ASSUME NEW a \in Nat, NEW b \in Nat
  PROVE  TextLeq(IsoFormat(a), IsoFormat(b)) <=> a <= b
<1> DEFINE s == a \div SecondLength
           f == a % SecondLength
           r == b \div SecondLength
           g == b % SecondLength
<1>1. /\ s \in Nat /\ f \in 0 .. SecondLength - 1 /\ a = s * SecondLength + f
      /\ r \in Nat /\ g \in 0 .. SecondLength - 1 /\ b = r * SecondLength + g
  BY DivMod
<1>2. /\ IsoFormat(a) = [second |-> s, mark |-> IF f = 0 THEN Plus ELSE Dot, fraction |-> f]
      /\ IsoFormat(b) = [second |-> r, mark |-> IF g = 0 THEN Plus ELSE Dot, fraction |-> g]
  BY DEF IsoFormat
<1> HIDE DEF s, f, r, g
<1>3. CASE s < r
  <2>1. a < b
    BY <1>1, <1>3, SecondsDecide
  <2> QED
    BY <1>1, <1>2, <1>3, <2>1 DEF TextLeq
<1>4. CASE r < s
  <2>1. b < a
    BY <1>1, <1>4, SecondsDecide
  <2> QED
    BY <1>1, <1>2, <1>4, <2>1 DEF TextLeq
<1>5. CASE s = r
  <2>1. s * SecondLength \in Nat
    BY <1>1, SecondAssumption, SMT
  <2>2. a <= b <=> f <= g
    BY <1>1, <1>5, <2>1, SecondAssumption, SMT
  <2> QED
    BY <1>1, <1>2, <1>5, <2>2, SecondAssumption DEF TextLeq, Plus, Dot
<1> QED
  BY <1>1, <1>3, <1>4, <1>5
=============================================================================
