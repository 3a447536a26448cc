------------------------------- MODULE ShortId -------------------------------
(***************************************************************************)
(* Short ids (internal/shortid): "t" followed by the number in base 36.    *)
(* The other modules name a todo by its number; here is the text the       *)
(* database really stores and compares.  A text is the sequence of its     *)
(* digit values; the prefix is common to all and left out, and the digits  *)
(* 0-9a-z sort as their values do.                                         *)
(***************************************************************************)
EXTENDS Integers, Sequences

CONSTANT Base   \* 36 in the code

ASSUME BaseAssumption == Base \in Nat \ {0, 1}

(* strconv.FormatInt(n, base) for n > 0: the last digit and what is left of n, *)
(* until one digit is left.                                                    *)
Encode[n \in Nat] ==
    IF n < Base THEN <<n>> ELSE Append(Encode[n \div Base], n % Base)

(* SQLite's BINARY collation on two texts. *)
TextBefore(s, t) ==
    \/ Len(s) < Len(t) /\ \A k \in 1 .. Len(s) : s[k] = t[k]
    \/ \E k \in 1 .. Len(s) : /\ k <= Len(t)
                              /\ s[k] < t[k]
                              /\ \A h \in 1 .. k - 1 : s[h] = t[h]

(* The order of ORDER BY id: of the texts, not of the numbers (t10 < t2). *)
IdBefore(m, n) == TextBefore(Encode[m], Encode[n])
=============================================================================
