---------------------------- MODULE ShortIdProofs ----------------------------
(***************************************************************************)
(* Proofs about ShortId, for every base: two numbers never have the same   *)
(* text, and the order of the texts is a strict total order, so ORDER BY   *)
(* ..., id leaves SQLite no choice.                                        *)
(***************************************************************************)
EXTENDS ShortId, TLAPS, SequenceTheorems, WellFoundedInduction

-----------------------------------------------------------------------------
(* Induction over the naturals, as the least counterexample. *)
LEMMA LeastNatural ==
  ASSUME NEW T \in SUBSET Nat, T # {}
  PROVE  \E n \in T : \A m \in T : n <= m
<1>1. PICK n \in T : \A m \in T : ~ (<<m, n>> \in OpToRel(<, Nat))
  BY NatLessThanWellFounded, WFMin, Zenon
<1>2. \A m \in T : ~ (m < n)
  BY <1>1, Zenon DEF OpToRel
<1>3. QED
  BY <1>2

-----------------------------------------------------------------------------
(* The order of texts.                                                     *)

LEMMA TextBeforeIrreflexive ==
  ASSUME NEW s \in Seq(Int)
  PROVE  ~ TextBefore(s, s)
BY DEF TextBefore

LEMMA TextBeforeTransitive ==
  ASSUME NEW s \in Seq(Int), NEW t \in Seq(Int), NEW u \in Seq(Int),
         TextBefore(s, t), TextBefore(t, u)
  PROVE  TextBefore(s, u)
<1> DEFINE Prefix(a, b) == Len(a) < Len(b) /\ \A k \in 1 .. Len(a) : a[k] = b[k]
           DiffersAt(a, b, k) == /\ k \in 1 .. Len(a) /\ k <= Len(b)
                                 /\ a[k] < b[k]
                                 /\ \A h \in 1 .. k - 1 : a[h] = b[h]
<1>1. /\ Len(s) \in Nat /\ Len(t) \in Nat /\ Len(u) \in Nat
      /\ \A k \in 1 .. Len(s) : s[k] \in Int
      /\ \A k \in 1 .. Len(t) : t[k] \in Int
      /\ \A k \in 1 .. Len(u) : u[k] \in Int
  BY ElementOfSeq, LenProperties
<1>2. \A a, b : TextBefore(a, b) <=> Prefix(a, b) \/ \E k \in 1 .. Len(a) : DiffersAt(a, b, k)
  BY DEF TextBefore
<1>3. CASE Prefix(s, t) /\ Prefix(t, u)
  <2>1. Prefix(s, u)
    BY <1>1, <1>3
  <2>2. QED
    BY <1>2, <2>1
<1>4. ASSUME Prefix(s, t), NEW k \in 1 .. Len(t), DiffersAt(t, u, k)
      PROVE  TextBefore(s, u)
  <2>1. CASE k <= Len(s)
    <3>1. DiffersAt(s, u, k)
      BY <1>1, <1>4, <2>1
    <3>2. QED
      BY <1>2, <3>1
  <2>2. CASE ~ (k <= Len(s))
    <3>1. Prefix(s, u)
      BY <1>1, <1>4, <2>2
    <3>2. QED
      BY <1>2, <3>1
  <2>3. QED
    BY <2>1, <2>2
<1>5. ASSUME NEW k \in 1 .. Len(s), DiffersAt(s, t, k), Prefix(t, u)
      PROVE  TextBefore(s, u)
  <2>1. DiffersAt(s, u, k)
    BY <1>1, <1>5
  <2>2. QED
    BY <1>2, <2>1
<1>6. ASSUME NEW k \in 1 .. Len(s), DiffersAt(s, t, k),
             NEW l \in 1 .. Len(t), DiffersAt(t, u, l)
      PROVE  TextBefore(s, u)
  <2>0. /\ k \in 1 .. Len(s) /\ k \in 1 .. Len(t) /\ s[k] < t[k]
        /\ \A h \in 1 .. k - 1 : s[h] = t[h]
        /\ l \in 1 .. Len(t) /\ l \in 1 .. Len(u) /\ t[l] < u[l]
        /\ \A h \in 1 .. l - 1 : t[h] = u[h]
    BY <1>6, SMTT(30)
  <2>1. CASE k < l
    <3>1. t[k] = u[k] /\ k <= Len(u)
      BY <1>1, <2>0, <2>1
    <3>2. \A h \in 1 .. k - 1 : s[h] = u[h]
      BY <1>1, <2>0, <2>1
    <3>3. DiffersAt(s, u, k)
      BY <1>1, <2>0, <3>1, <3>2
    <3>4. QED
      BY <1>2, <3>3
  <2>2. CASE k = l
    <3>1. s[k] < u[k]
      BY <1>1, <2>0, <2>2
    <3>2. \A h \in 1 .. k - 1 : s[h] = u[h]
      BY <2>0, <2>2, SMTT(30)
    <3>3. DiffersAt(s, u, k)
      BY <1>1, <2>0, <2>2, <3>1, <3>2
    <3>4. QED
      BY <1>2, <3>3
  <2>3. CASE l < k
    <3>1. s[l] = t[l] /\ l \in 1 .. Len(s)
      BY <1>1, <2>0, <2>3
    <3>2. \A h \in 1 .. l - 1 : s[h] = u[h]
      BY <1>1, <2>0, <2>3
    <3>3. DiffersAt(s, u, l)
      BY <1>1, <2>0, <3>1, <3>2
    <3>4. QED
      BY <1>2, <3>3
  <2>4. QED
    BY <1>1, <2>0, <2>1, <2>2, <2>3
<1> HIDE DEF Prefix, DiffersAt
<1>7. QED
  BY <1>2, <1>3, <1>4, <1>5, <1>6

(* Texts that are not equal are in order: a prefix comes first, else the first  *)
(* place where they differ decides.                                             *)
LEMMA TextBeforeTotal ==
  ASSUME NEW s \in Seq(Int), NEW t \in Seq(Int), s # t
  PROVE  TextBefore(s, t) \/ TextBefore(t, s)
<1> DEFINE differ == {k \in 1 .. Len(s) : k <= Len(t) /\ s[k] # t[k]}
<1>1. /\ Len(s) \in Nat /\ Len(t) \in Nat
      /\ \A k \in 1 .. Len(s) : s[k] \in Int
      /\ \A k \in 1 .. Len(t) : t[k] \in Int
  BY ElementOfSeq, LenProperties
<1>2. CASE differ = {}
  <2>1. \A k \in 1 .. Len(s) : k <= Len(t) => s[k] = t[k]
    BY <1>2
  <2>2. Len(s) # Len(t)
    <3> SUFFICES ASSUME Len(s) = Len(t) PROVE s = t
      OBVIOUS
    <3>1. \A k \in 1 .. Len(s) : s[k] = t[k]
      BY <1>1, <2>1
    <3>2. QED
      BY <3>1, SeqEqual
  <2>3. QED
    BY <1>1, <2>1, <2>2 DEF TextBefore
<1>3. CASE differ # {}
  <2>1. differ \in SUBSET Nat
    BY <1>1
  <2>2. PICK k \in differ : \A h \in differ : k <= h
    BY <1>3, <2>1, LeastNatural
  <2>3. /\ k \in 1 .. Len(s) /\ k \in 1 .. Len(t) /\ s[k] # t[k]
        /\ \A h \in 1 .. k - 1 : s[h] = t[h]
    <3>1. k \in 1 .. Len(s) /\ k \in 1 .. Len(t) /\ s[k] # t[k]
      BY <1>1
    <3>2. ASSUME NEW h \in 1 .. k - 1 PROVE s[h] = t[h]
      <4>1. h \in 1 .. Len(s) /\ h <= Len(t) /\ ~ (k <= h)
        BY <1>1, <3>1
      <4>2. h \notin differ
        BY <2>2, <4>1
      <4>3. QED
        BY <4>1, <4>2
    <3>3. QED
      BY <3>1, <3>2
  <2>4. s[k] < t[k] \/ t[k] < s[k]
    BY <1>1, <2>3
  <2>5. QED
    BY <1>1, <2>3, <2>4 DEF TextBefore
<1>4. QED
  BY <1>2, <1>3

-----------------------------------------------------------------------------
(* Encode.                                                                 *)

(* What is left of a number after its last digit. *)
LEMMA Quotient ==
  ASSUME NEW n \in Nat
  PROVE  /\ n \div Base \in Nat /\ n % Base \in Nat
         /\ n = Base * (n \div Base) + (n % Base)
         /\ n >= Base => n \div Base < n
<1>1. Base \in Nat /\ Base > 1
  BY BaseAssumption
<1>2. /\ n \div Base \in Nat /\ n % Base \in Nat
      /\ n = Base * (n \div Base) + (n % Base)
  BY <1>1
<1>3. ASSUME NEW q \in Nat, NEW r \in Nat, n = Base * q + r, n >= Base
      PROVE  q < n
  BY <1>1, <1>3
<1>4. QED
  BY <1>2, <1>3

(* One round of the division, given the texts of smaller numbers. *)
Round(f, n) == IF n < Base THEN <<n>> ELSE Append(f[n \div Base], n % Base)

(* The functions that are Encode as far as k. *)
UpTo(k) == {g \in [0 .. k -> Seq(Nat)] : \A n \in 0 .. k : g[n] = Round(g, n)}

LEMMA UpToAgree ==
  ASSUME NEW k \in Nat, NEW g \in UpTo(k), NEW l \in Nat, NEW h \in UpTo(l),
         NEW n \in Nat, n <= k, n <= l
  PROVE  g[n] = h[n]
<1> DEFINE differ == {m \in Nat : m <= k /\ m <= l /\ g[m] # h[m]}
<1>1. SUFFICES ASSUME differ # {} PROVE FALSE
  OBVIOUS
<1>2. PICK m \in differ : \A i \in differ : m <= i
  BY <1>1, LeastNatural
<1>3. g[m] = Round(g, m) /\ h[m] = Round(h, m)
  BY <1>2 DEF UpTo
<1>4. CASE m < Base
  BY <1>2, <1>3, <1>4 DEF Round
<1>5. CASE ~ (m < Base)
  <2>1. m \div Base \in Nat /\ m \div Base < m
    BY <1>2, <1>5, Quotient, BaseAssumption
  <2>2. m \div Base \notin differ
    BY <1>2, <2>1
  <2>3. g[m \div Base] = h[m \div Base]
    BY <1>2, <2>1, <2>2
  <2>4. QED
    BY <1>2, <1>3, <1>5, <2>3 DEF Round
<1>6. QED
  BY <1>4, <1>5

LEMMA UpToExists ==
  ASSUME NEW k \in Nat
  PROVE  UpTo(k) # {}
<1> DEFINE none == {m \in Nat : UpTo(m) = {}}
<1>1. SUFFICES ASSUME none # {} PROVE FALSE
  OBVIOUS
<1>2. PICK m \in none : \A i \in none : m <= i
  BY <1>1, LeastNatural
<1>3. CASE m = 0
  <2> DEFINE g == [n \in 0 .. 0 |-> <<0>>]
  <2>1. g \in [0 .. 0 -> Seq(Nat)]
    OBVIOUS
  <2>2. \A n \in 0 .. 0 : n = 0 /\ g[n] = <<0>> /\ n < Base
    BY BaseAssumption
  <2> HIDE DEF g
  <2>3. g \in UpTo(0)
    BY <2>1, <2>2 DEF UpTo, Round
  <2>4. QED
    BY <1>2, <1>3, <2>3
<1>4. CASE m # 0
  <2>1. m - 1 \in Nat /\ m - 1 \notin none
    BY <1>2, <1>4
  <2>2. PICK f \in UpTo(m - 1) : TRUE
    BY <2>1
  <2>3. f \in [0 .. m - 1 -> Seq(Nat)] /\ \A n \in 0 .. m - 1 : f[n] = Round(f, n)
    BY <2>2 DEF UpTo
  <2> DEFINE g == [n \in 0 .. m |-> IF n < m THEN f[n] ELSE Round(f, m)]
  <2>4. \A n \in 0 .. m : n >= Base => n \div Base \in 0 .. m - 1
    BY <1>2, <1>4, Quotient
  <2>5. Round(f, m) \in Seq(Nat)
    <3>1. CASE m < Base
      BY <3>1 DEF Round
    <3>2. CASE ~ (m < Base)
      <4>1. m \div Base \in 0 .. m - 1 /\ m % Base \in Nat
        BY <1>2, <2>4, <3>2, Quotient, BaseAssumption
      <4>2. f[m \div Base] \in Seq(Nat)
        BY <2>3, <4>1
      <4>3. QED
        BY <3>2, <4>1, <4>2, AppendProperties DEF Round
    <3>3. QED
      BY <3>1, <3>2
  <2>6. g \in [0 .. m -> Seq(Nat)]
    <3> SUFFICES ASSUME NEW n \in 0 .. m
                 PROVE  (IF n < m THEN f[n] ELSE Round(f, m)) \in Seq(Nat)
      OBVIOUS
    <3>1. n < m => n \in 0 .. m - 1
      BY <1>2
    <3>2. QED
      BY <2>3, <2>5, <3>1
  <2>7. \A n \in 0 .. m - 1 : g[n] = f[n]
    BY <1>2
  <2>8. g[m] = Round(f, m)
    BY <1>2
  <2> HIDE DEF g
  <2>9. ASSUME NEW n \in 0 .. m
        PROVE  Round(g, n) = Round(f, n)
    <3>1. CASE n < Base
      BY <3>1 DEF Round
    <3>2. CASE ~ (n < Base)
      <4>1. n \div Base \in 0 .. m - 1
        BY <1>2, <2>4, <3>2, BaseAssumption
      <4>2. QED
        BY <2>7, <3>2, <4>1 DEF Round
    <3>3. QED
      BY <3>1, <3>2
  <2>10. ASSUME NEW n \in 0 .. m
         PROVE  g[n] = Round(g, n)
    <3>1. CASE n = m
      BY <2>8, <2>9, <3>1
    <3>2. CASE n # m
      <4>1. n \in 0 .. m - 1
        BY <1>2, <3>2
      <4>2. QED
        BY <2>3, <2>7, <2>9, <4>1
    <3>3. QED
      BY <3>1, <3>2
  <2>11. g \in UpTo(m)
    BY <2>6, <2>10 DEF UpTo
  <2>12. QED
    BY <1>2, <2>11
<1>5. QED
  BY <1>3, <1>4

(* The recursion of Encode is well-founded, so Encode is what it says. *)
LEMMA EncodeRound ==
  /\ DOMAIN Encode = Nat
  /\ \A n \in Nat : Encode[n] \in Seq(Nat) /\ Encode[n] = Round(Encode, n)
<1> DEFINE g(n) == CHOOSE h \in UpTo(n) : TRUE
           f    == [n \in Nat |-> g(n)[n]]
<1>1. \A n \in Nat : g(n) \in UpTo(n)
  BY UpToExists
<1> HIDE DEF g
<1>2. \A n \in Nat : f[n] = g(n)[n]
  OBVIOUS
<1>3. \A n \in Nat : f[n] \in Seq(Nat) /\ g(n)[n] = Round(g(n), n)
  <2> SUFFICES ASSUME NEW n \in Nat
               PROVE  f[n] \in Seq(Nat) /\ g(n)[n] = Round(g(n), n)
    OBVIOUS
  <2>1. n \in 0 .. n /\ g(n) \in [0 .. n -> Seq(Nat)]
    BY <1>1 DEF UpTo
  <2>2. QED
    BY <1>1, <1>2, <2>1 DEF UpTo
<1> HIDE DEF f
<1>4. ASSUME NEW n \in Nat
      PROVE  f[n] = Round(f, n)
  <2>1. CASE n < Base
    BY <1>2, <1>3, <2>1 DEF Round
  <2>2. CASE ~ (n < Base)
    <3>1. n \div Base \in Nat /\ n \div Base <= n
      BY <2>2, Quotient, BaseAssumption
    <3>2. g(n)[n \div Base] = g(n \div Base)[n \div Base]
      BY <1>1, <3>1, UpToAgree
    <3>3. f[n \div Base] = g(n)[n \div Base]
      BY <1>2, <3>1, <3>2
    <3>4. QED
      BY <1>2, <1>3, <2>2, <3>3 DEF Round
  <2>3. QED
    BY <2>1, <2>2
<1>5. f = [n \in Nat |-> Round(f, n)]
  BY <1>4 DEF f
<1>6. Encode = [n \in Nat |-> Round(Encode, n)]
  BY <1>5 DEF Encode, Round
<1>7. ASSUME NEW h, h = [n \in Nat |-> Round(h, n)]
      PROVE  \A n \in Nat : h[n] = f[n]
  <2> DEFINE differ == {m \in Nat : h[m] # f[m]}
  <2>1. SUFFICES ASSUME differ # {} PROVE FALSE
    OBVIOUS
  <2>2. PICK m \in differ : \A i \in differ : m <= i
    BY <2>1, LeastNatural
  <2>3. h[m] = Round(h, m) /\ f[m] = Round(f, m)
    BY <1>4, <1>7
  <2>4. CASE m < Base
    BY <2>2, <2>3, <2>4 DEF Round
  <2>5. CASE ~ (m < Base)
    <3>1. m \div Base \in Nat /\ m \div Base < m
      BY <2>2, <2>5, Quotient, BaseAssumption
    <3>2. m \div Base \notin differ
      BY <2>2, <3>1
    <3>3. QED
      BY <2>2, <2>3, <2>5, <3>1, <3>2 DEF Round
  <2>6. QED
    BY <2>4, <2>5
<1>8. DOMAIN Encode = Nat /\ \A n \in Nat : Encode[n] = Round(Encode, n)
  BY <1>6
<1>9. QED
  BY <1>3, <1>6, <1>7, <1>8

LEMMA EncodeType ==
  ASSUME NEW n \in Nat
  PROVE  Encode[n] \in Seq(Int) /\ Len(Encode[n]) > 0
<1>1. Encode[n] \in Seq(Nat) /\ Encode[n] = Round(Encode, n)
  BY EncodeRound
<1>2. Encode[n] \in Seq(Int)
  <2>1. Seq(Nat) \subseteq Seq(Int)
    OBVIOUS
  <2>2. QED
    BY <1>1, <2>1
<1>3. CASE n < Base
  <2>1. Encode[n] = <<n>>
    BY <1>1, <1>3 DEF Round
  <2>2. QED
    BY <1>2, <2>1
<1>4. CASE ~ (n < Base)
  <2>1. n \div Base \in Nat /\ n % Base \in Nat /\ Encode[n] = Append(Encode[n \div Base], n % Base)
    BY <1>1, <1>4, Quotient DEF Round
  <2>2. Encode[n \div Base] \in Seq(Nat)
    BY <2>1, EncodeRound
  <2>3. Len(Encode[n]) = Len(Encode[n \div Base]) + 1 /\ Len(Encode[n \div Base]) \in Nat
    BY <2>1, <2>2, AppendProperties, LenProperties
  <2>4. QED
    BY <1>2, <2>3
<1>5. QED
  BY <1>3, <1>4

(* A number of several digits is not taken for one of one digit. *)
LEMMA LongerText ==
  ASSUME NEW n \in Nat, NEW m \in Nat, n < Base, ~ (m < Base)
  PROVE  Encode[n] # Encode[m]
<1>1. Encode[n] = <<n>>
  BY EncodeRound DEF Round
<1>2. m \div Base \in Nat /\ m % Base \in Nat /\ Encode[m] = Append(Encode[m \div Base], m % Base)
  BY EncodeRound, Quotient DEF Round
<1>3. Encode[m \div Base] \in Seq(Nat) /\ Len(Encode[m \div Base]) > 0
  BY <1>2, EncodeRound, EncodeType
<1>4. Len(Encode[m]) = Len(Encode[m \div Base]) + 1
  BY <1>2, <1>3, AppendProperties
<1>5. Len(Encode[n]) = 1
  BY <1>1
<1>6. Len(Encode[m \div Base]) \in Nat
  BY <1>3, LenProperties
<1>7. Len(Encode[m]) # 1
  BY <1>3, <1>4, <1>6
<1>8. QED
  BY <1>5, <1>7

LEMMA SameAppend ==
  ASSUME NEW s \in Seq(Nat), NEW t \in Seq(Nat), NEW d \in Nat, NEW e \in Nat,
         Append(s, d) = Append(t, e)
  PROVE  s = t /\ d = e
BY AppendInjective

-----------------------------------------------------------------------------
(* Theorems.                                                               *)

(* Encode never gives two numbers the same text, so the texts can be the primary *)
(* key the database makes of them (todos.id).                                    *)
THEOREM TextsDistinct ==
  \A m, n \in Nat : Encode[m] = Encode[n] => m = n
<1> DEFINE clash == {n \in Nat : \E m \in Nat : m # n /\ Encode[m] = Encode[n]}
<1>1. SUFFICES ASSUME clash # {} PROVE FALSE
  OBVIOUS
<1>2. PICK n \in clash : \A i \in clash : n <= i
  BY <1>1, LeastNatural
<1>3. PICK m \in Nat : m # n /\ Encode[m] = Encode[n]
  BY <1>2
<1>4. n \in Nat
  BY <1>2
<1>5. CASE n < Base /\ m < Base
  <2>1. Encode[n] = <<n>> /\ Encode[m] = <<m>>
    BY <1>3, <1>4, <1>5, EncodeRound DEF Round
  <2>2. QED
    BY <1>3, <2>1
<1>6. CASE ~ (n < Base) /\ ~ (m < Base)
  <2>1. /\ n \div Base \in Nat /\ n % Base \in Nat /\ n \div Base < n
        /\ m \div Base \in Nat /\ m % Base \in Nat
        /\ n = Base * (n \div Base) + (n % Base)
        /\ m = Base * (m \div Base) + (m % Base)
    BY <1>3, <1>4, <1>6, Quotient, BaseAssumption
  <2>2. /\ Encode[n] = Append(Encode[n \div Base], n % Base)
        /\ Encode[m] = Append(Encode[m \div Base], m % Base)
    BY <1>3, <1>4, <1>6, EncodeRound DEF Round
  <2>3. Encode[n \div Base] \in Seq(Nat) /\ Encode[m \div Base] \in Seq(Nat)
    BY <2>1, EncodeRound
  <2>4. Encode[n \div Base] = Encode[m \div Base] /\ n % Base = m % Base
    <3> DEFINE s == Encode[n \div Base]  d == n % Base
               t == Encode[m \div Base]  e == m % Base
    <3>1. Append(s, d) = Append(t, e)
      BY <1>3, <2>2
    <3>2. s \in Seq(Nat) /\ t \in Seq(Nat) /\ d \in Nat /\ e \in Nat
      BY <2>1, <2>3
    <3> HIDE DEF s, t, d, e
    <3>3. s = t /\ d = e
      BY <3>1, <3>2, SameAppend
    <3>4. QED
      BY <3>3 DEF s, t, d, e
  <2>5. n \div Base \notin clash
    BY <1>2, <2>1
  <2>6. m \div Base = n \div Base
    BY <2>1, <2>4, <2>5
  <2>7. QED
    BY <1>3, <2>1, <2>4, <2>6
<1>7. CASE (n < Base) # (m < Base)
  BY <1>3, <1>4, <1>7, LongerText
<1>8. QED
  BY <1>5, <1>6, <1>7

(* ORDER BY id is a strict total order of the ids. *)
THEOREM IdOrder ==
  /\ \A m \in Nat : ~ IdBefore(m, m)
  /\ \A l, m, n \in Nat : IdBefore(l, m) /\ IdBefore(m, n) => IdBefore(l, n)
  /\ \A m, n \in Nat : m # n => IdBefore(m, n) \/ IdBefore(n, m)
<1>1. \A n \in Nat : Encode[n] \in Seq(Int)
  BY EncodeType
<1>2. QED
  BY <1>1, TextsDistinct, TextBeforeIrreflexive, TextBeforeTransitive, TextBeforeTotal DEF IdBefore

=============================================================================
