----------------------------- MODULE AesProofs -----------------------------
(***************************************************************************)
(* The cipher, for every key of every size, every block, every number of   *)
(* calls and every pair of substitution tables inverse to each other:      *)
(* decryption retraces encryption stage by stage, and every call, seen     *)
(* from outside, applies one permutation of the blocks or its inverse.     *)
(* The only thing taken from the tables is TablesAssumption, which the     *)
(* runs evaluate on the tables of aes.c.                                   *)
(***************************************************************************)
EXTENDS Aes, WellFoundedInduction, TLAPS

---------------------------------------------------------------------------
(* Bytes: exclusive or is a group operation that xtime respects. *)

LEMMA XorByte ==
  ASSUME NEW a \in Byte, NEW b \in Byte
  PROVE  Xor(a, b) \in Byte
BY DEF Xor, SymDiff, Byte

LEMMA XorCancels ==
  ASSUME NEW a \in Byte, NEW b \in Byte
  PROVE  Xor(Xor(a, b), b) = a
BY DEF Xor, SymDiff, Byte

LEMMA XtimeByte ==
  ASSUME NEW a \in Byte
  PROVE  xtime(a) \in Byte
BY DEF xtime, Xor, SymDiff, Byte, Bits

LEMMA XtimeAdds ==
  ASSUME NEW a \in Byte, NEW b \in Byte
  PROVE  xtime(Xor(a, b)) = Xor(xtime(a), xtime(b))
<1> DEFINE Shift(x) == {i \in Bits : i - 1 \in x}
           Fold(x) == IF 7 \in x THEN {0, 1, 3, 4} ELSE {}
<1>1. Shift(Xor(a, b)) = Xor(Shift(a), Shift(b))
  BY DEF Xor, SymDiff, Bits
<1>2. Fold(Xor(a, b)) = Xor(Fold(a), Fold(b))
  BY DEF Xor, SymDiff
<1>3. ASSUME NEW p, NEW q, NEW r, NEW s
      PROVE  Xor(Xor(p, q), Xor(r, s)) = Xor(Xor(p, r), Xor(q, s))
  BY DEF Xor, SymDiff
<1>4. xtime(Xor(a, b)) = Xor(Xor(Shift(a), Shift(b)), Xor(Fold(a), Fold(b)))
  BY <1>1, <1>2 DEF xtime
<1>5. Xor(xtime(a), xtime(b)) = Xor(Xor(Shift(a), Fold(a)), Xor(Shift(b), Fold(b)))
  BY DEF xtime
<1> HIDE DEF Shift, Fold
<1> QED
  BY <1>3, <1>4, <1>5

(* The columns.  Both directions of the MixColumns inverse come from terms  *)
(* grouped by their power of xtime: the third powers of all four bytes, the *)
(* second powers of two, the first powers of two, and the bytes.           *)

Sum4(a, b, c, d) == Xor(Xor(a, b), Xor(c, d))

Mixed(a, b, c, d) == Xor(Sum4(a, b, c, d), Xor(a, xtime(Xor(a, b))))

LEMMA Regroup ==
  ASSUME NEW a1, NEW a2, NEW a3, NEW b, NEW b1, NEW b3, NEW c, NEW c2, NEW c3, NEW d, NEW d3
  PROVE  Xor(Xor(Xor(Xor(Xor(a1, a2), a3), Xor(Xor(b, b1), b3)), Xor(Xor(c, c2), c3)), Xor(d, d3))
         = Sum4(Sum4(a3, b3, c3, d3), Xor(a2, c2), Xor(a1, b1), Xor(Xor(b, c), d))
BY DEF Sum4, Xor, SymDiff

LEMMA MultiplyTerms ==
  ASSUME NEW x
  PROVE  LET x1 == xtime(x)
             x2 == xtime(x1)
             x3 == xtime(x2)
         IN  /\ Multiply(x, {1, 2, 3}) = Xor(Xor(x1, x2), x3)
             /\ Multiply(x, {0, 1, 3}) = Xor(Xor(x, x1), x3)
             /\ Multiply(x, {0, 2, 3}) = Xor(Xor(x, x2), x3)
             /\ Multiply(x, {0, 3}) = Xor(x, x3)
<1>1. /\ 0 \notin {1, 2, 3} /\ 4 \notin {1, 2, 3} /\ 2 \notin {0, 1, 3} /\ 4 \notin {0, 1, 3}
      /\ 1 \notin {0, 2, 3} /\ 4 \notin {0, 2, 3}
      /\ 1 \notin {0, 3} /\ 2 \notin {0, 3} /\ 4 \notin {0, 3}
  OBVIOUS
<1>2. ASSUME NEW p PROVE Xor({}, p) = p /\ Xor(p, {}) = p
  BY DEF Xor, SymDiff
<1> QED
  BY <1>1, <1>2 DEF Multiply

Unmixed(a, b, c, d) ==
  LET x3(v) == xtime(xtime(xtime(v)))
      x2(v) == xtime(xtime(v))
  IN  Sum4(Sum4(x3(a), x3(b), x3(c), x3(d)), Xor(x2(a), x2(c)), Xor(xtime(a), xtime(b)),
           Xor(Xor(b, c), d))

LEMMA MixedByte ==
  ASSUME NEW a \in Byte, NEW b \in Byte, NEW c \in Byte, NEW d \in Byte
  PROVE  Mixed(a, b, c, d) \in Byte /\ Unmixed(a, b, c, d) \in Byte
<1>1. ASSUME NEW p \in Byte, NEW q \in Byte, NEW r \in Byte, NEW s \in Byte
      PROVE  Sum4(p, q, r, s) \in Byte
  BY XorByte DEF Sum4
<1>2. Mixed(a, b, c, d) \in Byte
  BY <1>1, XorByte, XtimeByte DEF Mixed
<1>3. Unmixed(a, b, c, d) \in Byte
  BY <1>1, XorByte, XtimeByte DEF Unmixed
<1> QED
  BY <1>2, <1>3

LEMMA XtimeSum4 ==
  ASSUME NEW a \in Byte, NEW b \in Byte, NEW c \in Byte, NEW d \in Byte
  PROVE  xtime(Sum4(a, b, c, d)) = Sum4(xtime(a), xtime(b), xtime(c), xtime(d))
BY XorByte, XtimeAdds DEF Sum4

LEMMA XtimeMixed ==
  ASSUME NEW a \in Byte, NEW b \in Byte, NEW c \in Byte, NEW d \in Byte
  PROVE  xtime(Mixed(a, b, c, d)) = Mixed(xtime(a), xtime(b), xtime(c), xtime(d))
<1>1. Sum4(a, b, c, d) \in Byte /\ Xor(a, b) \in Byte /\ xtime(Xor(a, b)) \in Byte
  BY XorByte, XtimeByte DEF Sum4
<1>2. xtime(Mixed(a, b, c, d)) = Xor(xtime(Sum4(a, b, c, d)), Xor(xtime(a), xtime(xtime(Xor(a, b)))))
  BY <1>1, XorByte, XtimeAdds DEF Mixed
<1>3. xtime(Xor(a, b)) = Xor(xtime(a), xtime(b))
  BY XtimeAdds
<1> QED
  BY <1>2, <1>3, XtimeSum4 DEF Mixed

(* Four groups of a row of InvMixColumns, applied to a mixed column. *)
LEMMA UnmixGroups ==
  ASSUME NEW a, NEW a1, NEW a2, NEW b, NEW b1, NEW c, NEW c1, NEW c2, NEW d, NEW d1
  PROVE  /\ Sum4(Xor(Sum4(a, b, c, d), Xor(a, Xor(a1, b1))), Xor(Sum4(b, c, d, a), Xor(b, Xor(b1, c1))),
                 Xor(Sum4(c, d, a, b), Xor(c, Xor(c1, d1))), Xor(Sum4(d, a, b, c), Xor(d, Xor(d1, a1))))
            = Sum4(a, b, c, d)
         /\ Xor(Xor(Sum4(a, b, c, d), Xor(a, Xor(a1, b1))), Xor(Sum4(c, d, a, b), Xor(c, Xor(c1, d1))))
            = Xor(Xor(a, c), Sum4(a1, b1, c1, d1))
         /\ Xor(Xor(Sum4(a, b, c, d), Xor(a, Xor(a1, b1))), Xor(Sum4(b, c, d, a), Xor(b, Xor(b1, c1))))
            = Xor(Xor(a, b), Xor(a1, c1))
         /\ Xor(Xor(Xor(Sum4(b, c, d, a), Xor(b, Xor(b1, c1))), Xor(Sum4(c, d, a, b), Xor(c, Xor(c1, d1)))),
                Xor(Sum4(d, a, b, c), Xor(d, Xor(d1, a1))))
            = Xor(a, Xor(a1, b1))
<1>1. Sum4(Xor(Sum4(a, b, c, d), Xor(a, Xor(a1, b1))), Xor(Sum4(b, c, d, a), Xor(b, Xor(b1, c1))),
           Xor(Sum4(c, d, a, b), Xor(c, Xor(c1, d1))), Xor(Sum4(d, a, b, c), Xor(d, Xor(d1, a1))))
      = Sum4(a, b, c, d)
  BY DEF Sum4, Xor, SymDiff
<1>2. Xor(Xor(Sum4(a, b, c, d), Xor(a, Xor(a1, b1))), Xor(Sum4(c, d, a, b), Xor(c, Xor(c1, d1))))
      = Xor(Xor(a, c), Sum4(a1, b1, c1, d1))
  BY DEF Sum4, Xor, SymDiff
<1>3. Xor(Xor(Sum4(a, b, c, d), Xor(a, Xor(a1, b1))), Xor(Sum4(b, c, d, a), Xor(b, Xor(b1, c1))))
      = Xor(Xor(a, b), Xor(a1, c1))
  BY DEF Sum4, Xor, SymDiff
<1>4. Xor(Xor(Xor(Sum4(b, c, d, a), Xor(b, Xor(b1, c1))), Xor(Sum4(c, d, a, b), Xor(c, Xor(c1, d1)))),
          Xor(Sum4(d, a, b, c), Xor(d, Xor(d1, a1))))
      = Xor(a, Xor(a1, b1))
  BY DEF Sum4, Xor, SymDiff
<1> QED
  BY <1>1, <1>2, <1>3, <1>4

LEMMA MixedGroups ==
  ASSUME NEW a \in Byte, NEW b \in Byte, NEW c \in Byte, NEW d \in Byte
  PROVE  LET m0 == Mixed(a, b, c, d)
             m1 == Mixed(b, c, d, a)
             m2 == Mixed(c, d, a, b)
             m3 == Mixed(d, a, b, c)
         IN  /\ Sum4(m0, m1, m2, m3) = Sum4(a, b, c, d)
             /\ Xor(m0, m2) = Xor(Xor(a, c), Sum4(xtime(a), xtime(b), xtime(c), xtime(d)))
             /\ Xor(m0, m1) = Xor(Xor(a, b), Xor(xtime(a), xtime(c)))
             /\ Xor(Xor(m1, m2), m3) = Xor(a, Xor(xtime(a), xtime(b)))
<1>1. ASSUME NEW p \in Byte, NEW q \in Byte, NEW r, NEW s
      PROVE  Mixed(p, q, r, s) = Xor(Sum4(p, q, r, s), Xor(p, Xor(xtime(p), xtime(q))))
  BY XtimeAdds DEF Mixed
<1> QED
  BY <1>1, UnmixGroups

LEMMA UnmixRow ==
  ASSUME NEW a \in Byte, NEW b \in Byte, NEW c \in Byte, NEW d \in Byte
  PROVE  Unmixed(Mixed(a, b, c, d), Mixed(b, c, d, a), Mixed(c, d, a, b), Mixed(d, a, b, c)) = a
<1> DEFINE x1(v) == xtime(v)
           x2(v) == xtime(xtime(v))
           x3(v) == xtime(xtime(xtime(v)))
           m0 == Mixed(a, b, c, d)
           m1 == Mixed(b, c, d, a)
           m2 == Mixed(c, d, a, b)
           m3 == Mixed(d, a, b, c)
           Sum3 == Sum4(x3(a), x3(b), x3(c), x3(d))
<1>1. ASSUME NEW p \in Byte, NEW q \in Byte, NEW r \in Byte, NEW s \in Byte
      PROVE  /\ x1(Mixed(p, q, r, s)) = Mixed(x1(p), x1(q), x1(r), x1(s))
             /\ x2(Mixed(p, q, r, s)) = Mixed(x2(p), x2(q), x2(r), x2(s))
             /\ x3(Mixed(p, q, r, s)) = Mixed(x3(p), x3(q), x3(r), x3(s))
  <2>1. x1(Mixed(p, q, r, s)) = Mixed(x1(p), x1(q), x1(r), x1(s))
    BY XtimeMixed
  <2>2. x2(Mixed(p, q, r, s)) = Mixed(x2(p), x2(q), x2(r), x2(s))
    BY <2>1, XtimeMixed, XtimeByte
  <2>3. x3(Mixed(p, q, r, s)) = Mixed(x3(p), x3(q), x3(r), x3(s))
    BY <2>2, XtimeMixed, XtimeByte
  <2> QED
    BY <2>1, <2>2, <2>3
<1>2. ASSUME NEW v \in Byte PROVE x1(v) \in Byte /\ x2(v) \in Byte /\ x3(v) \in Byte
  BY XtimeByte
<1>3. Sum4(x3(m0), x3(m1), x3(m2), x3(m3)) = Sum3
  <2> HIDE DEF x1, x2, x3
  <2>1. Sum4(Mixed(x3(a), x3(b), x3(c), x3(d)), Mixed(x3(b), x3(c), x3(d), x3(a)),
             Mixed(x3(c), x3(d), x3(a), x3(b)), Mixed(x3(d), x3(a), x3(b), x3(c))) = Sum3
    <3>1. x3(a) \in Byte /\ x3(b) \in Byte /\ x3(c) \in Byte /\ x3(d) \in Byte
      BY <1>2
    <3> QED
      BY <3>1, MixedGroups
  <2> QED
    BY <1>1, <2>1
<1>4. Xor(x2(m0), x2(m2)) = Xor(Xor(x2(a), x2(c)), Sum3)
  <2>1. xtime(x2(a)) = x3(a) /\ xtime(x2(b)) = x3(b) /\ xtime(x2(c)) = x3(c) /\ xtime(x2(d)) = x3(d)
    OBVIOUS
  <2> HIDE DEF x1, x2, x3
  <2>2. Xor(Mixed(x2(a), x2(b), x2(c), x2(d)), Mixed(x2(c), x2(d), x2(a), x2(b)))
        = Xor(Xor(x2(a), x2(c)), Sum3)
    BY <1>2, <2>1, MixedGroups
  <2> QED
    BY <1>1, <2>2
<1>5. Xor(x1(m0), x1(m1)) = Xor(Xor(x1(a), x1(b)), Xor(x2(a), x2(c)))
  <2>1. xtime(x1(a)) = x2(a) /\ xtime(x1(c)) = x2(c)
    OBVIOUS
  <2> HIDE DEF x1, x2, x3
  <2>2. Xor(Mixed(x1(a), x1(b), x1(c), x1(d)), Mixed(x1(b), x1(c), x1(d), x1(a)))
        = Xor(Xor(x1(a), x1(b)), Xor(x2(a), x2(c)))
    BY <1>2, <2>1, MixedGroups
  <2> QED
    BY <1>1, <2>2
<1>6. Xor(Xor(m1, m2), m3) = Xor(a, Xor(x1(a), x1(b)))
  BY MixedGroups
<1>7. ASSUME NEW p, NEW q, NEW r
      PROVE  Sum4(p, Xor(q, p), Xor(r, q), Xor(a, r)) = a
  BY DEF Sum4, Xor, SymDiff, Byte
<1> QED
  BY <1>3, <1>4, <1>5, <1>6, <1>7 DEF Unmixed

LEMMA MixRow ==
  ASSUME NEW a \in Byte, NEW b \in Byte, NEW c \in Byte, NEW d \in Byte
  PROVE  Mixed(Unmixed(a, b, c, d), Unmixed(b, c, d, a), Unmixed(c, d, a, b), Unmixed(d, a, b, c)) = a
<1> DEFINE x1(v) == xtime(v)
           x2(v) == xtime(xtime(v))
           x3(v) == xtime(xtime(xtime(v)))
           u0 == Unmixed(a, b, c, d)
           u1 == Unmixed(b, c, d, a)
           u2 == Unmixed(c, d, a, b)
           u3 == Unmixed(d, a, b, c)
           Sum3 == Sum4(x3(a), x3(b), x3(c), x3(d))
           first == Xor(x1(a), x1(b))
           second == Xor(x2(a), x2(c))
<1>1. ASSUME NEW v \in Byte PROVE x1(v) \in Byte /\ x2(v) \in Byte /\ x3(v) \in Byte
  BY XtimeByte
<1>2. ASSUME NEW p, NEW q, NEW r, NEW s
      PROVE  Sum4(q, r, s, p) = Sum4(p, q, r, s)
  BY DEF Sum4, Xor, SymDiff
<1>3. /\ u0 = Sum4(Sum3, Xor(x2(a), x2(c)), Xor(x1(a), x1(b)), Xor(Xor(b, c), d))
      /\ u1 = Sum4(Sum3, Xor(x2(b), x2(d)), Xor(x1(b), x1(c)), Xor(Xor(c, d), a))
      /\ u2 = Sum4(Sum3, Xor(x2(c), x2(a)), Xor(x1(c), x1(d)), Xor(Xor(d, a), b))
      /\ u3 = Sum4(Sum3, Xor(x2(d), x2(b)), Xor(x1(d), x1(a)), Xor(Xor(a, b), c))
  BY <1>2 DEF Unmixed
<1>4. Sum4(u0, u1, u2, u3) = Sum4(a, b, c, d)
  <2>1. ASSUME NEW s, NEW a1, NEW b1, NEW c1, NEW d1, NEW a2, NEW b2, NEW c2, NEW d2
        PROVE  Sum4(Sum4(s, Xor(a2, c2), Xor(a1, b1), Xor(Xor(b, c), d)),
                    Sum4(s, Xor(b2, d2), Xor(b1, c1), Xor(Xor(c, d), a)),
                    Sum4(s, Xor(c2, a2), Xor(c1, d1), Xor(Xor(d, a), b)),
                    Sum4(s, Xor(d2, b2), Xor(d1, a1), Xor(Xor(a, b), c))) = Sum4(a, b, c, d)
    BY DEF Sum4, Xor, SymDiff
  <2> HIDE DEF x1, x2, Sum3, u0, u1, u2, u3
  <2> QED
    BY <1>3, <2>1
<1>5. Xor(u0, u1) = Xor(Sum4(x2(a), x2(b), x2(c), x2(d)), Xor(Xor(x1(a), x1(c)), Xor(a, b)))
  <2>1. ASSUME NEW s, NEW a1, NEW b1, NEW c1, NEW d1, NEW a2, NEW b2, NEW c2, NEW d2
        PROVE  Xor(Sum4(s, Xor(a2, c2), Xor(a1, b1), Xor(Xor(b, c), d)),
                   Sum4(s, Xor(b2, d2), Xor(b1, c1), Xor(Xor(c, d), a)))
               = Xor(Sum4(a2, b2, c2, d2), Xor(Xor(a1, c1), Xor(a, b)))
    BY DEF Sum4, Xor, SymDiff
  <2> HIDE DEF x1, x2, Sum3, u0, u1, u2, u3
  <2> QED
    BY <1>3, <2>1
<1>6. xtime(Xor(u0, u1)) = Xor(Sum3, Xor(second, first))
  <2>1. Sum4(x2(a), x2(b), x2(c), x2(d)) \in Byte /\ Xor(x1(a), x1(c)) \in Byte /\ Xor(a, b) \in Byte
    BY <1>1, XorByte DEF Sum4
  <2>2. xtime(Sum4(x2(a), x2(b), x2(c), x2(d))) = Sum3
    <3>1. xtime(x2(a)) = x3(a) /\ xtime(x2(b)) = x3(b) /\ xtime(x2(c)) = x3(c) /\ xtime(x2(d)) = x3(d)
      OBVIOUS
    <3> HIDE DEF x2, x3
    <3> QED
      BY <1>1, <3>1, XtimeSum4
  <2>3. xtime(Xor(Xor(x1(a), x1(c)), Xor(a, b))) = Xor(second, first)
    BY <1>1, <2>1, XtimeAdds
  <2> QED
    BY <1>5, <2>1, <2>2, <2>3, XtimeAdds, XorByte
<1>7. ASSUME NEW p, NEW q, NEW r
      PROVE  Xor(Sum4(a, b, c, d),
                 Xor(Sum4(p, q, r, Xor(Xor(b, c), d)), Xor(p, Xor(q, r)))) = a
  BY DEF Sum4, Xor, SymDiff, Byte
<1>8. Mixed(u0, u1, u2, u3) = Xor(Sum4(a, b, c, d), Xor(u0, Xor(Sum3, Xor(second, first))))
  BY <1>4, <1>6 DEF Mixed
<1>9. u0 = Sum4(Sum3, second, first, Xor(Xor(b, c), d))
  BY <1>3
<1> HIDE DEF Sum3, u0, u1, u2, u3, first, second
<1>10. Mixed(u0, u1, u2, u3) = a
  BY <1>7, <1>8, <1>9
<1> QED
  BY <1>10 DEF u0, u1, u2, u3
---------------------------------------------------------------------------
(* The stages, on words and blocks. *)

LEMMA ColumnRows ==
  ASSUME NEW c
  PROVE  /\ MixColumn(c) = [j \in 0 .. 3 |->
                Mixed(c[j], c[(j + 1) % 4], c[(j + 2) % 4], c[(j + 3) % 4])]
         /\ InvMixColumn(c) = [j \in 0 .. 3 |->
                Unmixed(c[j], c[(j + 1) % 4], c[(j + 2) % 4], c[(j + 3) % 4])]
<1>1. ASSUME NEW j \in 0 .. 3
      PROVE  Xor(c[j], Xor(xtime(Xor(c[j], c[(j + 1) % 4])), Xor(Xor(Xor(c[0], c[1]), c[2]), c[3])))
             = Mixed(c[j], c[(j + 1) % 4], c[(j + 2) % 4], c[(j + 3) % 4])
  <2>1. ASSUME NEW p, NEW q, NEW r, NEW s, NEW x
        PROVE  /\ Xor(p, Xor(x, Xor(Xor(Xor(p, q), r), s))) = Xor(Sum4(p, q, r, s), Xor(p, x))
               /\ Xor(p, Xor(x, Xor(Xor(Xor(s, p), q), r))) = Xor(Sum4(p, q, r, s), Xor(p, x))
               /\ Xor(p, Xor(x, Xor(Xor(Xor(r, s), p), q))) = Xor(Sum4(p, q, r, s), Xor(p, x))
               /\ Xor(p, Xor(x, Xor(Xor(Xor(q, r), s), p))) = Xor(Sum4(p, q, r, s), Xor(p, x))
    BY DEF Sum4, Xor, SymDiff
  <2>2. CASE j = 0
    <3>1. (j + 1) % 4 = 1 /\ (j + 2) % 4 = 2 /\ (j + 3) % 4 = 3
      BY <2>2
    <3> QED
      BY <2>1, <2>2, <3>1 DEF Mixed
  <2>3. CASE j = 1
    <3>1. (j + 1) % 4 = 2 /\ (j + 2) % 4 = 3 /\ (j + 3) % 4 = 0
      BY <2>3
    <3> QED
      BY <2>1, <2>3, <3>1 DEF Mixed
  <2>4. CASE j = 2
    <3>1. (j + 1) % 4 = 3 /\ (j + 2) % 4 = 0 /\ (j + 3) % 4 = 1
      BY <2>4
    <3> QED
      BY <2>1, <2>4, <3>1 DEF Mixed
  <2>5. CASE j = 3
    <3>1. (j + 1) % 4 = 0 /\ (j + 2) % 4 = 1 /\ (j + 3) % 4 = 2
      BY <2>5
    <3> QED
      BY <2>1, <2>5, <3>1 DEF Mixed
  <2> QED
    BY <2>2, <2>3, <2>4, <2>5
<1>2. ASSUME NEW a, NEW b, NEW d, NEW e
      PROVE  Xor(Xor(Xor(Multiply(a, {1, 2, 3}), Multiply(b, {0, 1, 3})), Multiply(d, {0, 2, 3})),
                 Multiply(e, {0, 3})) = Unmixed(a, b, d, e)
  <2>1. Multiply(a, {1, 2, 3}) = Xor(Xor(xtime(a), xtime(xtime(a))), xtime(xtime(xtime(a))))
    BY MultiplyTerms
  <2>2. Multiply(b, {0, 1, 3}) = Xor(Xor(b, xtime(b)), xtime(xtime(xtime(b))))
    BY MultiplyTerms
  <2>3. Multiply(d, {0, 2, 3}) = Xor(Xor(d, xtime(xtime(d))), xtime(xtime(xtime(d))))
    BY MultiplyTerms
  <2>4. Multiply(e, {0, 3}) = Xor(e, xtime(xtime(xtime(e))))
    BY MultiplyTerms
  <2> QED
    BY <2>1, <2>2, <2>3, <2>4, Regroup DEF Unmixed
<1>3. MixColumn(c) = [j \in 0 .. 3 |->
                Mixed(c[j], c[(j + 1) % 4], c[(j + 2) % 4], c[(j + 3) % 4])]
  BY <1>1 DEF MixColumn
<1>4. InvMixColumn(c) = [j \in 0 .. 3 |->
                Unmixed(c[j], c[(j + 1) % 4], c[(j + 2) % 4], c[(j + 3) % 4])]
  BY <1>2 DEF InvMixColumn
<1> QED
  BY <1>3, <1>4

LEMMA Rotations ==
  ASSUME NEW i \in 0 .. 3, NEW j \in 0 .. 3
  PROVE  /\ (i + j) % 4 \in 0 .. 3 /\ (i - j) % 4 \in 0 .. 3
         /\ (((i + j) % 4) - j) % 4 = i
         /\ (((i - j) % 4) + j) % 4 = i
OBVIOUS

LEMMA ColumnInverse ==
  ASSUME NEW c \in Word
  PROVE  /\ MixColumn(c) \in Word /\ InvMixColumn(c) \in Word
         /\ InvMixColumn(MixColumn(c)) = c
         /\ MixColumn(InvMixColumn(c)) = c
<1> DEFINE at(j, k) == (j + k) % 4
<1>1. \A j \in 0 .. 3 : c[j] \in Byte
  BY DEF Word
<1>2. \A j, k \in 0 .. 3 : at(j, k) \in 0 .. 3
  BY Rotations
<1>3. \A j \in 0 .. 3 : /\ at(at(j, 1), 1) = at(j, 2) /\ at(at(j, 1), 2) = at(j, 3) /\ at(at(j, 1), 3) = j
                        /\ at(at(j, 2), 1) = at(j, 3) /\ at(at(j, 2), 2) = j /\ at(at(j, 2), 3) = at(j, 1)
                        /\ at(at(j, 3), 1) = j /\ at(at(j, 3), 2) = at(j, 1) /\ at(at(j, 3), 3) = at(j, 2)
  OBVIOUS
<1>4. \A j \in 0 .. 3 : at(j, 1) \in 0 .. 3 /\ at(j, 2) \in 0 .. 3 /\ at(j, 3) \in 0 .. 3
  BY <1>2
<1>5. \A w : /\ MixColumn(w) = [j \in 0 .. 3 |-> Mixed(w[j], w[at(j, 1)], w[at(j, 2)], w[at(j, 3)])]
             /\ InvMixColumn(w) = [j \in 0 .. 3 |-> Unmixed(w[j], w[at(j, 1)], w[at(j, 2)], w[at(j, 3)])]
  BY ColumnRows
<1> HIDE DEF at
<1>6. MixColumn(c) \in Word /\ InvMixColumn(c) \in Word
  <2>1. \A j \in 0 .. 3 : /\ Mixed(c[j], c[at(j, 1)], c[at(j, 2)], c[at(j, 3)]) \in Byte
                          /\ Unmixed(c[j], c[at(j, 1)], c[at(j, 2)], c[at(j, 3)]) \in Byte
    BY <1>1, <1>4, MixedByte
  <2> QED
    BY <1>5, <2>1 DEF Word
<1>7. InvMixColumn(MixColumn(c)) = c
  <2> DEFINE m == MixColumn(c)
  <2>1. \A j \in 0 .. 3 : m[j] = Mixed(c[j], c[at(j, 1)], c[at(j, 2)], c[at(j, 3)])
    BY <1>5
  <2>2. ASSUME NEW j \in 0 .. 3
        PROVE  Unmixed(m[j], m[at(j, 1)], m[at(j, 2)], m[at(j, 3)]) = c[j]
    <3> HIDE DEF m
    <3>1. /\ m[at(j, 1)] = Mixed(c[at(j, 1)], c[at(j, 2)], c[at(j, 3)], c[j])
          /\ m[at(j, 2)] = Mixed(c[at(j, 2)], c[at(j, 3)], c[j], c[at(j, 1)])
          /\ m[at(j, 3)] = Mixed(c[at(j, 3)], c[j], c[at(j, 1)], c[at(j, 2)])
      BY <1>3, <1>4, <2>1
    <3>2. /\ c[j] \in Byte /\ c[at(j, 1)] \in Byte /\ c[at(j, 2)] \in Byte /\ c[at(j, 3)] \in Byte
      BY <1>1, <1>4
    <3>3. ASSUME NEW p \in Byte, NEW q \in Byte, NEW r \in Byte, NEW s \in Byte
          PROVE  Unmixed(Mixed(p, q, r, s), Mixed(q, r, s, p), Mixed(r, s, p, q), Mixed(s, p, q, r)) = p
      BY UnmixRow
    <3>4. m[j] = Mixed(c[j], c[at(j, 1)], c[at(j, 2)], c[at(j, 3)])
      BY <2>1
    <3> QED
      BY <3>1, <3>2, <3>3, <3>4
  <2>3. InvMixColumn(m) = [j \in 0 .. 3 |-> c[j]]
    <3> HIDE DEF m
    <3> QED
      BY <1>5, <2>2
  <2> QED
    BY <2>3 DEF Word
<1>8. MixColumn(InvMixColumn(c)) = c
  <2> DEFINE m == InvMixColumn(c)
  <2>1. \A j \in 0 .. 3 : m[j] = Unmixed(c[j], c[at(j, 1)], c[at(j, 2)], c[at(j, 3)])
    BY <1>5
  <2>2. ASSUME NEW j \in 0 .. 3
        PROVE  Mixed(m[j], m[at(j, 1)], m[at(j, 2)], m[at(j, 3)]) = c[j]
    <3> HIDE DEF m
    <3>1. /\ m[at(j, 1)] = Unmixed(c[at(j, 1)], c[at(j, 2)], c[at(j, 3)], c[j])
          /\ m[at(j, 2)] = Unmixed(c[at(j, 2)], c[at(j, 3)], c[j], c[at(j, 1)])
          /\ m[at(j, 3)] = Unmixed(c[at(j, 3)], c[j], c[at(j, 1)], c[at(j, 2)])
      BY <1>3, <1>4, <2>1
    <3>2. /\ c[j] \in Byte /\ c[at(j, 1)] \in Byte /\ c[at(j, 2)] \in Byte /\ c[at(j, 3)] \in Byte
      BY <1>1, <1>4
    <3>3. ASSUME NEW p \in Byte, NEW q \in Byte, NEW r \in Byte, NEW s \in Byte
          PROVE  Mixed(Unmixed(p, q, r, s), Unmixed(q, r, s, p), Unmixed(r, s, p, q), Unmixed(s, p, q, r)) = p
      BY MixRow
    <3>4. m[j] = Unmixed(c[j], c[at(j, 1)], c[at(j, 2)], c[at(j, 3)])
      BY <2>1
    <3> QED
      BY <3>1, <3>2, <3>3, <3>4
  <2>3. MixColumn(m) = [j \in 0 .. 3 |-> c[j]]
    <3> HIDE DEF m
    <3> QED
      BY <1>5, <2>2
  <2> QED
    BY <2>3 DEF Word
<1> QED
  BY <1>6, <1>7, <1>8

(* Each stage and its inverse, in both orders. *)
LEMMA MixInverse ==
  ASSUME NEW b \in Block
  PROVE  /\ MixColumns(b) \in Block /\ InvMixColumns(b) \in Block
         /\ InvMixColumns(MixColumns(b)) = b /\ MixColumns(InvMixColumns(b)) = b
<1>1. \A i \in 0 .. 3 : b[i] \in Word
  BY DEF Block
<1>2. /\ \A i \in 0 .. 3 : MixColumns(b)[i] = MixColumn(b[i])
      /\ \A i \in 0 .. 3 : InvMixColumns(b)[i] = InvMixColumn(b[i])
  BY DEF MixColumns, InvMixColumns
<1>3. MixColumns(b) \in Block /\ InvMixColumns(b) \in Block
  BY <1>1, ColumnInverse DEF MixColumns, InvMixColumns, Block
<1>4. InvMixColumns(MixColumns(b)) = [i \in 0 .. 3 |-> b[i]]
  BY <1>1, <1>2, ColumnInverse DEF InvMixColumns
<1>5. MixColumns(InvMixColumns(b)) = [i \in 0 .. 3 |-> b[i]]
  BY <1>1, <1>2, ColumnInverse DEF MixColumns
<1> QED
  BY <1>3, <1>4, <1>5 DEF Block

LEMMA ShiftInverse ==
  ASSUME NEW b \in Block
  PROVE  /\ ShiftRows(b) \in Block /\ InvShiftRows(b) \in Block
         /\ InvShiftRows(ShiftRows(b)) = b /\ ShiftRows(InvShiftRows(b)) = b
<1>1. \A i, j \in 0 .. 3 : b[i][j] \in Byte
  BY DEF Block, Word
<1>2. /\ \A i, j \in 0 .. 3 : ShiftRows(b)[i][j] = b[(i + j) % 4][j]
      /\ \A i, j \in 0 .. 3 : InvShiftRows(b)[i][j] = b[(i - j) % 4][j]
  BY DEF ShiftRows, InvShiftRows
<1>3. ShiftRows(b) \in Block /\ InvShiftRows(b) \in Block
  BY <1>1, Rotations DEF ShiftRows, InvShiftRows, Block, Word
<1>4. b = [i \in 0 .. 3 |-> [j \in 0 .. 3 |-> b[i][j]]]
  BY DEF Block, Word
<1>5. InvShiftRows(ShiftRows(b)) = [i \in 0 .. 3 |-> [j \in 0 .. 3 |-> b[i][j]]]
  BY <1>2, Rotations DEF InvShiftRows
<1>6. ShiftRows(InvShiftRows(b)) = [i \in 0 .. 3 |-> [j \in 0 .. 3 |-> b[i][j]]]
  BY <1>2, Rotations DEF ShiftRows
<1> QED
  BY <1>3, <1>4, <1>5, <1>6

LEMMA SubInverse ==
  ASSUME NEW b \in Block
  PROVE  /\ SubBytes(b) \in Block /\ InvSubBytes(b) \in Block
         /\ InvSubBytes(SubBytes(b)) = b /\ SubBytes(InvSubBytes(b)) = b
<1>1. \A i, j \in 0 .. 3 : b[i][j] \in Byte
  BY DEF Block, Word
<1>2. /\ \A i, j \in 0 .. 3 : SubBytes(b)[i][j] = sbox[b[i][j]]
      /\ \A i, j \in 0 .. 3 : InvSubBytes(b)[i][j] = rsbox[b[i][j]]
  BY DEF SubBytes, SubWord, InvSubBytes
<1>3. SubBytes(b) \in Block /\ InvSubBytes(b) \in Block
  BY <1>1, TablesAssumption DEF SubBytes, SubWord, InvSubBytes, Block, Word
<1>4. b = [i \in 0 .. 3 |-> [j \in 0 .. 3 |-> b[i][j]]]
  BY DEF Block, Word
<1>5. InvSubBytes(SubBytes(b)) = [i \in 0 .. 3 |-> [j \in 0 .. 3 |-> b[i][j]]]
  BY <1>1, <1>2, TablesAssumption DEF InvSubBytes
<1>6. SubBytes(InvSubBytes(b)) = [i \in 0 .. 3 |-> [j \in 0 .. 3 |-> b[i][j]]]
  BY <1>1, <1>2, TablesAssumption DEF SubBytes, SubWord
<1> QED
  BY <1>3, <1>4, <1>5, <1>6

LEMMA KeyInverse ==
  ASSUME NEW b \in Block, NEW r \in Nat, RoundKey \in Seq(Word), 4 * r + 4 <= Len(RoundKey)
  PROVE  AddRoundKey(r, b) \in Block /\ AddRoundKey(r, AddRoundKey(r, b)) = b
<1> DEFINE k(i) == RoundKey[4 * r + i + 1]
<1>1. \A i \in 0 .. 3 : k(i) \in Word
  OBVIOUS
<1>2. \A i, j \in 0 .. 3 : b[i][j] \in Byte /\ k(i)[j] \in Byte
  BY <1>1 DEF Block, Word
<1> DEFINE b1 == AddRoundKey(r, b)
<1>3. /\ b1 = [i \in 0 .. 3 |-> [j \in 0 .. 3 |-> Xor(b[i][j], k(i)[j])]]
      /\ AddRoundKey(r, b1) = [i \in 0 .. 3 |-> [j \in 0 .. 3 |-> Xor(b1[i][j], k(i)[j])]]
  BY DEF AddRoundKey, XorWord
<1> HIDE DEF k, b1
<1>4. \A i, j \in 0 .. 3 : Xor(b[i][j], k(i)[j]) \in Byte
  BY <1>2, XorByte
<1>5. b1 \in Block
  BY <1>3, <1>4 DEF Block, Word
<1>6. \A i, j \in 0 .. 3 : b1[i][j] = Xor(b[i][j], k(i)[j])
  BY <1>3
<1>7. \A i, j \in 0 .. 3 : Xor(b1[i][j], k(i)[j]) = b[i][j]
  BY <1>2, <1>6, XorCancels
<1>8. AddRoundKey(r, b1) = [i \in 0 .. 3 |-> [j \in 0 .. 3 |-> b[i][j]]]
  BY <1>3, <1>7
<1>9. b = [i \in 0 .. 3 |-> [j \in 0 .. 3 |-> b[i][j]]]
  BY DEF Block, Word
<1> QED
  BY <1>5, <1>8, <1>9 DEF b1
---------------------------------------------------------------------------
(* The path from plain text to cipher text: stage n leads from depth n to   *)
(* depth n + 1.  A record is a piece of that path.                         *)

StageAt(n, b) ==
  IF n = 4 * Nr - 1 THEN AddRoundKey(Nr, b)
  ELSE IF n % 4 = 0 THEN AddRoundKey(n \div 4, b)
  ELSE IF n % 4 = 1 THEN SubBytes(b)
  ELSE IF n % 4 = 2 THEN ShiftRows(b)
  ELSE MixColumns(b)

UnstageAt(n, b) ==
  IF n = 4 * Nr - 1 THEN AddRoundKey(Nr, b)
  ELSE IF n % 4 = 0 THEN AddRoundKey(n \div 4, b)
  ELSE IF n % 4 = 1 THEN InvSubBytes(b)
  ELSE IF n % 4 = 2 THEN InvShiftRows(b)
  ELSE InvMixColumns(b)

Recorded(s) == DOMAIN s \subseteq 0 .. 4 * Nr /\ \A n \in DOMAIN s : s[n] \in Block
Chained(s) == \A n \in 0 .. 4 * Nr - 1 : {n, n + 1} \subseteq DOMAIN s => s[n + 1] = StageAt(n, s[n])
Unbroken(s) == \A m, n \in DOMAIN s : m .. n \subseteq DOMAIN s

Path == Chained(seen) /\ Unbroken(seen)

(* Where the program counter puts the block on the path. *)
DepthOK ==
  /\ step = "expand" => depth = 0 /\ DOMAIN seen = {0}
  /\ step = "sub" => round \in 1 .. Nr /\ depth = 4 * round - 3
  /\ step = "shift" => round \in 1 .. Nr /\ depth = 4 * round - 2
  /\ step = "mix" => round \in 1 .. Nr - 1 /\ depth = 4 * round - 1
  /\ step = "key" => round \in 1 .. Nr /\ depth = IF round = Nr THEN 4 * Nr - 1 ELSE 4 * round
  /\ step = "invshift" => round \in 0 .. Nr - 1 /\ depth = 4 * round + 3
  /\ step = "invsub" => round \in 0 .. Nr - 1 /\ depth = 4 * round + 2
  /\ step = "invkey" => round \in 0 .. Nr - 1 /\ depth = 4 * round + 1
  /\ step = "invmix" => round \in 1 .. Nr - 1 /\ depth = 4 * round

IInv == TypeOK /\ Unwinds /\ Path /\ DepthOK

LEMMA KeySizes ==
  ASSUME key \in Keys
  PROVE  Nk \in {4, 6, 8} /\ Nr = Nk + 6
BY InputsAssumption DEF Key, Nk, Nr

LEMMA StageNames ==
  ASSUME Nr \in Nat, NEW b
  PROVE  /\ StageAt(0, b) = AddRoundKey(0, b) /\ UnstageAt(0, b) = AddRoundKey(0, b)
         /\ StageAt(4 * Nr - 1, b) = AddRoundKey(Nr, b)
         /\ UnstageAt(4 * Nr - 1, b) = AddRoundKey(Nr, b)
         /\ \A r \in 1 .. Nr : /\ StageAt(4 * r - 3, b) = SubBytes(b)
                               /\ UnstageAt(4 * r - 3, b) = InvSubBytes(b)
                               /\ StageAt(4 * r - 2, b) = ShiftRows(b)
                               /\ UnstageAt(4 * r - 2, b) = InvShiftRows(b)
         /\ \A r \in 1 .. Nr - 1 : /\ StageAt(4 * r - 1, b) = MixColumns(b)
                                   /\ UnstageAt(4 * r - 1, b) = InvMixColumns(b)
                                   /\ StageAt(4 * r, b) = AddRoundKey(r, b)
                                   /\ UnstageAt(4 * r, b) = AddRoundKey(r, b)
<1>1. \A r \in Int : /\ (4 * r - 3) % 4 = 1 /\ (4 * r - 2) % 4 = 2 /\ (4 * r - 1) % 4 = 3
                     /\ (4 * r) % 4 = 0 /\ (4 * r) \div 4 = r
  OBVIOUS
<1>2. \A r \in Int : 4 * r # 4 * Nr - 1 /\ 4 * r - 3 # 4 * Nr - 1 /\ 4 * r - 2 # 4 * Nr - 1
  OBVIOUS
<1>3. 0 % 4 = 0 /\ 0 \div 4 = 0 /\ 0 # 4 * Nr - 1
  OBVIOUS
<1>4. \A r \in 1 .. Nr - 1 : 4 * r - 1 # 4 * Nr - 1
  OBVIOUS
<1> QED
  BY <1>1, <1>2, <1>3, <1>4 DEF StageAt, UnstageAt

LEMMA StageInverse ==
  ASSUME TypeOK, step # "expand", NEW n \in 0 .. 4 * Nr - 1, NEW b \in Block
  PROVE  /\ StageAt(n, b) \in Block /\ UnstageAt(n, b) \in Block
         /\ UnstageAt(n, StageAt(n, b)) = b
         /\ StageAt(n, UnstageAt(n, b)) = b
<1>1. Nr \in Nat /\ RoundKey \in Seq(Word) /\ Len(RoundKey) = 4 * (Nr + 1)
  BY KeySizes DEF TypeOK
<1>2. \A r \in 0 .. Nr : AddRoundKey(r, b) \in Block /\ AddRoundKey(r, AddRoundKey(r, b)) = b
  BY <1>1, KeyInverse
<1>3. n \div 4 \in 0 .. Nr
  BY <1>1
<1> QED
  BY <1>1, <1>2, <1>3, SubInverse, ShiftInverse, MixInverse DEF StageAt, UnstageAt

(* One stage forth or back from a depth that the record holds. *)
LEMMA Extend ==
  ASSUME TypeOK, step # "expand",
         NEW s, Recorded(s), Chained(s), Unbroken(s),
         NEW d \in DOMAIN s, NEW e \in 0 .. 4 * Nr, NEW b,
         \/ e = d + 1 /\ b = StageAt(d, s[d])
         \/ e = d - 1 /\ b = UnstageAt(e, s[d])
  PROVE  LET t == [n \in DOMAIN s \cup {e} |-> IF n \in DOMAIN s THEN s[n] ELSE b]
         IN  Recorded(t) /\ Chained(t) /\ Unbroken(t) /\ b = t[e] /\ b \in Block
<1> DEFINE t == [n \in DOMAIN s \cup {e} |-> IF n \in DOMAIN s THEN s[n] ELSE b]
<1>1. Nr \in Nat
  BY KeySizes DEF TypeOK
<1>2. d \in 0 .. 4 * Nr /\ s[d] \in Block
  BY DEF Recorded
<1>3. b \in Block
  BY <1>1, <1>2, StageInverse
<1>4. e \in DOMAIN s => b = s[e]
  <2>1. CASE e = d + 1 /\ b = StageAt(d, s[d])
    BY <1>1, <1>2, <2>1 DEF Chained
  <2>2. CASE e = d - 1 /\ b = UnstageAt(e, s[d])
    <3>1. ASSUME e \in DOMAIN s PROVE s[d] = StageAt(e, s[e]) /\ s[e] \in Block /\ e \in 0 .. 4 * Nr - 1
      <4>1. e \in 0 .. 4 * Nr - 1 /\ e + 1 = d
        BY <1>1, <1>2, <2>2
      <4> QED
        BY <3>1, <4>1 DEF Chained, Recorded
    <3> QED
      BY <2>2, <3>1, StageInverse
  <2> QED
    BY <2>1, <2>2
<1>5. t[e] = b /\ \A n \in DOMAIN s : t[n] = s[n]
  BY <1>4
<1>6. Recorded(t)
  BY <1>3 DEF Recorded
<1>7. Unbroken(t)
  <2>1. ASSUME NEW m \in DOMAIN t, NEW n \in DOMAIN t, NEW k \in m .. n
        PROVE  k \in DOMAIN t
    <3>1. m \in 0 .. 4 * Nr /\ n \in 0 .. 4 * Nr
      BY DEF Recorded
    <3>2. CASE m \in DOMAIN s /\ n \in DOMAIN s
      BY <3>2 DEF Unbroken
    <3>3. CASE m = e /\ n \in DOMAIN s
      <4>1. k = e \/ k \in d .. n
        BY <1>1, <1>2, <3>1, <3>3
      <4> QED
        BY <3>3, <4>1 DEF Unbroken
    <3>4. CASE m \in DOMAIN s /\ n = e
      <4>1. k = e \/ k \in m .. d
        BY <1>1, <1>2, <3>1, <3>4
      <4> QED
        BY <3>4, <4>1 DEF Unbroken
    <3>5. CASE m = e /\ n = e
      BY <3>1, <3>5
    <3> QED
      BY <3>2, <3>3, <3>4, <3>5
  <2> QED
    BY <2>1 DEF Unbroken
<1>8. Chained(t)
  <2>1. ASSUME NEW n \in 0 .. 4 * Nr - 1, {n, n + 1} \subseteq DOMAIN t
        PROVE  t[n + 1] = StageAt(n, t[n])
    <3>1. CASE {n, n + 1} \subseteq DOMAIN s
      BY <1>5, <3>1 DEF Chained
    <3>2. CASE e \notin DOMAIN s /\ n = e
      \* the record beyond e would reach d across e
      <4>1. n + 1 \in DOMAIN s
        BY <2>1, <3>2
      <4>2. e = d - 1
        <5>1. ASSUME e = d + 1 PROVE e \in d .. n + 1
          BY <1>1, <1>2, <3>2, <5>1
        <5> QED
          BY <3>2, <4>1, <5>1, <1>1, <1>2 DEF Unbroken
      <4>3. b = UnstageAt(e, s[d]) /\ n + 1 = d
        BY <1>1, <1>2, <3>2, <4>2
      <4> QED
        BY <1>2, <1>5, <3>2, <4>3, StageInverse
    <3>3. CASE e \notin DOMAIN s /\ n + 1 = e
      <4>1. n \in DOMAIN s
        BY <2>1, <3>3
      <4>2. e = d + 1
        <5>1. ASSUME e = d - 1 PROVE e \in n .. d
          BY <1>1, <1>2, <3>3, <5>1
        <5> QED
          BY <3>3, <4>1, <5>1, <1>1, <1>2 DEF Unbroken
      <4>3. b = StageAt(d, s[d]) /\ n = d
        BY <1>1, <1>2, <3>3, <4>2
      <4> QED
        BY <1>5, <3>3, <4>3
    <3> QED
      BY <2>1, <3>1, <3>2, <3>3
  <2> QED
    BY <2>1 DEF Chained
<1> QED
  BY <1>3, <1>5, <1>6, <1>7, <1>8
---------------------------------------------------------------------------
(* The steps.  Every stage extends the record by one. *)

LEMMA StageStep ==
  ASSUME IInv, step # "expand", UNCHANGED <<key, RoundKey>>,
         NEW d \in 0 .. 4 * Nr, NEW e \in 0 .. 4 * Nr, Record(d, e),
         \/ e = d + 1 /\ buf' = StageAt(d, buf)
         \/ e = d - 1 /\ buf' = UnstageAt(e, buf)
  PROVE  Recorded(seen)' /\ Path' /\ Unwinds' /\ buf' \in Block /\ depth' = e
<1> DEFINE known == IF depth = d THEN seen ELSE [n \in {d} |-> buf]
           new == [n \in DOMAIN known \cup {e} |-> IF n \in DOMAIN known THEN known[n] ELSE buf']
<1>1. seen' = new /\ depth' = e
  BY DEF Record
<1>2. Recorded(known) /\ Chained(known) /\ Unbroken(known) /\ d \in DOMAIN known /\ known[d] = buf
  <2>1. CASE depth = d
    BY <2>1 DEF IInv, TypeOK, Unwinds, Path, Recorded
  <2>2. CASE depth # d
    <3>1. DOMAIN known = {d} /\ known[d] = buf
      BY <2>2
    <3>2. Recorded(known)
      BY <3>1 DEF IInv, TypeOK, Recorded
    <3>3. Chained(known)
      <4>1. Nr \in Nat
        BY KeySizes DEF IInv, TypeOK
      <4>2. \A n \in 0 .. 4 * Nr - 1 : ~ ({n, n + 1} \subseteq {d})
        BY <4>1
      <4> HIDE DEF known
      <4> QED
        BY <3>1, <4>2 DEF Chained
    <3>4. Unbroken(known)
      <4>1. d .. d = {d}
        OBVIOUS
      <4> HIDE DEF known
      <4> QED
        BY <3>1, <4>1 DEF Unbroken
    <3> QED
      BY <3>1, <3>2, <3>3, <3>4
  <2> QED
    BY <2>1, <2>2
<1> HIDE DEF known
<1>3. Recorded(new) /\ Chained(new) /\ Unbroken(new) /\ buf' = new[e] /\ buf' \in Block
  BY <1>2, Extend DEF IInv
<1>4. Nr' = Nr /\ Nk' = Nk
  BY DEF Nr, Nk
<1>5. ASSUME NEW n, NEW b PROVE StageAt(n, b)' = StageAt(n, b)
  BY <1>4 DEF StageAt, AddRoundKey
<1>6. Recorded(seen)' /\ Path'
  <2>1. Recorded(seen)'
    BY <1>1, <1>3, <1>4 DEF Recorded
  <2>2. Chained(seen)'
    BY <1>1, <1>3, <1>4, <1>5 DEF Chained
  <2>3. Unbroken(seen)'
    BY <1>1, <1>3 DEF Unbroken
  <2> QED
    BY <2>1, <2>2, <2>3 DEF Path
<1>7. Unwinds'
  <2>1. e \in DOMAIN new
    OBVIOUS
  <2> QED
    BY <1>1, <1>3, <2>1 DEF Unwinds
<1> QED
  BY <1>1, <1>3, <1>6, <1>7

(* The expanded key. *)
LEMMA KeyTempWord ==
  ASSUME TypeOK, step = "expand", NEW i, i = Len(RoundKey), i < 4 * (Nr + 1)
  PROVE  KeyTemp(i) \in Word /\ RoundKey[i - Nk + 1] \in Word
<1>1. Nk \in {4, 6, 8} /\ Nr = Nk + 6 /\ i \in Nat /\ Nk <= i /\ RoundKey \in Seq(Word)
  BY KeySizes DEF TypeOK
<1>2. i \in 1 .. Len(RoundKey) /\ i - Nk + 1 \in 1 .. Len(RoundKey)
  BY <1>1
<1>3. RoundKey[i] \in Word /\ RoundKey[i - Nk + 1] \in Word
  BY <1>1, <1>2
<1>4. i \div Nk \in 0 .. 10
  <2>1. CASE Nk = 4
    BY <1>1, <2>1
  <2>2. CASE Nk = 6
    BY <1>1, <2>2
  <2>3. CASE Nk = 8
    BY <1>1, <2>3
  <2> QED
    BY <1>1, <2>1, <2>2, <2>3
<1>5. ASSUME NEW w \in Word PROVE SubWord(w) \in Word /\ RotWord(w) \in Word
  BY Rotations, TablesAssumption DEF SubWord, RotWord, Word
<1>6. ASSUME NEW w \in Word PROVE [w EXCEPT ![0] = Xor(@, Rcon[i \div Nk])] \in Word
  <2>1. Rcon[i \div Nk] \in Byte
    BY <1>4, TablesAssumption
  <2>2. w[0] \in Byte
    BY DEF Word
  <2> QED
    BY <2>1, <2>2, XorByte DEF Word
<1> QED
  BY <1>3, <1>5, <1>6 DEF KeyTemp

LEMMA ExpandStep ==
  ASSUME IInv, KeyExpansion
  PROVE  IInv'
<1>1. UNCHANGED <<key, buf, round, calls, depth, seen>> /\ Nk' = Nk /\ Nr' = Nr
  BY DEF KeyExpansion, Nr, Nk
<1>2. Nk \in {4, 6, 8} /\ Nr = Nk + 6 /\ RoundKey \in Seq(Word) /\ step = "expand"
  BY KeySizes DEF IInv, TypeOK, KeyExpansion
<1>3. /\ RoundKey' \in Seq(Word) /\ Len(RoundKey)' \in Nk .. 4 * (Nr + 1)
      /\ step' \in {"expand", "idle"}
      /\ step' # "expand" => Len(RoundKey)' = 4 * (Nr + 1)
  <2> DEFINE i == Len(RoundKey)
             w == XorWord(RoundKey[i - Nk + 1], KeyTemp(i))
  <2>1. CASE i < 4 * (Nr + 1) /\ RoundKey' = Append(RoundKey, w) /\ UNCHANGED step
    <3>1. KeyTemp(i) \in Word /\ RoundKey[i - Nk + 1] \in Word
      BY <1>2, <2>1, KeyTempWord DEF IInv
    <3>2. w \in Word
      <4>1. ASSUME NEW u \in Word, NEW v \in Word PROVE XorWord(u, v) \in Word
        BY XorByte DEF XorWord, Word
      <4> QED
        BY <3>1, <4>1
    <3>3. Len(RoundKey) \in Nk .. 4 * (Nr + 1)
      BY DEF IInv, TypeOK
    <3> HIDE DEF w
    <3>4. RoundKey' \in Seq(Word) /\ Len(RoundKey)' = Len(RoundKey) + 1
      BY <1>2, <2>1, <3>2
    <3> QED
      BY <1>2, <2>1, <3>3, <3>4
  <2>2. CASE i = 4 * (Nr + 1) /\ step' = "idle" /\ UNCHANGED RoundKey
    BY <1>2, <2>2
  <2> QED
    BY <2>1, <2>2 DEF KeyExpansion
<1>4. TypeOK'
  BY <1>1, <1>3 DEF IInv, TypeOK, Steps
<1>5. Unwinds' /\ DepthOK'
  BY <1>1, <1>2, <1>3 DEF IInv, Unwinds, DepthOK
<1>6. Path'
  <2>1. DOMAIN seen = {0}
    BY <1>2 DEF IInv, DepthOK
  <2>2. \A n \in 0 .. 4 * Nr - 1 : ~ ({n, n + 1} \subseteq {0})
    BY <1>2
  <2>3. 0 .. 0 = {0}
    OBVIOUS
  <2> QED
    BY <1>1, <2>1, <2>2, <2>3 DEF Path, Chained, Unbroken
<1> QED
  BY <1>4, <1>5, <1>6 DEF IInv

LEMMA StageTypes ==
  ASSUME IInv, step # "expand", UNCHANGED <<key, RoundKey>>,
         Recorded(seen)', buf' \in Block, depth' \in 0 .. 4 * Nr,
         step' \in Steps \ {"expand"}, round' \in 0 .. Nr, calls' \in 0 .. MaxCalls
  PROVE  TypeOK'
<1>1. Nr' = Nr /\ Nk' = Nk
  BY DEF Nr, Nk
<1> QED
  BY <1>1 DEF IInv, TypeOK, Recorded

LEMMA EncryptStep ==
  ASSUME IInv, Encrypt
  PROVE  IInv'
<1>1. Nr \in 10 .. 14 /\ Nr' = Nr /\ UNCHANGED <<key, RoundKey>> /\ step # "expand"
  <2>1. UNCHANGED <<key, RoundKey>> /\ step # "expand"
    BY DEF Encrypt, EncryptBegin, EncryptSub, EncryptShift, EncryptMix, EncryptKey, EncryptStage, Stage
  <2>2. Nr \in 10 .. 14
    BY KeySizes DEF IInv, TypeOK
  <2> QED
    BY <2>1, <2>2 DEF Nr, Nk
<1>2. TypeOK /\ DepthOK /\ round \in 0 .. Nr /\ calls \in 0 .. MaxCalls /\ MaxCalls \in Nat
  BY InputsAssumption DEF IInv, TypeOK
<1>3. PICK d \in 0 .. 4 * Nr, e \in 0 .. 4 * Nr :
        Record(d, e) /\ e = d + 1 /\ buf' = StageAt(d, buf)
        /\ calls' \in 0 .. MaxCalls /\ round' \in 0 .. Nr /\ step' \in Steps \ {"expand"}
        /\ (depth' = e => DepthOK')
  <2>1. CASE EncryptBegin
    <3>1. /\ Record(0, 1) /\ buf' = StageAt(0, buf) /\ step' = "sub" /\ round' = 1
          /\ calls' \in 0 .. MaxCalls
      BY <1>1, <1>2, <2>1, StageNames DEF EncryptBegin, Stage
    <3> QED
      BY <1>1, <3>1 DEF Steps, DepthOK
  <2>2. CASE EncryptSub
    <3>1. /\ Record(depth, depth + 1) /\ buf' = SubBytes(buf) /\ step' = "shift" /\ step = "sub"
          /\ UNCHANGED <<round, calls>> /\ round \in 1 .. Nr /\ depth = 4 * round - 3
      BY <1>2, <2>2 DEF EncryptSub, EncryptStage, Stage, DepthOK
    <3>2. buf' = StageAt(depth, buf) /\ depth \in 0 .. 4 * Nr /\ depth + 1 \in 0 .. 4 * Nr
      BY <1>1, <3>1, StageNames
    <3> QED
      BY <1>1, <1>2, <3>1, <3>2 DEF Steps, DepthOK
  <2>3. CASE EncryptShift
    <3>1. /\ Record(depth, depth + 1) /\ buf' = ShiftRows(buf)
          /\ step' = IF round < Nr THEN "mix" ELSE "key"
          /\ UNCHANGED <<round, calls>> /\ round \in 1 .. Nr /\ depth = 4 * round - 2
      BY <1>2, <2>3 DEF EncryptShift, EncryptStage, Stage, DepthOK
    <3>2. buf' = StageAt(depth, buf) /\ depth \in 0 .. 4 * Nr /\ depth + 1 \in 0 .. 4 * Nr
      BY <1>1, <3>1, StageNames
    <3> QED
      BY <1>1, <1>2, <3>1, <3>2 DEF Steps, DepthOK
  <2>4. CASE EncryptMix
    <3>1. /\ Record(depth, depth + 1) /\ buf' = MixColumns(buf) /\ step' = "key"
          /\ UNCHANGED <<round, calls>> /\ round \in 1 .. Nr - 1 /\ depth = 4 * round - 1
      BY <1>2, <2>4 DEF EncryptMix, EncryptStage, Stage, DepthOK
    <3>2. buf' = StageAt(depth, buf) /\ depth \in 0 .. 4 * Nr /\ depth + 1 \in 0 .. 4 * Nr
      BY <1>1, <3>1, StageNames
    <3> QED
      BY <1>1, <1>2, <3>1, <3>2 DEF Steps, DepthOK
  <2>5. CASE EncryptKey
    <3>1. /\ Record(depth, depth + 1) /\ buf' = AddRoundKey(round, buf)
          /\ step' = IF round < Nr THEN "sub" ELSE "idle"
          /\ round' = IF round < Nr THEN round + 1 ELSE 0
          /\ UNCHANGED calls /\ round \in 1 .. Nr
          /\ depth = IF round = Nr THEN 4 * Nr - 1 ELSE 4 * round
      BY <1>2, <2>5 DEF EncryptKey, EncryptStage, Stage, DepthOK
    <3>2. buf' = StageAt(depth, buf) /\ depth \in 0 .. 4 * Nr /\ depth + 1 \in 0 .. 4 * Nr
      BY <1>1, <3>1, StageNames
    <3> QED
      BY <1>1, <1>2, <3>1, <3>2 DEF Steps, DepthOK
  <2> QED
    BY <2>1, <2>2, <2>3, <2>4, <2>5 DEF Encrypt
<1>4. Recorded(seen)' /\ Path' /\ Unwinds' /\ buf' \in Block /\ depth' = e
  BY <1>1, <1>3, StageStep
<1> QED
  BY <1>1, <1>3, <1>4, StageTypes DEF IInv

LEMMA DecryptStep ==
  ASSUME IInv, Decrypt
  PROVE  IInv'
<1>1. Nr \in 10 .. 14 /\ Nr' = Nr /\ UNCHANGED <<key, RoundKey>> /\ step # "expand"
  <2>1. UNCHANGED <<key, RoundKey>> /\ step # "expand"
    BY DEF Decrypt, DecryptBegin, DecryptSub, DecryptShift, DecryptMix, DecryptKey, DecryptStage, Stage
  <2>2. Nr \in 10 .. 14
    BY KeySizes DEF IInv, TypeOK
  <2> QED
    BY <2>1, <2>2 DEF Nr, Nk
<1>2. TypeOK /\ DepthOK /\ round \in 0 .. Nr /\ calls \in 0 .. MaxCalls /\ MaxCalls \in Nat
  BY InputsAssumption DEF IInv, TypeOK
<1>3. PICK d \in 0 .. 4 * Nr, e \in 0 .. 4 * Nr :
        Record(d, e) /\ e = d - 1 /\ buf' = UnstageAt(e, buf)
        /\ calls' \in 0 .. MaxCalls /\ round' \in 0 .. Nr /\ step' \in Steps \ {"expand"}
        /\ (depth' = e => DepthOK')
  <2>1. CASE DecryptBegin
    <3>1. /\ Record(4 * Nr, 4 * Nr - 1) /\ buf' = UnstageAt(4 * Nr - 1, buf)
          /\ step' = "invshift" /\ round' = Nr - 1 /\ calls' \in 0 .. MaxCalls
      BY <1>1, <1>2, <2>1, StageNames DEF DecryptBegin, Stage
    <3> QED
      BY <1>1, <3>1 DEF Steps, DepthOK
  <2>2. CASE DecryptShift
    <3>1. /\ Record(depth, depth - 1) /\ buf' = InvShiftRows(buf) /\ step' = "invsub"
          /\ UNCHANGED <<round, calls>> /\ round \in 0 .. Nr - 1 /\ depth = 4 * round + 3
      BY <1>2, <2>2 DEF DecryptShift, DecryptStage, Stage, DepthOK
    <3>2. round + 1 \in 1 .. Nr /\ depth - 1 = 4 * (round + 1) - 2
      BY <1>1, <3>1
    <3>3. buf' = UnstageAt(depth - 1, buf)
      <4>1. UnstageAt(4 * (round + 1) - 2, buf) = InvShiftRows(buf)
        BY <1>1, <3>2, StageNames
      <4> QED
        BY <3>1, <3>2, <4>1
    <3>4. depth \in 0 .. 4 * Nr /\ depth - 1 \in 0 .. 4 * Nr
      BY <1>1, <3>1
    <3> QED
      BY <1>1, <1>2, <3>1, <3>3, <3>4 DEF Steps, DepthOK
  <2>3. CASE DecryptSub
    <3>1. /\ Record(depth, depth - 1) /\ buf' = InvSubBytes(buf) /\ step' = "invkey"
          /\ UNCHANGED <<round, calls>> /\ round \in 0 .. Nr - 1 /\ depth = 4 * round + 2
      BY <1>2, <2>3 DEF DecryptSub, DecryptStage, Stage, DepthOK
    <3>2. round + 1 \in 1 .. Nr /\ depth - 1 = 4 * (round + 1) - 3
      BY <1>1, <3>1
    <3>3. buf' = UnstageAt(depth - 1, buf)
      <4>1. UnstageAt(4 * (round + 1) - 3, buf) = InvSubBytes(buf)
        BY <1>1, <3>2, StageNames
      <4> QED
        BY <3>1, <3>2, <4>1
    <3>4. depth \in 0 .. 4 * Nr /\ depth - 1 \in 0 .. 4 * Nr
      BY <1>1, <3>1
    <3> QED
      BY <1>1, <1>2, <3>1, <3>3, <3>4 DEF Steps, DepthOK
  <2>4. CASE DecryptKey
    <3>1. /\ Record(depth, depth - 1) /\ buf' = AddRoundKey(round, buf)
          /\ step' = IF round > 0 THEN "invmix" ELSE "idle"
          /\ UNCHANGED <<round, calls>> /\ round \in 0 .. Nr - 1 /\ depth = 4 * round + 1
      BY <1>2, <2>4 DEF DecryptKey, DecryptStage, Stage, DepthOK
    <3>2. depth - 1 = 4 * round /\ (round = 0 => depth - 1 = 0) /\ (round # 0 => round \in 1 .. Nr - 1)
      BY <1>1, <3>1
    <3>3. buf' = UnstageAt(depth - 1, buf)
      <4>1. CASE round = 0
        BY <1>1, <3>1, <3>2, <4>1, StageNames
      <4>2. CASE round # 0
        BY <1>1, <3>1, <3>2, <4>2, StageNames
      <4> QED
        BY <4>1, <4>2
    <3>4. depth \in 0 .. 4 * Nr /\ depth - 1 \in 0 .. 4 * Nr
      BY <1>1, <3>1
    <3> QED
      BY <1>1, <1>2, <3>1, <3>3, <3>4 DEF Steps, DepthOK
  <2>5. CASE DecryptMix
    <3>1. /\ Record(depth, depth - 1) /\ buf' = InvMixColumns(buf) /\ step' = "invshift"
          /\ round' = round - 1 /\ UNCHANGED calls /\ round \in 1 .. Nr - 1 /\ depth = 4 * round
      BY <1>2, <2>5 DEF DecryptMix, DecryptStage, Stage, DepthOK
    <3>2. buf' = UnstageAt(depth - 1, buf) /\ depth \in 0 .. 4 * Nr /\ depth - 1 \in 0 .. 4 * Nr
      BY <1>1, <3>1, StageNames
    <3> QED
      BY <1>1, <1>2, <3>1, <3>2 DEF Steps, DepthOK
  <2> QED
    BY <2>1, <2>2, <2>3, <2>4, <2>5 DEF Decrypt
<1>4. Recorded(seen)' /\ Path' /\ Unwinds' /\ buf' \in Block /\ depth' = e
  BY <1>1, <1>3, StageStep
<1> QED
  BY <1>1, <1>3, <1>4, StageTypes DEF IInv
---------------------------------------------------------------------------

LEMMA InitIInv ==
  ASSUME Init
  PROVE  IInv
<1>1. Nk \in {4, 6, 8} /\ Nr = Nk + 6
  BY KeySizes DEF Init
<1>2. RoundKey \in Seq(Word) /\ Len(RoundKey) = Nk
  <2>1. key \in Key /\ RoundKey = key
    BY InputsAssumption DEF Init
  <2>2. ASSUME NEW n \in {4, 6, 8}, key \in [1 .. n -> Word] PROVE key \in Seq(Word)
    BY <2>2
  <2> QED
    BY <2>1, <2>2 DEF Key, Nk
<1>3. buf \in Block /\ seen = [n \in {0} |-> buf] /\ DOMAIN seen = {0} /\ seen[0] = buf
  BY InputsAssumption DEF Init
<1>4. TypeOK
  BY <1>1, <1>2, <1>3, InputsAssumption DEF Init, TypeOK, Steps
<1>5. Unwinds /\ DepthOK
  BY <1>3 DEF Init, Unwinds, DepthOK
<1>6. Path
  <2>1. \A n \in 0 .. 4 * Nr - 1 : ~ ({n, n + 1} \subseteq {0})
    BY <1>1
  <2>2. 0 .. 0 = {0}
    OBVIOUS
  <2> QED
    BY <1>3, <2>1, <2>2 DEF Path, Chained, Unbroken
<1> QED
  BY <1>4, <1>5, <1>6 DEF IInv

LEMMA StepIInv ==
  ASSUME IInv, [Next]_vars
  PROVE  IInv'
<1>1. CASE KeyExpansion
  BY <1>1, ExpandStep
<1>2. CASE Encrypt
  BY <1>2, EncryptStep
<1>3. CASE Decrypt
  BY <1>3, DecryptStep
<1>4. CASE UNCHANGED vars
  <2>1. Nr' = Nr /\ Nk' = Nk /\ UNCHANGED <<key, RoundKey, buf, step, round, calls, depth, seen>>
    BY <1>4 DEF vars, Nr, Nk
  <2>2. ASSUME NEW n, NEW b PROVE StageAt(n, b)' = StageAt(n, b)
    BY <2>1 DEF StageAt, AddRoundKey
  <2>3. TypeOK'
    BY <2>1 DEF IInv, TypeOK
  <2>4. Path'
    BY <2>1, <2>2 DEF IInv, Path, Chained, Unbroken
  <2>5. Unwinds' /\ DepthOK'
    BY <2>1 DEF IInv, Unwinds, DepthOK
  <2> QED
    BY <2>3, <2>4, <2>5 DEF IInv
<1> QED
  BY <1>1, <1>2, <1>3, <1>4 DEF Next

LEMMA Invariant == Spec => []IInv
<1>1. Init => IInv
  BY InitIInv
<1>2. IInv /\ [Next]_vars => IInv'
  BY StepIInv
<1> QED
  BY <1>1, <1>2, PTL DEF Spec

(* The types hold; in particular the key schedule fills the array that aes.h *)
(* gives it exactly and never reads beyond the table Rcon.                  *)
THEOREM TypeCorrect == Spec => []TypeOK
<1>1. IInv => TypeOK
  BY DEF IInv
<1> QED
  BY <1>1, Invariant, PTL

(* AES_ECB_decrypt undoes AES_ECB_encrypt and the other way round, stage by *)
(* stage, for every key of 128, 192 or 256 bits and every block.           *)
THEOREM DecryptionUnwindsEncryption == Spec => []Unwinds
<1>1. IInv => Unwinds
  BY DEF IInv
<1> QED
  BY <1>1, Invariant, PTL

(* MixColumns, computed the way the code does, is the matrix product. *)
THEOREM MixColumnsIsMatrix == Spec => []MixIsMatrix
<1>1. ASSUME NEW x PROVE Multiply(x, {1}) = xtime(x) /\ Multiply(x, {0, 1}) = Xor(x, xtime(x))
  <2>1. ASSUME NEW p PROVE Xor({}, p) = p /\ Xor(p, {}) = p
    BY DEF Xor, SymDiff
  <2>2. 0 \notin {1} /\ 2 \notin {1} /\ 3 \notin {1} /\ 4 \notin {1}
        /\ 2 \notin {0, 1} /\ 3 \notin {0, 1} /\ 4 \notin {0, 1}
    OBVIOUS
  <2> QED
    BY <2>1, <2>2 DEF Multiply
<1>2. ASSUME NEW p \in Byte, NEW q \in Byte, NEW r, NEW s
      PROVE  Mixed(p, q, r, s) = Xor(Xor(Xor(xtime(p), Xor(q, xtime(q))), r), s)
  <2>1. ASSUME NEW v, NEW w
        PROVE  Xor(Sum4(p, q, r, s), Xor(p, Xor(v, w))) = Xor(Xor(Xor(v, Xor(q, w)), r), s)
    BY DEF Sum4, Xor, SymDiff
  <2> QED
    BY <2>1, XtimeAdds DEF Mixed
<1>3. ASSUME NEW c \in Word PROVE MixColumn(c) = MatrixColumn(c)
  <2>1. \A j \in 0 .. 3 : c[j] \in Byte /\ c[(j + 1) % 4] \in Byte
    BY Rotations DEF Word
  <2>2. \A j \in 0 .. 3 : Mixed(c[j], c[(j + 1) % 4], c[(j + 2) % 4], c[(j + 3) % 4])
          = Xor(Xor(Xor(Multiply(c[j], {1}), Multiply(c[(j + 1) % 4], {0, 1})),
                    c[(j + 2) % 4]), c[(j + 3) % 4])
    BY <1>1, <1>2, <2>1
  <2> QED
    BY <2>2, ColumnRows DEF MatrixColumn
<1>4. IInv => MixIsMatrix
  BY <1>3 DEF IInv, TypeOK, Block, MixIsMatrix
<1> QED
  BY <1>4, Invariant, PTL
---------------------------------------------------------------------------
(* The calls.  A route is a path all the way from a plain text to its cipher *)
(* text; the key alone decides which cipher text that is, and the other way *)
(* round.                                                                  *)

Routes == {s \in [0 .. 4 * Nr -> Block] : \A n \in 0 .. 4 * Nr - 1 : s[n + 1] = StageAt(n, s[n])}

CipherOf == [p \in Block |-> (CHOOSE s \in Routes : s[0] = p)[4 * Nr]]
InvCipherOf == [c \in Block |-> (CHOOSE s \in Routes : s[4 * Nr] = c)[0]]

LEMMA Climb ==
  ASSUME NEW N \in Nat, NEW D, 0 \in D, \A d \in 0 .. N - 1 : d \in D => d + 1 \in D
  PROVE  0 .. N \subseteq D
<1> SUFFICES ASSUME ~ (0 .. N \subseteq D) PROVE FALSE
  OBVIOUS
<1> DEFINE T == {d \in 0 .. N : d \notin D}
<1>1. T \in SUBSET Nat /\ T # {}
  OBVIOUS
<1>2. PICK x \in T : \A y \in T : ~ (<<y, x>> \in OpToRel(<, Nat))
  <2> HIDE DEF T, OpToRel
  <2> QED
    BY <1>1, NatLessThanWellFounded, WFMin
<1>3. x \in 1 .. N /\ x - 1 \in 0 .. N - 1 /\ (x - 1) + 1 = x
  OBVIOUS
<1>4. x - 1 \notin T
  <2>1. x - 1 \in Nat /\ x \in Nat /\ x - 1 < x
    BY <1>3
  <2>2. <<x - 1, x>> \in OpToRel(<, Nat)
    BY <2>1 DEF OpToRel
  <2> QED
    BY <1>2, <2>2
<1>5. x - 1 \in D
  BY <1>3, <1>4
<1> QED
  BY <1>3, <1>5

LEMMA RouteFrom ==
  ASSUME TypeOK, step # "expand", NEW p \in Block
  PROVE  \E s \in Routes : s[0] = p
<1> DEFINE N == 4 * Nr
           Good(d, s) == s[0] = p /\ \A n \in 0 .. d - 1 : s[n + 1] = StageAt(n, s[n])
           D == {d \in 0 .. N : \E s \in [0 .. d -> Block] : Good(d, s)}
<1>1. Nr \in 10 .. 14 /\ N \in Nat
  BY KeySizes DEF TypeOK
<1>2. 0 \in D
  <2> DEFINE s == [n \in 0 .. 0 |-> p]
  <2>1. s \in [0 .. 0 -> Block] /\ s[0] = p
    OBVIOUS
  <2> HIDE DEF s
  <2>2. Good(0, s)
    BY <2>1
  <2> HIDE DEF Good
  <2> QED
    BY <1>1, <2>1, <2>2
<1>3. ASSUME NEW d \in 0 .. N - 1, d \in D
      PROVE  d + 1 \in D
  <2>1. PICK s \in [0 .. d -> Block] : Good(d, s)
    BY <1>3
  <2> DEFINE t == [n \in 0 .. d + 1 |-> IF n <= d THEN s[n] ELSE StageAt(d, s[d])]
  <2>2. s[d] \in Block /\ StageAt(d, s[d]) \in Block
    <3>1. d \in 0 .. d
      BY <1>1
    <3>2. s[d] \in Block
      BY <3>1
    <3> QED
      BY <3>2, StageInverse
  <2>3. t \in [0 .. d + 1 -> Block]
    BY <1>1, <2>2
  <2>4. \A n \in 0 .. d : t[n] = s[n]
    BY <1>1
  <2>5. t[d + 1] = StageAt(d, s[d])
    BY <1>1
  <2> HIDE DEF t
  <2>6. Good(d + 1, t)
    <3>1. t[0] = p
      BY <1>1, <2>1, <2>4
    <3>2. ASSUME NEW n \in 0 .. d PROVE t[n + 1] = StageAt(n, t[n])
      <4>1. CASE n = d
        BY <2>4, <2>5, <4>1
      <4>2. CASE n # d
        <5>1. n \in 0 .. d - 1 /\ n + 1 \in 0 .. d
          BY <1>1, <4>2
        <5> QED
          BY <2>1, <2>4, <5>1
      <4> QED
        BY <4>1, <4>2
    <3>3. (d + 1) - 1 = d
      BY <1>1
    <3> QED
      BY <3>1, <3>2, <3>3
  <2> HIDE DEF Good
  <2>7. d + 1 \in 0 .. N
    BY <1>1
  <2> QED
    BY <2>3, <2>6, <2>7
<1> HIDE DEF D
<1>4. N \in D
  <2> HIDE DEF N
  <2>1. N \in 0 .. N
    BY <1>1
  <2> QED
    BY <1>1, <1>2, <1>3, <2>1, Climb
<1>5. PICK s \in [0 .. N -> Block] : Good(N, s)
  BY <1>4 DEF D
<1> QED
  BY <1>5 DEF Routes

LEMMA RouteTo ==
  ASSUME TypeOK, step # "expand", NEW c \in Block
  PROVE  \E s \in Routes : s[4 * Nr] = c
<1> DEFINE N == 4 * Nr
           Good(d, s) == s[N] = c /\ \A n \in N - d .. N - 1 : s[n + 1] = StageAt(n, s[n])
           D == {d \in 0 .. N : \E s \in [N - d .. N -> Block] : Good(d, s)}
<1>1. Nr \in 10 .. 14 /\ N \in Nat
  BY KeySizes DEF TypeOK
<1>2. 0 \in D
  <2> DEFINE s == [n \in N - 0 .. N |-> c]
  <2>1. s \in [N - 0 .. N -> Block] /\ s[N] = c
    BY <1>1
  <2>2. \A n \in N - 0 .. N - 1 : FALSE
    BY <1>1
  <2> HIDE DEF s
  <2>3. Good(0, s)
    BY <2>1, <2>2
  <2> HIDE DEF Good
  <2> QED
    BY <1>1, <2>1, <2>3
<1>3. ASSUME NEW d \in 0 .. N - 1, d \in D
      PROVE  d + 1 \in D
  <2>1. PICK s \in [N - d .. N -> Block] : Good(d, s)
    BY <1>3
  <2> DEFINE e == N - d - 1
             b == UnstageAt(e, s[e + 1])
             t == [n \in N - (d + 1) .. N |-> IF n = e THEN b ELSE s[n]]
  <2>2. e \in 0 .. N - 1 /\ e + 1 = N - d /\ e + 1 \in N - d .. N /\ e = N - (d + 1)
    BY <1>1
  <2>3. b \in Block /\ StageAt(e, b) = s[e + 1]
    <3>1. s[e + 1] \in Block
      BY <2>2
    <3> HIDE DEF e
    <3> QED
      BY <2>2, <3>1, StageInverse
  <2> HIDE DEF b
  <2>4. t \in [N - (d + 1) .. N -> Block]
    <3>1. \A n \in N - (d + 1) .. N : n = e \/ n \in N - d .. N
      BY <1>1
    <3> QED
      BY <2>3, <3>1
  <2>5. \A n \in N - d .. N : t[n] = s[n]
    BY <1>1
  <2>6. t[e] = b
    BY <1>1
  <2> HIDE DEF t
  <2>7. Good(d + 1, t)
    <3>1. t[N] = c
      BY <1>1, <2>1, <2>5
    <3>2. ASSUME NEW n \in N - (d + 1) .. N - 1 PROVE t[n + 1] = StageAt(n, t[n])
      <4>1. CASE n = e
        BY <2>2, <2>3, <2>5, <2>6, <4>1
      <4>2. CASE n # e
        <5>1. n \in N - d .. N - 1 /\ n \in N - d .. N /\ n + 1 \in N - d .. N
          BY <1>1, <4>2
        <5> QED
          BY <2>1, <2>5, <5>1
      <4> QED
        BY <4>1, <4>2
    <3> QED
      BY <3>1, <3>2
  <2> HIDE DEF Good
  <2>8. d + 1 \in 0 .. N
    BY <1>1
  <2> QED
    BY <2>4, <2>7, <2>8
<1> HIDE DEF D
<1>4. N \in D
  <2> HIDE DEF N
  <2>1. N \in 0 .. N
    BY <1>1
  <2> QED
    BY <1>1, <1>2, <1>3, <2>1, Climb
<1>5. PICK s \in [N - N .. N -> Block] : Good(N, s)
  BY <1>4 DEF D
<1>6. N - N = 0
  BY <1>1
<1> QED
  BY <1>5, <1>6 DEF Routes

LEMMA OneRoute ==
  ASSUME TypeOK, step # "expand", NEW s \in Routes, NEW t \in Routes,
         s[0] = t[0] \/ s[4 * Nr] = t[4 * Nr]
  PROVE  s[0] = t[0] /\ s[4 * Nr] = t[4 * Nr]
<1> DEFINE N == 4 * Nr
<1>1. Nr \in 10 .. 14 /\ N \in Nat
  BY KeySizes DEF TypeOK
<1>2. /\ \A n \in 0 .. N : s[n] \in Block /\ t[n] \in Block
      /\ \A n \in 0 .. N - 1 : s[n + 1] = StageAt(n, s[n]) /\ t[n + 1] = StageAt(n, t[n])
  BY DEF Routes
<1>3. CASE s[0] = t[0]
  <2> DEFINE D == {d \in 0 .. N : s[d] = t[d]}
  <2>1. 0 \in D
    BY <1>1, <1>3
  <2>2. \A d \in 0 .. N - 1 : d \in D => d + 1 \in D
    BY <1>1, <1>2
  <2>3. 0 .. N \subseteq D
    <3> HIDE DEF D, N
    <3> QED
      BY <1>1, <2>1, <2>2, Climb
  <2>4. N \in 0 .. N
    BY <1>1
  <2>5. N \in D
    BY <2>3, <2>4
  <2> QED
    BY <1>3, <2>5
<1>4. CASE s[N] = t[N]
  <2> DEFINE D == {d \in 0 .. N : s[N - d] = t[N - d]}
  <2>1. 0 \in D
    BY <1>1, <1>4
  <2>2. ASSUME NEW d \in 0 .. N - 1, d \in D PROVE d + 1 \in D
    <3> DEFINE e == N - (d + 1)
    <3>1. e \in 0 .. N - 1 /\ e \in 0 .. N /\ e + 1 = N - d /\ d + 1 \in 0 .. N
      BY <1>1
    <3>2. s[N - d] = t[N - d]
      BY <2>2
    <3> HIDE DEF e
    <3>3. s[e] \in Block /\ t[e] \in Block /\ StageAt(e, s[e]) = StageAt(e, t[e])
      BY <1>2, <3>1, <3>2
    <3>4. UnstageAt(e, StageAt(e, s[e])) = s[e] /\ UnstageAt(e, StageAt(e, t[e])) = t[e]
      BY <3>1, <3>3, StageInverse
    <3>5. s[e] = t[e]
      BY <3>3, <3>4
    <3> QED
      BY <3>1, <3>5 DEF e
  <2>3. 0 .. N \subseteq D
    <3> HIDE DEF D, N
    <3> QED
      BY <1>1, <2>1, <2>2, Climb
  <2>4. N \in 0 .. N /\ N - N = 0
    BY <1>1
  <2>5. N \in D
    BY <2>3, <2>4
  <2> QED
    BY <1>4, <2>4, <2>5
<1> QED
  BY <1>3, <1>4

LEMMA RouteEnds ==
  ASSUME TypeOK, step # "expand", NEW s \in Routes
  PROVE  s[0] \in Block /\ s[4 * Nr] \in Block
         /\ CipherOf[s[0]] = s[4 * Nr] /\ InvCipherOf[s[4 * Nr]] = s[0]
<1>1. s[0] \in Block /\ s[4 * Nr] \in Block
  <2>1. 0 \in 0 .. 4 * Nr /\ 4 * Nr \in 0 .. 4 * Nr
    BY KeySizes DEF TypeOK
  <2> QED
    BY <2>1 DEF Routes
<1>2. CipherOf[s[0]] = s[4 * Nr]
  <2> DEFINE t == CHOOSE r \in Routes : r[0] = s[0]
  <2>1. t \in Routes /\ t[0] = s[0]
    OBVIOUS
  <2>2. CipherOf[s[0]] = t[4 * Nr]
    BY <1>1 DEF CipherOf
  <2> HIDE DEF t
  <2> QED
    BY <2>1, <2>2, OneRoute
<1>3. InvCipherOf[s[4 * Nr]] = s[0]
  <2> DEFINE t == CHOOSE r \in Routes : r[4 * Nr] = s[4 * Nr]
  <2>1. t \in Routes /\ t[4 * Nr] = s[4 * Nr]
    OBVIOUS
  <2>2. InvCipherOf[s[4 * Nr]] = t[0]
    BY <1>1 DEF InvCipherOf
  <2> HIDE DEF t
  <2> QED
    BY <2>1, <2>2, OneRoute
<1> QED
  BY <1>1, <1>2, <1>3

(* CipherOf and InvCipherOf are functions on blocks, inverse to each other. *)
Permutes ==
  step # "expand" =>
    /\ CipherOf \in [Block -> Block] /\ InvCipherOf \in [Block -> Block]
    /\ \A b \in Block : InvCipherOf[CipherOf[b]] = b /\ CipherOf[InvCipherOf[b]] = b

(* Every key of every size makes Cipher and InvCipher permutations of the   *)
(* blocks, inverse to each other: what the chaining modes and the            *)
(* application assume of the cipher they are given.                        *)
THEOREM CipherIsPermutation == Spec => []Permutes
<1>1. ASSUME IInv PROVE Permutes
  <2> SUFFICES ASSUME step # "expand"
               PROVE  /\ CipherOf \in [Block -> Block] /\ InvCipherOf \in [Block -> Block]
                      /\ \A b \in Block : /\ InvCipherOf[CipherOf[b]] = b
                                          /\ CipherOf[InvCipherOf[b]] = b
    BY DEF Permutes
  <2>1. TypeOK
    BY <1>1 DEF IInv
  <2>2. ASSUME NEW b \in Block
        PROVE  /\ CipherOf[b] \in Block /\ InvCipherOf[CipherOf[b]] = b
               /\ InvCipherOf[b] \in Block /\ CipherOf[InvCipherOf[b]] = b
    <3>1. PICK s \in Routes : s[0] = b
      BY <2>1, RouteFrom
    <3>2. PICK t \in Routes : t[4 * Nr] = b
      BY <2>1, RouteTo
    <3>3. CipherOf[b] = s[4 * Nr] /\ InvCipherOf[s[4 * Nr]] = b /\ s[4 * Nr] \in Block
      BY <2>1, <3>1, RouteEnds
    <3>4. InvCipherOf[b] = t[0] /\ CipherOf[t[0]] = b /\ t[0] \in Block
      BY <2>1, <3>2, RouteEnds
    <3> QED
      BY <3>3, <3>4
  <2>3. CipherOf \in [Block -> Block]
    <3>1. CipherOf = [p \in Block |-> CipherOf[p]]
      BY DEF CipherOf
    <3> HIDE DEF CipherOf
    <3> QED
      BY <2>2, <3>1
  <2>4. InvCipherOf \in [Block -> Block]
    <3>1. InvCipherOf = [p \in Block |-> InvCipherOf[p]]
      BY DEF InvCipherOf
    <3> HIDE DEF InvCipherOf
    <3> QED
      BY <2>2, <3>1
  <2> QED
    BY <2>2, <2>3, <2>4
<1> QED
  BY <1>1, Invariant, PTL

EncryptSteps == {"sub", "shift", "mix", "key"}
DecryptSteps == {"invshift", "invsub", "invmix", "invkey"}

(* A call keeps the block that it was given on the record until it returns. *)
EndsKept ==
  /\ step = "expand" => calls = 0
  /\ step \in EncryptSteps => 0 \in DOMAIN seen
  /\ step \in DecryptSteps => 4 * Nr \in DOMAIN seen
  /\ step = "idle" /\ calls > 0 => {0, 4 * Nr} \subseteq DOMAIN seen

(* The block as the caller of Cipher and InvCipher sees it: what it gave    *)
(* until the call returns.                                                 *)
CallerBlock ==
  IF step \in EncryptSteps THEN seen[0]
  ELSE IF step \in DecryptSteps THEN seen[4 * Nr]
  ELSE buf

(* Record keeps what was recorded, unless a call starts anew. *)
LEMMA RecordKeeps ==
  ASSUME IInv, NEW d, NEW e, Record(d, e)
  PROVE  /\ DOMAIN seen' = (IF depth = d THEN DOMAIN seen ELSE {d}) \cup {e}
         /\ d \in DOMAIN seen' /\ seen'[d] = buf
         /\ depth = d => \A n \in DOMAIN seen : seen'[n] = seen[n]
         /\ depth' = e
<1> DEFINE known == IF depth = d THEN seen ELSE [n \in {d} |-> buf]
<1>1. seen' = [n \in DOMAIN known \cup {e} |-> IF n \in DOMAIN known THEN known[n] ELSE buf'] /\ depth' = e
  BY DEF Record
<1>2. DOMAIN known = (IF depth = d THEN DOMAIN seen ELSE {d}) /\ d \in DOMAIN known /\ known[d] = buf
  BY DEF IInv, Unwinds
<1>3. depth = d => known = seen
  OBVIOUS
<1> HIDE DEF known
<1> QED
  BY <1>1, <1>2, <1>3

(* A record that holds both ends is a route. *)
LEMMA FullRecord ==
  ASSUME TypeOK, step # "expand",
         NEW s, Recorded(s), Chained(s), Unbroken(s), {0, 4 * Nr} \subseteq DOMAIN s
  PROVE  /\ s[0] \in Block /\ s[4 * Nr] \in Block
         /\ CipherOf[s[0]] = s[4 * Nr] /\ InvCipherOf[s[4 * Nr]] = s[0]
<1>1. Nr \in 10 .. 14
  BY KeySizes DEF TypeOK
<1>2. DOMAIN s = 0 .. 4 * Nr
  BY DEF Recorded, Unbroken
<1> DEFINE t == [n \in 0 .. 4 * Nr |-> s[n]]
<1>3. t \in Routes
  <2>1. t \in [0 .. 4 * Nr -> Block]
    BY <1>2 DEF Recorded
  <2>2. ASSUME NEW n \in 0 .. 4 * Nr - 1 PROVE t[n + 1] = StageAt(n, t[n])
    <3>1. n \in 0 .. 4 * Nr /\ n + 1 \in 0 .. 4 * Nr
      BY <1>1
    <3>2. s[n + 1] = StageAt(n, s[n])
      BY <1>2, <3>1 DEF Chained
    <3> QED
      BY <3>1, <3>2
  <2> HIDE DEF t
  <2> QED
    BY <2>1, <2>2 DEF Routes
<1>4. t[0] = s[0] /\ t[4 * Nr] = s[4 * Nr]
  BY <1>1
<1> HIDE DEF t
<1> QED
  BY <1>3, <1>4, RouteEnds

(* One call. *)
CallEffect ==
  /\ Encrypt => CallerBlock' = IF step' = "idle" THEN CipherOf[CallerBlock] ELSE CallerBlock
  /\ Decrypt => CallerBlock' = IF step' = "idle" THEN InvCipherOf[CallerBlock] ELSE CallerBlock
  /\ KeyExpansion => UNCHANGED CallerBlock

LEMMA EncryptCall ==
  ASSUME IInv, EndsKept, Encrypt
  PROVE  EndsKept' /\ CallerBlock' = IF step' = "idle" THEN CipherOf[CallerBlock] ELSE CallerBlock
<1>1. Nr \in 10 .. 14 /\ Nr' = Nr /\ UNCHANGED <<key, RoundKey>> /\ step # "expand" /\ TypeOK
  <2>1. UNCHANGED <<key, RoundKey>> /\ step # "expand"
    BY DEF Encrypt, EncryptBegin, EncryptSub, EncryptShift, EncryptMix, EncryptKey, EncryptStage, Stage
  <2>2. Nr \in 10 .. 14
    BY KeySizes DEF IInv, TypeOK
  <2> QED
    BY <2>1, <2>2 DEF Nr, Nk, IInv
<1>2. IInv'
  BY EncryptStep
<1>3. CASE EncryptBegin
  <2>1. Record(0, 1) /\ step' = "sub" /\ step = "idle"
    BY <1>3 DEF EncryptBegin, Stage
  <2>2. 0 \in DOMAIN seen' /\ seen'[0] = buf
    BY <2>1, RecordKeeps
  <2> QED
    BY <2>1, <2>2 DEF EndsKept, CallerBlock, EncryptSteps, DecryptSteps
<1>4. CASE EncryptSub \/ EncryptShift \/ EncryptMix \/ EncryptKey
  <2>1. Record(depth, depth + 1) /\ step \in EncryptSteps /\ step' \in EncryptSteps \cup {"idle"}
    BY <1>4 DEF EncryptSub, EncryptShift, EncryptMix, EncryptKey, EncryptStage, Stage, EncryptSteps
  <2>2. /\ DOMAIN seen' = DOMAIN seen \cup {depth + 1} /\ depth' = depth + 1
        /\ \A n \in DOMAIN seen : seen'[n] = seen[n]
    BY <2>1, RecordKeeps
  <2>3. 0 \in DOMAIN seen /\ 0 \in DOMAIN seen' /\ seen'[0] = seen[0] /\ CallerBlock = seen[0]
    BY <2>1, <2>2 DEF EndsKept, CallerBlock
  <2>4. CASE step' \in EncryptSteps
    <3>1. step' # "idle" /\ step' # "expand" /\ step' \notin DecryptSteps
      BY <2>4 DEF EncryptSteps, DecryptSteps
    <3> QED
      BY <2>3, <2>4, <3>1 DEF EndsKept, CallerBlock
  <2>5. CASE step' = "idle"
    <3>1. depth + 1 = 4 * Nr
      <4>1. step = "key" /\ ~ (round < Nr)
        BY <1>4, <2>5 DEF EncryptSub, EncryptShift, EncryptMix, EncryptKey, EncryptStage, Stage
      <4>2. round \in 1 .. Nr /\ depth = IF round = Nr THEN 4 * Nr - 1 ELSE 4 * round
        BY <4>1 DEF IInv, DepthOK
      <4> QED
        BY <1>1, <4>1, <4>2
    <3>2. {0, 4 * Nr} \subseteq DOMAIN seen'
      BY <2>2, <2>3, <3>1
    <3>3. Recorded(seen') /\ Chained(seen') /\ Unbroken(seen')
      <4>1. ASSUME NEW n, NEW b PROVE StageAt(n, b)' = StageAt(n, b)
        BY <1>1 DEF StageAt, AddRoundKey
      <4>2. Recorded(seen)' /\ Chained(seen)' /\ Unbroken(seen)'
        BY <1>2 DEF IInv, TypeOK, Path, Recorded
      <4>3. Recorded(seen') /\ Unbroken(seen')
        BY <1>1, <4>2 DEF Recorded, Unbroken
      <4>4. Chained(seen')
        BY <1>1, <4>1, <4>2 DEF Chained
      <4> QED
        BY <4>3, <4>4
    <3>4. seen'[4 * Nr] = CipherOf[seen'[0]]
      BY <1>1, <3>2, <3>3, FullRecord
    <3>5. buf' = seen'[4 * Nr]
      BY <1>2, <2>2, <3>1 DEF IInv, Unwinds
    <3>6. CallerBlock' = buf'
      BY <2>5 DEF CallerBlock, EncryptSteps, DecryptSteps
    <3>7. EndsKept'
      BY <1>1, <2>5, <3>2 DEF EndsKept, EncryptSteps, DecryptSteps
    <3> QED
      BY <2>3, <2>5, <3>4, <3>5, <3>6, <3>7
  <2> QED
    BY <2>1, <2>4, <2>5
<1> QED
  BY <1>3, <1>4 DEF Encrypt

LEMMA DecryptCall ==
  ASSUME IInv, EndsKept, Decrypt
  PROVE  EndsKept' /\ CallerBlock' = IF step' = "idle" THEN InvCipherOf[CallerBlock] ELSE CallerBlock
<1>1. Nr \in 10 .. 14 /\ Nr' = Nr /\ UNCHANGED <<key, RoundKey>> /\ step # "expand" /\ TypeOK
  <2>1. UNCHANGED <<key, RoundKey>> /\ step # "expand"
    BY DEF Decrypt, DecryptBegin, DecryptSub, DecryptShift, DecryptMix, DecryptKey, DecryptStage, Stage
  <2>2. Nr \in 10 .. 14
    BY KeySizes DEF IInv, TypeOK
  <2> QED
    BY <2>1, <2>2 DEF Nr, Nk, IInv
<1>2. IInv'
  BY DecryptStep
<1>3. CASE DecryptBegin
  <2>1. Record(4 * Nr, 4 * Nr - 1) /\ step' = "invshift" /\ step = "idle"
    BY <1>3 DEF DecryptBegin, Stage
  <2>2. 4 * Nr \in DOMAIN seen' /\ seen'[4 * Nr] = buf
    BY <2>1, RecordKeeps
  <2> QED
    BY <1>1, <2>1, <2>2 DEF EndsKept, CallerBlock, EncryptSteps, DecryptSteps
<1>4. CASE DecryptShift \/ DecryptSub \/ DecryptKey \/ DecryptMix
  <2>1. Record(depth, depth - 1) /\ step \in DecryptSteps /\ step' \in DecryptSteps \cup {"idle"}
    BY <1>4 DEF DecryptSub, DecryptShift, DecryptMix, DecryptKey, DecryptStage, Stage, DecryptSteps
  <2>2. /\ DOMAIN seen' = DOMAIN seen \cup {depth - 1} /\ depth' = depth - 1
        /\ \A n \in DOMAIN seen : seen'[n] = seen[n]
    BY <2>1, RecordKeeps
  <2>3. /\ 4 * Nr \in DOMAIN seen /\ 4 * Nr \in DOMAIN seen' /\ seen'[4 * Nr] = seen[4 * Nr]
        /\ CallerBlock = seen[4 * Nr]
    <3>1. step \notin EncryptSteps
      BY <2>1 DEF EncryptSteps, DecryptSteps
    <3> QED
      BY <2>1, <2>2, <3>1 DEF EndsKept, CallerBlock
  <2>4. CASE step' \in DecryptSteps
    <3>1. step' # "idle" /\ step' # "expand" /\ step' \notin EncryptSteps
      BY <2>4 DEF EncryptSteps, DecryptSteps
    <3> QED
      BY <1>1, <2>3, <2>4, <3>1 DEF EndsKept, CallerBlock
  <2>5. CASE step' = "idle"
    <3>1. depth - 1 = 0
      <4>1. step = "invkey" /\ ~ (round > 0)
        BY <1>4, <2>5 DEF DecryptSub, DecryptShift, DecryptMix, DecryptKey, DecryptStage, Stage
      <4>2. round \in 0 .. Nr - 1 /\ depth = 4 * round + 1
        BY <4>1 DEF IInv, DepthOK
      <4> QED
        BY <1>1, <4>1, <4>2
    <3>2. {0, 4 * Nr} \subseteq DOMAIN seen'
      BY <2>2, <2>3, <3>1
    <3>3. Recorded(seen') /\ Chained(seen') /\ Unbroken(seen')
      <4>1. ASSUME NEW n, NEW b PROVE StageAt(n, b)' = StageAt(n, b)
        BY <1>1 DEF StageAt, AddRoundKey
      <4>2. Recorded(seen)' /\ Chained(seen)' /\ Unbroken(seen)'
        BY <1>2 DEF IInv, TypeOK, Path, Recorded
      <4>3. Recorded(seen') /\ Unbroken(seen')
        BY <1>1, <4>2 DEF Recorded, Unbroken
      <4>4. Chained(seen')
        BY <1>1, <4>1, <4>2 DEF Chained
      <4> QED
        BY <4>3, <4>4
    <3>4. seen'[0] = InvCipherOf[seen'[4 * Nr]]
      BY <1>1, <3>2, <3>3, FullRecord
    <3>5. buf' = seen'[0]
      BY <1>2, <2>2, <3>1 DEF IInv, Unwinds
    <3>6. CallerBlock' = buf'
      BY <2>5 DEF CallerBlock, EncryptSteps, DecryptSteps
    <3>7. EndsKept'
      BY <1>1, <2>5, <3>2 DEF EndsKept, EncryptSteps, DecryptSteps
    <3> QED
      BY <2>3, <2>5, <3>4, <3>5, <3>6, <3>7
  <2> QED
    BY <2>1, <2>4, <2>5
<1> QED
  BY <1>3, <1>4 DEF Decrypt

LEMMA ExpandCall ==
  ASSUME IInv, EndsKept, KeyExpansion
  PROVE  EndsKept' /\ UNCHANGED CallerBlock
<1>1. step = "expand" /\ step' \in {"expand", "idle"} /\ UNCHANGED <<key, buf, round, calls, depth, seen>>
  BY DEF KeyExpansion
<1>2. calls = 0 /\ ~ (calls > 0)
  BY <1>1 DEF EndsKept
<1> QED
  BY <1>1, <1>2 DEF EndsKept, CallerBlock, EncryptSteps, DecryptSteps

LEMMA EndsKeptAlways == Spec => []EndsKept
<1>1. Init => EndsKept
  BY DEF Init, EndsKept, EncryptSteps, DecryptSteps
<1>2. IInv /\ EndsKept /\ [Next]_vars => EndsKept'
  <2> SUFFICES ASSUME IInv, EndsKept, [Next]_vars PROVE EndsKept'
    OBVIOUS
  <2>1. CASE UNCHANGED vars
    BY <2>1 DEF vars, EndsKept, Nr, Nk
  <2> QED
    BY <2>1, EncryptCall, DecryptCall, ExpandCall DEF Next
<1> QED
  BY <1>1, <1>2, Invariant, PTL DEF Spec

(* Whatever stages a call goes through, and whatever calls came before it,  *)
(* Cipher replaces the caller's block by CipherOf of it and InvCipher by    *)
(* InvCipherOf of it, when it returns and not before; the expansion of the  *)
(* key leaves the block alone.                                             *)
THEOREM CallsAreAtomic == Spec => [][CallEffect]_vars
<1>1. IInv /\ EndsKept /\ [Next]_vars => [CallEffect]_vars
  <2> SUFFICES ASSUME IInv, EndsKept PROVE CallEffect
    OBVIOUS
  <2> QED
    BY EncryptCall, DecryptCall, ExpandCall DEF CallEffect
<1> QED
  BY <1>1, Invariant, EndsKeptAlways, PTL DEF Spec

(* The known answers, as facts about the cipher that the key makes. *)
AnswersAgree ==
  \A a \in Answers : a.key = key /\ step # "expand" => CipherOf[a.plain] = a.cipher

(* A known answer (test_encrypt_ecb, test_decrypt_ecb of main.c) need only   *)
(* hold of the function CipherOf: every run of calls then meets it, in both *)
(* directions, for no other block has the same cipher text.                *)
THEOREM AnswersSuffice == Spec => [](AnswersAgree => KnownAnswer)
<1>1. ASSUME IInv PROVE AnswersAgree => KnownAnswer
  <2> SUFFICES ASSUME AnswersAgree, NEW a \in Answers, a.key = key, {0, 4 * Nr} \subseteq DOMAIN seen
               PROVE  seen[0] = a.plain <=> seen[4 * Nr] = a.cipher
    BY DEF KnownAnswer
  <2>1. TypeOK /\ Nr \in 10 .. 14
    BY <1>1, KeySizes DEF IInv, TypeOK
  <2>2. step # "expand"
    BY <1>1, <2>1 DEF IInv, DepthOK
  <2>3. Recorded(seen) /\ Chained(seen) /\ Unbroken(seen)
    BY <1>1 DEF IInv, TypeOK, Path, Recorded
  <2>4. CipherOf[seen[0]] = seen[4 * Nr] /\ InvCipherOf[seen[4 * Nr]] = seen[0]
    BY <2>1, <2>2, <2>3, FullRecord
  <2>5. a.plain \in Block
    BY InputsAssumption
  <2>6. CipherOf[a.plain] = a.cipher
    BY <2>2 DEF AnswersAgree
  <2>7. InvCipherOf[a.cipher] = a.plain
    <3>1. PICK s \in Routes : s[0] = a.plain
      BY <2>1, <2>2, <2>5, RouteFrom
    <3> QED
      BY <2>1, <2>2, <2>6, <3>1, RouteEnds
  <2> QED
    BY <2>4, <2>6, <2>7
<1> QED
  BY <1>1, Invariant, PTL
=============================================================================
