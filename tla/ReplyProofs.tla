---------------------------- MODULE ReplyProofs ----------------------------
(***************************************************************************)
(* Theorems about UpstreamEvents, for every set of envelopes and for       *)
(* replies of any length: what the parser makes of each line first, then   *)
(* the invariant Reassembling, that each action keeps.                     *)
(*                                                                         *)
(* What the parser yields is put together with FlattenSeq, a recursive     *)
(* function: the facts about it that the proofs need open the module.      *)
(* They are proved by the least counterexample (LeastNat), which a         *)
(* well-founded relation has.                                              *)
(***************************************************************************)
EXTENDS UpstreamEvents, WellFoundedInduction, SequenceTheorems, TLAPS

-----------------------------------------------------------------------------
(* Flattening                                                              *)

LEMMA LeastNat ==
  ASSUME NEW S, S \subseteq Nat, S # {}
  PROVE  \E x \in S : \A y \in S : x <= y
<1> DEFINE R == OpToRel(<, Nat)
<1>1. \A x, y \in Nat : <<y, x>> \in R <=> y < x
  BY DEF OpToRel
<1>2. IsWellFoundedOn(R, Nat)
  BY NatLessThanWellFounded
<1> HIDE DEF R
<1>3. PICK x \in S : \A y \in S : ~(<<y, x>> \in R)
  BY <1>2, WFMin
<1>4. \A y \in S : ~(y < x)
  BY <1>1, <1>3
<1>5. \A y \in S : x <= y
  BY <1>4
<1> QED BY <1>5

\* f holds the first 1, 2, ..., n sequences of s, flattened.
Flattens(f, s, n) == f = [i \in 1..n |-> IF i = 1 THEN s[i] ELSE f[i - 1] \o s[i]]

LEMMA FlattensExists ==
  ASSUME NEW s, NEW n \in Nat
  PROVE  \E f : Flattens(f, s, n)
<1> DEFINE Bad == {m \in Nat : ~\E f : Flattens(f, s, m)}
<1>1. SUFFICES ASSUME Bad # {} PROVE FALSE
  OBVIOUS
<1>2. PICK m \in Bad : \A k \in Bad : m <= k
  BY <1>1, LeastNat
<1>3. CASE m = 0
  <2>1. Flattens([i \in 1..0 |-> 0], s, 0)
    BY DEF Flattens
  <2> QED BY <1>2, <1>3, <2>1
<1>4. CASE m # 0
  <2>1. m - 1 \in Nat /\ m - 1 \notin Bad /\ m \in Nat
    BY <1>2, <1>4
  <2>2. PICK f : Flattens(f, s, m - 1)
    BY <2>1
  <2> DEFINE g == [i \in 1..m |-> IF i = 1 THEN s[i] ELSE f[i - 1] \o s[i]]
  <2>3. \A i \in 1..(m - 1) : g[i] = f[i]
    <3>1. \A i \in 1..(m - 1) : f[i] = IF i = 1 THEN s[i] ELSE f[i - 1] \o s[i]
      BY <2>2 DEF Flattens
    <3>2. \A i \in 1..(m - 1) : g[i] = IF i = 1 THEN s[i] ELSE f[i - 1] \o s[i]
      BY <2>1
    <3> QED BY <3>1, <3>2
  <2>4. g = [i \in 1..m |-> IF i = 1 THEN s[i] ELSE g[i - 1] \o s[i]]
    <3>1. \A i \in 1..m : i # 1 => i - 1 \in 1..(m - 1)
      BY <2>1
    <3>2. \A i \in 1..m : i # 1 => g[i - 1] = f[i - 1]
      BY <2>3, <3>1
    <3> HIDE DEF g
    <3>3. \A i \in 1..m : (IF i = 1 THEN s[i] ELSE f[i - 1] \o s[i])
                            = (IF i = 1 THEN s[i] ELSE g[i - 1] \o s[i])
      BY <3>2
    <3> QED BY <3>3 DEF g
  <2> HIDE DEF g
  <2>5. Flattens(g, s, m)
    BY <2>4 DEF Flattens
  <2> QED BY <1>2, <2>5
<1> QED BY <1>3, <1>4

LEMMA FlattensAgree ==
  ASSUME NEW f, NEW g, NEW s, NEW t, NEW m \in Nat, NEW n \in Nat, m <= n,
         Flattens(f, s, m), Flattens(g, t, n), \A i \in 1..m : s[i] = t[i]
  PROVE  \A i \in 1..m : f[i] = g[i]
<1> DEFINE Bad == {i \in 1..m : f[i] # g[i]}
<1>1. SUFFICES ASSUME Bad # {} PROVE FALSE
  OBVIOUS
<1>2. PICK i \in Bad : \A k \in Bad : i <= k
  <2>1. Bad \subseteq Nat
    OBVIOUS
  <2> QED BY <1>1, <2>1, LeastNat
<1>3. i \in 1..m /\ i \in 1..n /\ f[i] # g[i]
  BY <1>2
<1>4. f[i] = IF i = 1 THEN s[i] ELSE f[i - 1] \o s[i]
  BY <1>3 DEF Flattens
<1>5. g[i] = IF i = 1 THEN t[i] ELSE g[i - 1] \o t[i]
  BY <1>3 DEF Flattens
<1>6. i # 1 => f[i - 1] = g[i - 1]
  BY <1>2, <1>3
<1> QED BY <1>3, <1>4, <1>5, <1>6

LEMMA FlattenDef ==
  ASSUME NEW s, Len(s) \in Nat
  PROVE  \E f : /\ Flattens(f, s, Len(s))
                /\ FlattenSeq(s) = IF Len(s) = 0 THEN s ELSE f[Len(s)]
<1> DEFINE h == CHOOSE f : Flattens(f, s, Len(s))
<1>1. \E f : Flattens(f, s, Len(s))
  BY FlattensExists
<1>2. Flattens(h, s, Len(s))
  BY <1>1
<1>3. FlattenSeq(s) = IF Len(s) = 0 THEN s ELSE h[Len(s)]
  BY DEF FlattenSeq, Flattens
<1> HIDE DEF h
<1> QED BY <1>2, <1>3

LEMMA FlattenAppend ==
  ASSUME NEW S, NEW s \in Seq(Seq(S)), NEW x \in Seq(S),
         FlattenSeq(s) \in Seq(S)
  PROVE  FlattenSeq(Append(s, x)) = FlattenSeq(s) \o x
<1> DEFINE t == Append(s, x)
<1>1. /\ Len(t) = Len(s) + 1 /\ Len(s) \in Nat /\ t[Len(s) + 1] = x
      /\ \A i \in 1..Len(s) : s[i] = t[i]
  BY AppendProperties
<1> HIDE DEF t
<1>2. PICK f : /\ Flattens(f, s, Len(s))
               /\ FlattenSeq(s) = IF Len(s) = 0 THEN s ELSE f[Len(s)]
  BY <1>1, FlattenDef
<1>3. PICK g : /\ Flattens(g, t, Len(t))
               /\ FlattenSeq(t) = IF Len(t) = 0 THEN t ELSE g[Len(t)]
  BY <1>1, FlattenDef
<1>4. FlattenSeq(t) = g[Len(s) + 1]
  BY <1>1, <1>3
<1>5. g[Len(s) + 1] = IF Len(s) + 1 = 1 THEN x ELSE g[Len(s)] \o x
  <2>1. Len(s) + 1 \in 1..Len(t) /\ (Len(s) + 1) - 1 = Len(s)
    BY <1>1
  <2> QED BY <1>1, <1>3, <2>1 DEF Flattens
<1>6. CASE Len(s) = 0
  <2>1. s = <<>> /\ FlattenSeq(s) = <<>>
    BY <1>2, <1>6
  <2> QED BY <1>4, <1>5, <1>6, <2>1 DEF t
<1>7. CASE Len(s) # 0
  <2>1. \A i \in 1..Len(s) : f[i] = g[i]
    <3>1. Len(t) \in Nat /\ Len(s) <= Len(t)
      BY <1>1
    <3> QED BY <1>1, <1>2, <1>3, <3>1, FlattensAgree
  <2>2. FlattenSeq(s) = g[Len(s)]
    BY <1>1, <1>2, <1>7, <2>1
  <2>3. FlattenSeq(t) = g[Len(s)] \o x
    BY <1>1, <1>4, <1>5, <1>7
  <2> QED BY <2>2, <2>3 DEF t
<1> QED BY <1>6, <1>7

\* FlattenSeq of sequences over S is one.
LEMMA FlattenType ==
  ASSUME NEW S
  PROVE  \A s \in Seq(Seq(S)) : FlattenSeq(s) \in Seq(S)
<1> DEFINE Bad == {n \in Nat : \E s \in Seq(Seq(S)) : Len(s) = n /\ FlattenSeq(s) \notin Seq(S)}
<1>1. SUFFICES ASSUME Bad # {} PROVE FALSE
  BY LenProperties
<1>2. PICK n \in Bad : \A k \in Bad : n <= k
  BY <1>1, LeastNat
<1>3. PICK s \in Seq(Seq(S)) : Len(s) = n /\ FlattenSeq(s) \notin Seq(S)
  BY <1>2
<1>4. s # <<>>
  BY <1>3 DEF FlattenSeq
<1>5. PICK t \in Seq(Seq(S)), x \in Seq(S) : s = Append(t, x)
  BY <1>4, SequenceEmptyOrAppend
<1>6. Len(t) \in Nat /\ Len(t) < n
  BY <1>3, <1>5
<1>7. FlattenSeq(t) \in Seq(S)
  BY <1>2, <1>6
<1> QED BY <1>3, <1>5, <1>7, FlattenAppend, ConcatProperties

LEMMA FlattenOne ==
  ASSUME NEW S, NEW x \in Seq(S)
  PROVE  FlattenSeq(<<x>>) = x /\ FlattenSeq(<<>>) = <<>>
BY DEF FlattenSeq

LEMMA FlattenTwo ==
  ASSUME NEW S, NEW x \in Seq(S), NEW y \in Seq(S)
  PROVE  FlattenSeq(<<x, y>>) = x \o y
<1>1. <<x>> \in Seq(Seq(S)) /\ FlattenSeq(<<x>>) = x
  BY FlattenOne
<1>2. <<x, y>> = Append(<<x>>, y)
  OBVIOUS
<1> QED BY <1>1, <1>2, FlattenAppend

(* Concatenation over S is associative.                                    *)
Associates(S) == \A a, b, c \in Seq(S) : (a \o b) \o c = a \o (b \o c)

LEMMA Regrouped == \A S : Associates(S)
BY DEF Associates

LEMMA FlattenConcat ==
  ASSUME NEW S, NEW s \in Seq(Seq(S))
  PROVE  \A t \in Seq(Seq(S)) : FlattenSeq(s \o t) = FlattenSeq(s) \o FlattenSeq(t)
<1> DEFINE Bad == {n \in Nat : \E t \in Seq(Seq(S)) :
                     Len(t) = n /\ FlattenSeq(s \o t) # FlattenSeq(s) \o FlattenSeq(t)}
<1>1. SUFFICES ASSUME Bad # {} PROVE FALSE
  BY LenProperties
<1>2. PICK n \in Bad : \A k \in Bad : n <= k
  BY <1>1, LeastNat
<1>3. PICK t \in Seq(Seq(S)) :
        Len(t) = n /\ FlattenSeq(s \o t) # FlattenSeq(s) \o FlattenSeq(t)
  BY <1>2
<1> HIDE DEF Bad
<1>4. t # <<>>
  <2>1. s \o <<>> = s /\ FlattenSeq(<<>>) = <<>> /\ FlattenSeq(s) \in Seq(S)
    BY ConcatEmptySeq, FlattenType DEF FlattenSeq
  <2>2. FlattenSeq(s) \o <<>> = FlattenSeq(s)
    BY <2>1, ConcatEmptySeq
  <2> QED BY <1>3, <2>1, <2>2
<1>5. PICK u \in Seq(Seq(S)), x \in Seq(S) : t = Append(u, x)
  BY <1>4, SequenceEmptyOrAppend
<1>6. Len(u) \in Nat /\ Len(u) < n
  BY <1>3, <1>5
<1>7. FlattenSeq(s \o u) = FlattenSeq(s) \o FlattenSeq(u)
  BY <1>2, <1>6 DEF Bad
<1>8. s \o u \in Seq(Seq(S)) /\ s \o t = Append(s \o u, x)
  <2>1. u \o <<x>> = t /\ Append(s \o u, x) = (s \o u) \o <<x>> /\ <<x>> \in Seq(Seq(S))
    BY <1>5, AppendIsConcat, ConcatProperties
  <2>2. s \o (u \o <<x>>) = (s \o u) \o <<x>>
    BY <1>5, <2>1, ConcatAssociative
  <2>3. s \o u \in Seq(Seq(S))
    BY <1>5, ConcatProperties
  <2> QED BY <2>1, <2>2, <2>3
<1>9. /\ FlattenSeq(s) \in Seq(S) /\ FlattenSeq(u) \in Seq(S) /\ FlattenSeq(s \o u) \in Seq(S)
  BY <1>8, FlattenType
<1>10. FlattenSeq(s \o t) = (FlattenSeq(s) \o FlattenSeq(u)) \o x
  BY <1>7, <1>8, <1>9, FlattenAppend
<1>11. FlattenSeq(t) = FlattenSeq(u) \o x
  BY <1>5, <1>9, FlattenAppend
<1>12. Associates(S)
  BY ONLY Regrouped
<1>13. (FlattenSeq(s) \o FlattenSeq(u)) \o x = FlattenSeq(s) \o (FlattenSeq(u) \o x)
  <2>1. x \in Seq(S)
    BY <1>5
  <2> QED BY ONLY <1>9, <1>12, <2>1, Zenon DEF Associates
<1>14. FlattenSeq(s \o t) = FlattenSeq(s) \o FlattenSeq(t)
  BY ONLY <1>10, <1>11, <1>13, Zenon
<1> QED BY ONLY <1>3, <1>14, Zenon

-----------------------------------------------------------------------------
(* Texts among events                                                      *)

Marked(s) == [i \in DOMAIN s |-> IF IsText(s[i]) THEN <<s[i]>> ELSE <<>>]

LEMMA MarkedType ==
  ASSUME NEW S, NEW s \in Seq(S)
  PROVE  /\ Marked(s) \in Seq(Seq(S)) /\ Len(Marked(s)) = Len(s)
         /\ \A i \in 1..Len(s) : Marked(s)[i] = IF IsText(s[i]) THEN <<s[i]>> ELSE <<>>
<1>1. DOMAIN s = 1..Len(s) /\ Len(s) \in Nat /\ \A i \in 1..Len(s) : s[i] \in S
  BY LenProperties
<1>2. \A i \in 1..Len(s) : (IF IsText(s[i]) THEN <<s[i]>> ELSE <<>>) \in Seq(S)
  BY <1>1
<1> QED BY <1>1, <1>2 DEF Marked

LEMMA TextsConcat ==
  ASSUME NEW S, NEW s \in Seq(S), NEW t \in Seq(S)
  PROVE  TextsIn(s \o t) = TextsIn(s) \o TextsIn(t)
<1>1. s \o t \in Seq(S) /\ Len(s \o t) = Len(s) + Len(t) /\ Len(s) \in Nat /\ Len(t) \in Nat
  BY ConcatProperties, LenProperties
<1>2. \A i \in 1..(Len(s) + Len(t)) : (s \o t)[i] = IF i <= Len(s) THEN s[i] ELSE t[i - Len(s)]
  BY ConcatProperties
<1>3. /\ Marked(s) \in Seq(Seq(S)) /\ Len(Marked(s)) = Len(s)
      /\ \A i \in 1..Len(s) : Marked(s)[i] = IF IsText(s[i]) THEN <<s[i]>> ELSE <<>>
  BY MarkedType
<1>4. /\ Marked(t) \in Seq(Seq(S)) /\ Len(Marked(t)) = Len(t)
      /\ \A i \in 1..Len(t) : Marked(t)[i] = IF IsText(t[i]) THEN <<t[i]>> ELSE <<>>
  BY MarkedType
<1>5. /\ Marked(s \o t) \in Seq(Seq(S)) /\ Len(Marked(s \o t)) = Len(s) + Len(t)
      /\ \A i \in 1..(Len(s) + Len(t)) :
           Marked(s \o t)[i] = IF IsText((s \o t)[i]) THEN <<(s \o t)[i]>> ELSE <<>>
  BY <1>1, MarkedType
<1>6. /\ Marked(s) \o Marked(t) \in Seq(Seq(S))
      /\ Len(Marked(s) \o Marked(t)) = Len(s) + Len(t)
      /\ \A i \in 1..(Len(s) + Len(t)) :
           (Marked(s) \o Marked(t))[i] = IF i <= Len(s) THEN Marked(s)[i] ELSE Marked(t)[i - Len(s)]
  <2> DEFINE a == Marked(s)
             b == Marked(t)
  <2>1. a \in Seq(Seq(S)) /\ b \in Seq(Seq(S)) /\ Len(a) = Len(s) /\ Len(b) = Len(t)
    BY <1>3, <1>4
  <2> HIDE DEF a, b
  <2>2. /\ a \o b \in Seq(Seq(S)) /\ Len(a \o b) = Len(a) + Len(b)
        /\ \A i \in 1..(Len(a) + Len(b)) :
             (a \o b)[i] = IF i <= Len(a) THEN a[i] ELSE b[i - Len(a)]
    BY <2>1, ConcatProperties
  <2> QED BY <2>1, <2>2 DEF a, b
<1>7. ASSUME NEW i \in 1..(Len(s) + Len(t))
      PROVE  Marked(s \o t)[i] = (Marked(s) \o Marked(t))[i]
  <2>1. CASE i <= Len(s)
    <3>1. i \in 1..Len(s)
      BY <1>1, <2>1
    <3> QED BY <1>2, <1>3, <1>5, <1>6, <2>1, <3>1
  <2>2. CASE ~(i <= Len(s))
    <3>1. i - Len(s) \in 1..Len(t)
      BY <1>1, <2>2
    <3> QED BY <1>2, <1>4, <1>5, <1>6, <2>2, <3>1
  <2> QED BY <2>1, <2>2
<1>8. Marked(s \o t) = Marked(s) \o Marked(t)
  BY <1>5, <1>6, <1>7, SeqEqual
<1>9. FlattenSeq(Marked(s) \o Marked(t)) = FlattenSeq(Marked(s)) \o FlattenSeq(Marked(t))
  BY <1>3, <1>4, FlattenConcat
<1> QED BY <1>8, <1>9 DEF TextsIn, Marked

LEMMA TextsOne ==
  ASSUME NEW e
  PROVE  TextsIn(<<e>>) = (IF IsText(e) THEN <<e>> ELSE <<>>) /\ TextsIn(<<>>) = <<>>
<1>1. Marked(<<e>>) = <<IF IsText(e) THEN <<e>> ELSE <<>>>> /\ Marked(<<>>) = <<>>
  BY DEF Marked
<1>2. <<e>> \in Seq({e}) /\ <<>> \in Seq({e})
  OBVIOUS
<1> QED BY <1>1, <1>2, FlattenOne DEF TextsIn, Marked

LEMMA PairIsConcat ==
  ASSUME NEW d, NEW e
  PROVE  <<d, e>> = <<d>> \o <<e>>
<1> DEFINE a == Append(<<d>>, e)
           b == <<d, e>>
<1>1. /\ <<d>> \in Seq({d, e}) /\ b \in Seq({d, e}) /\ e \in {d, e}
      /\ Len(<<d>>) = 1 /\ Len(b) = 2 /\ b[1] = d /\ b[2] = e
  OBVIOUS
<1>2. a \in Seq({d, e}) /\ Len(a) = 2 /\ a[1] = d /\ a[2] = e
  BY <1>1, AppendProperties
<1>3. a = <<d>> \o <<e>>
  BY <1>1, AppendIsConcat
<1> HIDE DEF a, b
<1>4. \A i \in 1..Len(a) : a[i] = b[i]
  BY <1>1, <1>2
<1>5. a = b
  BY <1>1, <1>2, <1>4, SeqEqual
<1> QED BY <1>3, <1>5 DEF b

LEMMA TextsTwo ==
  ASSUME NEW d, NEW e
  PROVE  TextsIn(<<d, e>>) = (IF IsText(d) THEN <<d>> ELSE <<>>)
                               \o (IF IsText(e) THEN <<e>> ELSE <<>>)
<1>1. <<d>> \in Seq({d, e}) /\ <<e>> \in Seq({d, e})
  OBVIOUS
<1>3. <<d, e>> = <<d>> \o <<e>>
  BY PairIsConcat
<1>2. TextsIn(<<d, e>>) = TextsIn(<<d>>) \o TextsIn(<<e>>)
  BY <1>1, <1>3, TextsConcat
<1> QED BY <1>2, TextsOne

\* What comes of yielding some events, the last of which may end the answer.
IsSequence(s) == \E S : s \in Seq(S)
EndsLast(s) == \A i \in DOMAIN s : s[i].kind \in {"finished", "error"} => i = Len(s)

LEMMA Yielded ==
  ASSUME NEW es, IsSequence(es), EndsLast(es),
         IsSequence(events), ~Terminal(events), Yield(es)
  PROVE  /\ IsSequence(events')
         /\ TextsIn(events') = TextsIn(events) \o TextsIn(es)
         /\ EndsLast(events') /\ (over' <=> Terminal(es)) /\ (over' <=> Terminal(events'))
         /\ es # <<>> => events' # <<>> /\ Last(events') = Last(es)
<1>1. PICK S : es \in Seq(S)
  BY DEF IsSequence
<1>2. PICK T : events \in Seq(T)
  BY DEF IsSequence
<1> DEFINE U == S \cup T
<1>3. es \in Seq(U) /\ events \in Seq(U)
  BY <1>1, <1>2, SeqMonotonic
<1> HIDE DEF U
<1>4. /\ events' = events \o es /\ events' \in Seq(U) /\ Len(events') = Len(events) + Len(es)
      /\ Len(events) \in Nat /\ Len(es) \in Nat
      /\ DOMAIN es = 1..Len(es) /\ DOMAIN events = 1..Len(events)
      /\ DOMAIN events' = 1..(Len(events) + Len(es))
  BY <1>3, ConcatProperties, LenProperties DEF Yield
<1>5. \A i \in 1..(Len(events) + Len(es)) :
        events'[i] = IF i <= Len(events) THEN events[i] ELSE es[i - Len(events)]
  BY <1>3, <1>4, ConcatProperties
<1>6. \A i \in 1..Len(events) : events[i].kind \notin {"finished", "error"}
  BY <1>4 DEF Terminal
<1>7. \A i \in DOMAIN events' : i > Len(events) => i - Len(events) \in 1..Len(es)
  BY <1>4
<1>8. EndsLast(events')
  BY <1>4, <1>5, <1>6, <1>7 DEF EndsLast
<1>9. Terminal(events') => Terminal(es)
  BY <1>4, <1>5, <1>6, <1>7 DEF Terminal
<1>10. Terminal(es) => Terminal(events')
  <2>1. \A j \in 1..Len(es) :
          /\ j + Len(events) \in 1..(Len(events) + Len(es)) /\ ~(j + Len(events) <= Len(events))
          /\ (j + Len(events)) - Len(events) = j
    BY <1>4
  <2>2. \A j \in 1..Len(es) : events'[j + Len(events)] = es[j]
    BY <1>5, <2>1
  <2> QED BY <1>4, <2>1, <2>2 DEF Terminal
<1>11. ASSUME es # <<>> PROVE events' # <<>> /\ Last(events') = Last(es)
  <2>1. Len(es) > 0 /\ Len(events') \in 1..(Len(events) + Len(es)) /\ ~(Len(events') <= Len(events))
        /\ Len(events') - Len(events) = Len(es)
    BY <1>3, <1>4, <1>11, EmptySeq
  <2> QED BY <1>4, <1>5, <2>1 DEF Last
<1>12. TextsIn(events') = TextsIn(events) \o TextsIn(es)
  BY <1>3, <1>4, TextsConcat
<1>13. (over' <=> Terminal(es)) /\ (over' <=> Terminal(events'))
  BY <1>9, <1>10 DEF Yield
<1> QED BY <1>4, <1>8, <1>11, <1>12, <1>13 DEF IsSequence

-----------------------------------------------------------------------------
(* What the parser makes of a line                                         *)

Piece == [kind : TextPath, text : Nat]

LEMMA StringsOne ==
  ASSUME NEW path, NEW v
  PROVE  Strings(path, <<v>>) = IF v.is = "text" THEN <<TextEvent(path, v.no)>> ELSE <<>>
<1> DEFINE e == TextEvent(path, v.no)
<1>1. <<e>> \in Seq({e}) /\ <<>> \in Seq({e})
  OBVIOUS
<1>2. [i \in DOMAIN <<v>> |-> IF <<v>>[i].is = "text" THEN <<TextEvent(path, <<v>>[i].no)>> ELSE <<>>]
        = <<IF v.is = "text" THEN <<e>> ELSE <<>>>>
  OBVIOUS
<1> HIDE DEF e
<1>3. Strings(path, <<v>>) = FlattenSeq(<<IF v.is = "text" THEN <<e>> ELSE <<>>>>)
  BY <1>2 DEF Strings, e
<1> QED BY <1>1, <1>3, FlattenOne DEF e

LEMMA PieceText ==
  ASSUME NEW piece \in Piece
  PROVE  TextEvent(piece.kind, piece.text) = piece
BY DEF Piece, TextEvent

LEMMA PieceItem ==
  ASSUME NEW piece \in Piece, NEW path \in TextPath \cup {"", "response"},
         NEW item \in Items(piece, path)
  PROVE  ItemEvents(item, path) = <<piece>> /\ ~EndsBatch(item, path)
<1> DEFINE word == Text(piece.text)
<1>1. /\ word.is = "text" /\ word.no = piece.text /\ TextEvent(piece.kind, word.no) = piece
      /\ piece.kind \in {"thinking", "content"}
  BY PieceText DEF Piece, TextPath, Text
<1> HIDE DEF word
<1>2. Texts(piece.kind, <<word>>) = <<piece>>
  BY <1>1, StringsOne DEF Texts, TextPath
<1>3. ValueEvents(piece.kind, word) = <<piece>> /\ ValueEvents(piece.kind, List(<<word>>)) = <<piece>>
  BY <1>1, <1>2 DEF ValueEvents, Counted, List
<1>4. path \in {"thinking", "content", "", "response"}
  BY DEF TextPath
<1>5. CASE item = Pair(piece.kind, word) \/ item = Pair(piece.kind, List(<<word>>))
  <2>1. PICK v : item = Pair(piece.kind, v) /\ ValueEvents(piece.kind, v) = <<piece>>
    BY <1>3, <1>5
  <2>2. item.is = "pair" /\ item.p = piece.kind /\ item.v = v
    BY <2>1 DEF Pair
  <2>3. PathOf(item.p, path) = piece.kind
    BY <1>1, <2>2 DEF PathOf
  <2> QED BY <1>1, <2>1, <2>2, <2>3 DEF ItemEvents, EndsBatch
<1>6. CASE path = piece.kind /\ (item = Pair("", word) \/ item = word)
  <2>1. CASE item = word
    BY <1>1, <1>2, <1>6, <2>1 DEF ItemEvents, EndsBatch
  <2>2. CASE item = Pair("", word)
    <3>1. item.is = "pair" /\ item.p = "" /\ item.v = word
      BY <2>2 DEF Pair
    <3>2. PathOf(item.p, path) = piece.kind
      BY <1>6, <3>1 DEF PathOf
    <3> QED BY <1>1, <1>3, <3>1, <3>2 DEF ItemEvents, EndsBatch
  <2> QED BY <1>6, <2>1, <2>2
<1> QED BY <1>5, <1>6 DEF Items, word

LEMMA BatchOne ==
  ASSUME NEW a, NEW path, ~EndsBatch(a, path), NEW x, ItemEvents(a, path) = x, IsSequence(x)
  PROVE  BatchEvents(<<a>>, path) = x
<1>1. SelectInSeq(<<a>>, LAMBDA item : EndsBatch(item, path)) = 0
  BY DEF SelectInSeq
<1>2. [i \in DOMAIN <<a>> |-> ItemEvents(<<a>>[i], path)] = <<x>>
  OBVIOUS
<1>3. PICK S : x \in Seq(S)
  BY DEF IsSequence
<1>4. FlattenSeq(<<x>>) \o <<>> = x
  BY <1>3, FlattenOne, ConcatEmptySeq
<1> QED BY <1>1, <1>2, <1>4 DEF BatchEvents

LEMMA BatchTwo ==
  ASSUME NEW a, NEW b, NEW path, ~EndsBatch(a, path), ~EndsBatch(b, path),
         NEW S, ItemEvents(a, path) \in Seq(S), ItemEvents(b, path) \in Seq(S)
  PROVE  BatchEvents(<<a, b>>, path) = ItemEvents(a, path) \o ItemEvents(b, path)
<1> DEFINE x == ItemEvents(a, path)
           y == ItemEvents(b, path)
<1>1. SelectInSeq(<<a, b>>, LAMBDA item : EndsBatch(item, path)) = 0
  BY DEF SelectInSeq
<1>2. [i \in DOMAIN <<a, b>> |-> ItemEvents(<<a, b>>[i], path)] = <<x, y>>
  OBVIOUS
<1>3. x \in Seq(S) /\ y \in Seq(S)
  OBVIOUS
<1> HIDE DEF x, y
<1>4. x \o y \in Seq(S) /\ FlattenSeq(<<x, y>>) = x \o y
  BY <1>3, FlattenTwo, ConcatProperties
<1>5. (x \o y) \o <<>> = x \o y
  BY <1>4, ConcatEmptySeq
<1>6. BatchEvents(<<a, b>>, path) = x \o y
  BY <1>1, <1>2, <1>4, <1>5 DEF BatchEvents
<1> QED BY <1>6 DEF x, y

LEMMA ContinuedType ==
  ASSUME meant \in Seq(Piece)
  PROVE  Continued \in TextPath \cup {""}
<1>1. meant # <<>> => Last(meant) \in Piece
  BY EmptySeq, LenProperties, ElementOfSeq DEF Last
<1> QED BY <1>1 DEF Continued, Piece

BatchPath == TextPath \cup {"", "response"}

LEMMA WrittenBatch ==
  ASSUME NEW pieces, NEW line \in Batches(pieces)
  PROVE  \E p \in BatchPath :
           \E row \in Rows(pieces, PathOf(p, Continued)) : line = Delta(p, List(row))
BY DEF Batches, BatchPath

\* A batch at the path that it has or continues.
LEMMA BatchHeard ==
  ASSUME heard = Continued, meant \in Seq(Piece), NEW p \in BatchPath, NEW items,
         NEW line, line = Delta(p, List(items))
  PROVE  /\ line.is = "delta" /\ PathOf(p, Continued) \in BatchPath
         /\ Feed(line, heard) = BatchEvents(items, PathOf(p, Continued))
<1> DEFINE path == PathOf(p, Continued)
<1>1. path \in BatchPath
  BY ContinuedType DEF PathOf, BatchPath
<1>2. line.is = "delta" /\ line.p = p /\ line.v = List(items)
  BY DEF Delta
<1>3. List(items).is = "list" /\ List(items).items = items
  BY DEF List
<1>4. Feed(line, heard) = DeltaEvents(path, List(items))
  BY <1>2 DEF Feed
<1>5. path \notin {"response/status", "search"}
  BY <1>1 DEF TextPath, BatchPath
<1>6. DeltaEvents(path, List(items)) = BatchEvents(items, path)
  BY <1>3, <1>5 DEF DeltaEvents
<1> QED BY <1>1, <1>2, <1>4, <1>6

LEMMA SaidOne ==
  ASSUME meant \in Seq(Piece), heard = Continued, NEW a \in Piece, NEW line \in Encodings(<<a>>)
  PROVE  Feed(line, heard) = <<a>> /\ line.is = "delta"
<1>0. Len(<<a>>) = 1 /\ <<a>>[1] = a
  OBVIOUS
<1>1. CASE line \in Batches(<<a>>)
  <2>1. PICK p \in BatchPath :
          \E row \in Rows(<<a>>, PathOf(p, Continued)) : line = Delta(p, List(row))
    BY <1>1, WrittenBatch
  <2> DEFINE path == PathOf(p, Continued)
  <2>2. PICK row \in Rows(<<a>>, path) : line = Delta(p, List(row))
    BY <2>1
  <2>3. /\ line.is = "delta" /\ path \in BatchPath
        /\ Feed(line, heard) = BatchEvents(row, path)
    BY <2>2, BatchHeard
  <2> HIDE DEF path
  <2>4. PICK x \in Items(a, path) : row = <<x>>
    BY <1>0, <2>2 DEF Rows
  <2>5. ItemEvents(x, path) = <<a>> /\ ~EndsBatch(x, path)
    BY <2>3, PieceItem DEF BatchPath
  <2>6. IsSequence(<<a>>)
    <3>1. <<a>> \in Seq({a})
      OBVIOUS
    <3> QED BY <3>1 DEF IsSequence
  <2>7. BatchEvents(<<x>>, path) = <<a>>
    BY <2>5, <2>6, BatchOne
  <2> QED BY <2>3, <2>4, <2>7
<1>2. CASE line \notin Batches(<<a>>)
  <2> DEFINE word == Text(a.text)
             kind == a.kind
             From == {kind} \cup IF Continued = kind THEN {""} ELSE {}
  <2>1. line \in {Delta(p, word) : p \in From}
    BY <1>0, <1>2 DEF Encodings
  <2>2. /\ word.is = "text" /\ word.no = a.text /\ kind \in {"thinking", "content"}
        /\ TextEvent(kind, word.no) = a
    BY PieceText DEF Text, Piece, TextPath
  <2> HIDE DEF word, kind
  <2>3. PICK p \in From : line = Delta(p, word)
    BY <2>1
  <2>4. line.is = "delta" /\ line.p = p /\ line.v = word
    BY <2>3 DEF Delta
  <2>5. PathOf(p, heard) = kind
    BY <2>2, <2>3 DEF PathOf
  <2>6. Feed(line, heard) = DeltaEvents(kind, word)
    BY <2>4, <2>5 DEF Feed
  <2>7. DeltaEvents(kind, word) = Texts(kind, <<word>>)
    BY <2>2 DEF DeltaEvents, ValueEvents, Counted
  <2>8. Texts(kind, <<word>>) = <<a>>
    BY <2>2, StringsOne DEF Texts, TextPath
  <2> QED BY <2>4, <2>6, <2>7, <2>8
<1> QED BY <1>1, <1>2

LEMMA SaidTwo ==
  ASSUME meant \in Seq(Piece), heard = Continued, NEW a \in Piece, NEW b \in Piece,
         NEW line \in Encodings(<<a, b>>)
  PROVE  Feed(line, heard) = <<a, b>> /\ line.is = "delta"
<1>0. Len(<<a, b>>) = 2 /\ <<a, b>>[1] = a /\ <<a, b>>[2] = b
  OBVIOUS
<1>1. line \in Batches(<<a, b>>)
  BY <1>0 DEF Encodings
<1>2. PICK p \in BatchPath :
        \E row \in Rows(<<a, b>>, PathOf(p, Continued)) : line = Delta(p, List(row))
  BY <1>1, WrittenBatch
<1> DEFINE path == PathOf(p, Continued)
<1>3. PICK row \in Rows(<<a, b>>, path) : line = Delta(p, List(row))
  BY <1>2
<1>4. /\ line.is = "delta" /\ path \in BatchPath
      /\ Feed(line, heard) = BatchEvents(row, path)
  BY <1>3, BatchHeard
<1> HIDE DEF path
<1>5. row \in {<<x, y>> : x \in Items(a, path), y \in Items(b, path)}
  BY <1>0, <1>3 DEF Rows
<1>6. PICK x \in Items(a, path), y \in Items(b, path) : row = <<x, y>>
  BY <1>5
<1>7. /\ ItemEvents(x, path) = <<a>> /\ ~EndsBatch(x, path)
      /\ ItemEvents(y, path) = <<b>> /\ ~EndsBatch(y, path)
  BY <1>4, PieceItem DEF BatchPath
<1>8. ItemEvents(x, path) \in Seq(Piece) /\ ItemEvents(y, path) \in Seq(Piece)
  BY <1>7
<1>9. BatchEvents(<<x, y>>, path) = <<a>> \o <<b>>
  BY <1>7, <1>8, BatchTwo
<1> QED BY <1>4, <1>6, <1>9, PairIsConcat

LEMMA ValueKinds ==
  /\ \A n : Text(n).is = "text" /\ Text(n).no = n
  /\ Number.is = "number" /\ Number # FINISHED /\ FINISHED.is = "text"
  /\ \A items : List(items).is = "list" /\ List(items).items = items
  /\ \A p, v : Pair(p, v).is = "pair" /\ Pair(p, v).p = p /\ Pair(p, v).v = v
  /\ \A p, v : Delta(p, v).is = "delta" /\ Delta(p, v).p = p /\ Delta(p, v).v = v
  /\ Text(1) # FINISHED
BY DEF Text, Number, FINISHED, List, Pair, Delta

LEMMA UsageItem ==
  ASSUME NEW path
  PROVE  ItemEvents(Pair("usage", Number), path) = <<Usage>> /\ ~EndsBatch(Pair("usage", Number), path)
<1> DEFINE item == Pair("usage", Number)
<1>1. item.is = "pair" /\ item.p = "usage" /\ item.v = Number
  BY ValueKinds
<1>2. Number.is = "number" /\ Number # FINISHED
  BY ValueKinds
<1>3. PathOf("usage", path) = "usage"
  BY DEF PathOf
<1> HIDE DEF item
<1>4. ItemEvents(item, path) = ValueEvents("usage", Number)
  BY <1>1, <1>3 DEF ItemEvents
<1>5. ValueEvents("usage", Number) = <<Usage>>
  BY <1>2 DEF ValueEvents, Counted
<1>6. ~EndsBatch(item, path)
  BY <1>1, <1>2 DEF EndsBatch
<1> QED BY <1>4, <1>5, <1>6 DEF item

\* A value on a line with a path of its own.
LEMMA DeltaHeard ==
  ASSUME NEW p, p # "", NEW v, NEW line, line = Delta(p, v)
  PROVE  Feed(line, heard) = DeltaEvents(p, v) /\ line.is = "delta"
<1>1. line.is = "delta" /\ line.p = p /\ line.v = v
  BY DEF Delta
<1>2. PathOf(p, heard) = p
  BY DEF PathOf
<1> QED BY <1>1, <1>2 DEF Feed

\* A value that is no list, where nothing is counted: its string, if it is one.
LEMMA ValueHeard ==
  ASSUME NEW p, NEW v, p \notin {"search", "usage"}, v.is # "list",
         p # "response/status" \/ v # FINISHED
  PROVE  DeltaEvents(p, v) = Texts(p, <<v>>)
<1>1. DeltaEvents(p, v) = ValueEvents(p, v)
  BY DEF DeltaEvents
<1> QED BY <1>1 DEF ValueEvents, Counted

LEMMA NoiseHeard ==
  ASSUME NEW line \in Noise
  PROVE  Feed(line, heard) = <<>> \/ Feed(line, heard) = <<Usage>>
<1>1. CASE line = [is |-> "skip"]
  BY <1>1 DEF Feed
<1>2. CASE line = Delta("search", FINISHED)
  <2>1. Feed(line, heard) = DeltaEvents("search", FINISHED)
    BY <1>2, DeltaHeard
  <2> QED BY <2>1 DEF DeltaEvents
<1>3. CASE line = Delta("usage", Number)
  <2>1. Feed(line, heard) = DeltaEvents("usage", Number)
    BY <1>3, DeltaHeard
  <2>2. DeltaEvents("usage", Number) = ValueEvents("usage", Number)
    BY ValueKinds DEF DeltaEvents
  <2> QED BY <2>1, <2>2, ValueKinds DEF ValueEvents, Counted
<1>4. CASE line = Delta("response", List(<<Pair("search", Text(1)), Pair("usage", Number)>>))
  <2> DEFINE a == Pair("search", Text(1))
             b == Pair("usage", Number)
  <2>1. Feed(line, heard) = BatchEvents(<<a, b>>, "response")
    <3> HIDE DEF a, b
    <3>1. line.is = "delta" /\ line.p = "response" /\ line.v = List(<<a, b>>)
      BY <1>4, ValueKinds DEF a, b
    <3>2. Feed(line, heard) = DeltaEvents("response", List(<<a, b>>))
      BY <3>1 DEF Feed, PathOf
    <3> QED BY <3>2, ValueKinds DEF DeltaEvents
  <2>2. ItemEvents(a, "response") = <<>> /\ ~EndsBatch(a, "response")
    <3>1. Texts("search", <<Text(1)>>) = <<>>
      BY DEF Texts, TextPath
    <3>2. PathOf("search", "response") = "search"
      BY DEF PathOf
    <3>3. ItemEvents(a, "response") = ValueEvents("search", Text(1))
      BY <3>2, ValueKinds DEF ItemEvents
    <3>4. ValueEvents("search", Text(1)) = Texts("search", <<Text(1)>>)
      BY ValueKinds DEF ValueEvents, Counted
    <3> QED BY <3>1, <3>2, <3>3, <3>4, ValueKinds DEF EndsBatch
  <2>3. ItemEvents(b, "response") = <<Usage>> /\ ~EndsBatch(b, "response")
    BY UsageItem
  <2> HIDE DEF a, b
  <2>4. <<>> \in Seq({Usage}) /\ <<Usage>> \in Seq({Usage})
    OBVIOUS
  <2>5. BatchEvents(<<a, b>>, "response") = <<>> \o <<Usage>>
    BY <2>2, <2>3, <2>4, BatchTwo
  <2>6. <<>> \o <<Usage>> = <<Usage>>
    BY <2>4, ConcatEmptySeq
  <2> QED BY <2>1, <2>5, <2>6
<1>5. CASE line = Delta("content", [is |-> "empty"])
  <2> DEFINE nothing == [is |-> "empty"]
  <2>1. nothing.is = "empty"
    OBVIOUS
  <2>2. line = Delta("content", nothing)
    BY <1>5
  <2> HIDE DEF nothing
  <2>3. Feed(line, heard) = DeltaEvents("content", nothing)
    BY <2>2, DeltaHeard
  <2>4. DeltaEvents("content", nothing) = Texts("content", <<nothing>>)
    BY <2>1, ValueHeard
  <2>5. Strings("content", <<nothing>>) = <<>>
    BY <2>1, StringsOne
  <2> QED BY <2>3, <2>4, <2>5 DEF Texts
<1>6. CASE line = Delta("response/status", Text(1))
  <2> DEFINE word == Text(1)
  <2>1. word.is = "text" /\ word # FINISHED
    BY ValueKinds
  <2>2. line = Delta("response/status", word)
    BY <1>6
  <2> HIDE DEF word
  <2>3. Feed(line, heard) = DeltaEvents("response/status", word)
    BY <2>2, DeltaHeard
  <2>4. DeltaEvents("response/status", word) = Texts("response/status", <<word>>)
    BY <2>1, ValueHeard
  <2> QED BY <2>3, <2>4 DEF Texts, TextPath
<1> QED BY <1>1, <1>2, <1>3, <1>4, <1>5, <1>6 DEF Noise

LEMMA EndHeard ==
  ASSUME NEW line \in Ends
  PROVE  Feed(line, heard) = <<Finished>> \/ Feed(line, heard) = <<Usage, Finished>>
<1>1. CASE line = [is |-> "done"]
  BY <1>1 DEF Feed
<1>2. CASE line = Delta("response/status", FINISHED)
  <2>1. Feed(line, heard) = DeltaEvents("response/status", FINISHED)
    BY <1>2, DeltaHeard
  <2>2. FINISHED.is = "text"
    BY ValueKinds
  <2>3. DeltaEvents("response/status", FINISHED) = <<Finished>>
    BY <2>2 DEF DeltaEvents
  <2> QED BY <2>1, <2>3
<1>3. CASE line = Delta("response", List(<<Pair("usage", Number), Pair("status", FINISHED),
                                           Pair("content", Text(9))>>))
  <2> DEFINE a == Pair("usage", Number)
             b == Pair("status", FINISHED)
             c == Pair("content", Text(9))
             items == <<a, b, c>>
  <2>1. ItemEvents(a, "response") = <<Usage>> /\ ~EndsBatch(a, "response")
    BY UsageItem
  <2>2. EndsBatch(b, "response") /\ ~EndsBatch(c, "response")
    <3>1. /\ b.is = "pair" /\ b.p = "status" /\ b.v = FINISHED
          /\ c.is = "pair" /\ c.p = "content"
      BY ValueKinds
    <3>2. PathOf("status", "response") = "status" /\ PathOf("content", "response") = "content"
      BY DEF PathOf
    <3> HIDE DEF b, c
    <3> QED BY <3>1, <3>2 DEF EndsBatch
  <2>3. line.is = "delta" /\ line.p = "response" /\ line.v = List(items)
    BY <1>3, ValueKinds
  <2> HIDE DEF a, b, c
  <2>4. SelectInSeq(items, LAMBDA item : EndsBatch(item, "response")) = 2
    <3>1. {i \in 1..3 : EndsBatch(items[i], "response")} = {2}
      BY <2>1, <2>2
    <3>2. Min({2}) = 2
      BY DEF Min
    <3> QED BY <3>1, <3>2 DEF SelectInSeq
  <2>5. SubSeq(items, 1, 2 - 1) = <<a>>
    <3> DEFINE read == SubSeq(items, 1, 1)
    <3>1. items \in Seq({a, b, c}) /\ Len(items) = 3 /\ items[1] = a
      OBVIOUS
    <3> HIDE DEF items
    <3>2. read \in Seq({a, b, c}) /\ Len(read) = 1 /\ read[1] = a
      BY <3>1, SubSeqProperties
    <3>3. <<a>> \in Seq({a, b, c}) /\ Len(<<a>>) = 1 /\ <<a>>[1] = a
      OBVIOUS
    <3> HIDE DEF read
    <3>4. \A i \in 1..Len(read) : read[i] = <<a>>[i]
      BY <3>2, <3>3
    <3>5. read = <<a>>
      BY <3>2, <3>3, <3>4, SeqEqual
    <3>6. 2 - 1 = 1
      OBVIOUS
    <3> QED BY <3>5, <3>6 DEF read
  <2>6. [i \in DOMAIN <<a>> |-> ItemEvents(<<a>>[i], "response")] = <<<<Usage>>>>
    BY <2>1
  <2>7. FlattenSeq(<<<<Usage>>>>) = <<Usage>>
    <3>1. <<Usage>> \in Seq({Usage})
      OBVIOUS
    <3> QED BY <3>1, FlattenOne
  <2>8. BatchEvents(items, "response") = <<Usage>> \o <<Finished>>
    <3> HIDE DEF items
    <3> DEFINE end == SelectInSeq(items, LAMBDA item : EndsBatch(item, "response"))
               read == IF end = 0 THEN items ELSE SubSeq(items, 1, end - 1)
               said == FlattenSeq([i \in DOMAIN read |-> ItemEvents(read[i], "response")])
               rest == IF end = 0 THEN <<>> ELSE <<Finished>>
    <3>1. BatchEvents(items, "response") = said \o rest
      BY DEF BatchEvents
    <3>2. end = 2
      BY <2>4 DEF SelectInSeq
    <3> HIDE DEF end
    <3>3. read = <<a>> /\ rest = <<Finished>>
      BY <2>5, <3>2
    <3> HIDE DEF read, rest
    <3>4. said = <<Usage>>
      BY <2>6, <2>7, <3>3
    <3> HIDE DEF said
    <3> QED BY <3>1, <3>3, <3>4
  <2> HIDE DEF items
  <2>9. Feed(line, heard) = DeltaEvents("response", List(items))
    BY <2>3 DEF Feed, PathOf
  <2>10. DeltaEvents("response", List(items)) = BatchEvents(items, "response")
    BY ValueKinds DEF DeltaEvents
  <2> QED BY <2>8, <2>9, <2>10, PairIsConcat
<1> QED BY <1>1, <1>2, <1>3 DEF Ends

\* The path that is remembered.
LEMMA RememberedText ==
  ASSUME NEW line, line.is = "delta", NEW es, NEW n \in Nat, DOMAIN es = 1..n, n # 0,
         \A i \in 1..n : es[i].kind \in TextPath
  PROVE  Remembered(heard, line, es) = es[n].kind
<1>1. Finished \notin ToSet(es)
  BY DEF ToSet, Finished, TextPath
<1>2. {i \in DOMAIN es : es[i].kind \in TextPath} = 1..n
  OBVIOUS
<1>3. Max(1..n) = n
  BY DEF Max
<1>4. 1..n # {}
  OBVIOUS
<1> QED BY <1>1, <1>2, <1>3, <1>4 DEF Remembered

LEMMA RememberedQuiet ==
  ASSUME NEW line, NEW es, \A i \in DOMAIN es : es[i].kind \notin TextPath \cup {"finished"}
  PROVE  Remembered(heard, line, es) = heard
<1>1. Finished \notin ToSet(es)
  BY DEF ToSet, Finished
<1>2. {i \in DOMAIN es : es[i].kind \in TextPath} = {}
  OBVIOUS
<1> QED BY <1>1, <1>2 DEF Remembered

-----------------------------------------------------------------------------
(* What an envelope shows                                                  *)

\* An error answers an envelope if it does what BanAnswered wants of it.
Answers(event, e) ==
  /\ event.kind = "error"
  /\ Expiry(e) => event.until /\ (event.code # "40003" => Status(event, FALSE) = 403)
  /\ Status(event, CheckBan(e)) = 403 => IsBan(e) \/ BodyNamed(e)

\* Only an error that is named, or of a token, is answered 403.
LEMMA Forbids ==
  ASSUME NEW event, NEW probe, probe \in BOOLEAN
  PROVE  /\ event.code # "40003" /\ event.named => Status(event, probe) = 403
         /\ Status(event, probe) = 403 =>
              \/ event.code = "40003" /\ probe
              \/ event.named \/ event.code = "HTTP_401"
BY DEF Status

LEMMA BizCodes ==
  ASSUME NEW e \in Envelopes
  PROVE  BizCode(e) \in {"", "0", "5", "7", "40003"} /\ Biz(e) \in {"", "0", "5", "7", "40003"}
<1>1. e.code \in {"", "0", "5", "7", "40003"}
  BY DEF Envelopes
<1>2. e.biz \in {"absent", "", "0", "5", "7", "40003"}
  BY DEF Envelopes
<1> QED BY <1>1, <1>2 DEF BizCode, Biz

\* A text that names a ban is one of a ban, or says so in the body.
LEMMA BanEventAnswers ==
  ASSUME NEW e \in Envelopes
  PROVE  /\ BanStreamEvent(e) # NoEvent => Answers(BanStreamEvent(e), e)
         /\ BanStreamEvent(e) = NoEvent => ~IsBan(e)
<1>1. Expiry(e) => IsBan(e)
  BY DEF IsBan
<1>2. CheckBan(e) \in BOOLEAN /\ (CheckBan(e) => IsBan(e))
  BY DEF CheckBan
<1>3. BizNamed(e) => IsBan(e)
  BY <1>1 DEF BizNamed, BizText, IsBan
<1>4. Expiry(e) => BizNamed(e)
  BY DEF BizNamed
<1>5. CASE BizCode(e) \notin Fine
  <2> DEFINE named == BizNamed(e)
             until == Expiry(e)
             event == ErrorEvent(BizCode(e), named, until)
  <2>1. BanStreamEvent(e) = event
    BY <1>5 DEF BanStreamEvent
  <2> HIDE DEF named, until
  <2>2. event.kind = "error" /\ event.code = BizCode(e) /\ event.named = named
        /\ event.until = until /\ event # NoEvent
    BY DEF ErrorEvent, NoEvent
  <2> HIDE DEF event
  <2>3. event.code # "HTTP_401"
    BY <2>2, BizCodes
  <2>4. Expiry(e) => event.until /\ event.named
    BY <1>4, <2>2 DEF named, until
  <2>5. event.named => IsBan(e)
    BY <1>3, <2>2 DEF named
  <2>6. event.code # "40003" /\ event.named => Status(event, FALSE) = 403
    BY Forbids
  <2>7. Status(event, CheckBan(e)) = 403 => IsBan(e)
    BY <1>2, <2>3, <2>5, Forbids
  <2> QED BY <2>1, <2>2, <2>4, <2>6, <2>7 DEF Answers
<1>6. CASE BizCode(e) \in Fine /\ IsBan(e)
  <2> DEFINE until == Expiry(e)
             event == ErrorEvent("5", TRUE, until)
  <2>1. BanStreamEvent(e) = event
    BY <1>6 DEF BanStreamEvent
  <2> HIDE DEF until
  <2>2. event.kind = "error" /\ event.code = "5" /\ event.named
        /\ event.until = until /\ event # NoEvent
    BY DEF ErrorEvent, NoEvent
  <2> HIDE DEF event
  <2>3. Status(event, FALSE) = 403
    BY <2>2, Forbids
  <2>4. Expiry(e) => event.until
    BY <2>2 DEF until
  <2> QED BY <1>6, <2>1, <2>2, <2>3, <2>4 DEF Answers
<1>7. CASE BizCode(e) \in Fine /\ ~IsBan(e)
  BY <1>7 DEF BanStreamEvent
<1> QED BY <1>5, <1>6, <1>7

LEMMA FeedAnswers ==
  ASSUME NEW e \in Envelopes
  PROVE  /\ FeedEnvelope(e) # NoEvent => Answers(FeedEnvelope(e), e)
         /\ FeedEnvelope(e) = NoEvent => ~IsBan(e)
<1> DEFINE code == IF e.code \notin Fine THEN e.code ELSE Biz(e)
           text == IF e.msg # "" \/ ~e.inner THEN e.msg ELSE e.bizMsg
           shown == IF code \in Fine THEN "5" ELSE code
           named == text \in {"", "ban"} \/ Expiry(e)
<1>1. Expiry(e) => IsBan(e)
  BY DEF IsBan
<1>2. CheckBan(e) \in BOOLEAN /\ (CheckBan(e) => IsBan(e))
  BY DEF CheckBan
<1>3. code \in {"", "0", "5", "7", "40003"} /\ shown \in {"5", "", "0", "7", "40003"}
  BY BizCodes DEF Envelopes
<1>4. CASE IsBan(e)
  <2> DEFINE until == Expiry(e)
             event == ErrorEvent(shown, named, until)
  <2>1. FeedEnvelope(e) = event
    BY <1>4 DEF FeedEnvelope
  <2> HIDE DEF shown, named, until
  <2>2. event.kind = "error" /\ event.code = shown /\ event.named = named
        /\ event.until = until /\ event # NoEvent
    BY DEF ErrorEvent, NoEvent
  <2> HIDE DEF event
  <2>3. Expiry(e) => event.until /\ event.named
    BY <2>2 DEF named, until
  <2>4. event.code # "40003" /\ event.named => Status(event, FALSE) = 403
    BY Forbids
  <2> QED BY <1>4, <2>1, <2>2, <2>3, <2>4 DEF Answers
<1>5. CASE ~IsBan(e) /\ code \notin Fine
  <2> DEFINE event == ErrorEvent(code, FALSE, FALSE)
  <2>1. FeedEnvelope(e) = event
    BY <1>5 DEF FeedEnvelope
  <2> HIDE DEF code
  <2>2. event.kind = "error" /\ event.code = code /\ event.named = FALSE /\ event # NoEvent
    BY DEF ErrorEvent, NoEvent
  <2> HIDE DEF event
  <2>3. event.code # "HTTP_401"
    BY <1>3, <2>2
  <2>4. Status(event, CheckBan(e)) # 403
    BY <1>2, <1>5, <2>2, <2>3, Forbids
  <2> QED BY <1>1, <1>5, <2>1, <2>2, <2>4 DEF Answers
<1>6. CASE ~IsBan(e) /\ code \in Fine
  BY <1>6 DEF FeedEnvelope
<1> QED BY <1>4, <1>5, <1>6

\* The raw text of a body that shows no ban, of a stream of another form.
LEMMA DrainedAnswers ==
  ASSUME NEW e \in Envelopes, ~IsBan(e)
  PROVE  Answers(ErrorEvent("UPSTREAM_ERROR", BodyNamed(e), FALSE), e)
<1> DEFINE named == BodyNamed(e)
           event == ErrorEvent("UPSTREAM_ERROR", named, FALSE)
<1> HIDE DEF named
<1>1. event.kind = "error" /\ event.code = "UPSTREAM_ERROR" /\ event.named = named
  BY DEF ErrorEvent, NoEvent
<1> HIDE DEF event
<1>2. ~Expiry(e) /\ ~CheckBan(e) /\ CheckBan(e) \in BOOLEAN
  BY DEF IsBan, CheckBan
<1>3. Status(event, CheckBan(e)) = 403 => BodyNamed(e)
  BY <1>1, <1>2, Forbids DEF named
<1> QED BY <1>1, <1>2, <1>3 DEF Answers, event, named

-----------------------------------------------------------------------------
(* The invariant                                                           *)

(* The parser's path is that of the last text while the answer is read;    *)
(* nothing has been yielded before it opens, and it is over once it has    *)
(* ended in whatever way.                                                  *)
Reassembling ==
  /\ IsSequence(events) /\ meant \in Seq(Piece)
  /\ channel = "none" => events = <<>> /\ meant = <<>> /\ ~over /\ ~ended /\ heard = ""
  /\ channel \notin {"none", "lines"} => over
  /\ Reading => ~ended /\ ~Terminal(events) /\ heard = Continued
  /\ EndsLast(events) /\ (Terminal(events) => over)
  /\ ended => events # <<>> /\ Last(events) = Finished
  /\ TextsIn(events) = meant

LEMMA EmptyEvents ==
  IsSequence(<<>>) /\ EndsLast(<<>>) /\ ~Terminal(<<>>) /\ TextsIn(<<>>) = <<>>
<1>1. <<>> \in Seq({}) /\ DOMAIN <<>> = {}
  OBVIOUS
<1> QED BY <1>1, TextsOne DEF IsSequence, EndsLast, Terminal

LEMMA OneEvent ==
  ASSUME NEW e
  PROVE  /\ IsSequence(<<e>>) /\ EndsLast(<<e>>) /\ Last(<<e>>) = e /\ <<e>> # <<>>
         /\ Terminal(<<e>>) <=> e.kind \in {"finished", "error"}
         /\ ~IsText(e) => TextsIn(<<e>>) = <<>>
<1>1. /\ <<e>> \in Seq({e}) /\ DOMAIN <<e>> = {1} /\ Len(<<e>>) = 1 /\ <<e>>[1] = e
      /\ <<e>> # <<>>
  OBVIOUS
<1> QED BY <1>1, TextsOne DEF IsSequence, EndsLast, Terminal, Last

LEMMA TwoEvents ==
  ASSUME NEW d, NEW e, d.kind \notin {"finished", "error"}
  PROVE  /\ IsSequence(<<d, e>>) /\ EndsLast(<<d, e>>) /\ Last(<<d, e>>) = e /\ <<d, e>> # <<>>
         /\ Terminal(<<d, e>>) <=> e.kind \in {"finished", "error"}
<1>1. /\ <<d, e>> \in Seq({d, e}) /\ DOMAIN <<d, e>> = {1, 2} /\ Len(<<d, e>>) = 2
      /\ <<d, e>>[1] = d /\ <<d, e>>[2] = e /\ <<d, e>> # <<>>
  OBVIOUS
<1> QED BY <1>1 DEF IsSequence, EndsLast, Terminal, Last

\* Events without a text leave the texts as they are.
LEMMA YieldedQuiet ==
  ASSUME Reassembling, Reading, NEW es, IsSequence(es), EndsLast(es),
         TextsIn(es) = <<>>, Yield(es)
  PROVE  /\ IsSequence(events') /\ TextsIn(events') = meant
         /\ EndsLast(events') /\ (over' <=> Terminal(es)) /\ (over' <=> Terminal(events'))
         /\ es # <<>> => events' # <<>> /\ Last(events') = Last(es)
<1>1. /\ IsSequence(events') /\ TextsIn(events') = TextsIn(events) \o <<>>
      /\ EndsLast(events') /\ (over' <=> Terminal(es)) /\ (over' <=> Terminal(events'))
      /\ es # <<>> => events' # <<>> /\ Last(events') = Last(es)
  BY Yielded DEF Reassembling
<1>2. TextsIn(events) = meant /\ meant \o <<>> = meant
  BY ConcatEmptySeq DEF Reassembling
<1> QED BY <1>1, <1>2

LEMMA YieldedNone ==
  ASSUME Reassembling, Reading, Yield(<<>>)
  PROVE  events' = events /\ ~over'
<1>1. over' <=> Terminal(<<>>)
  BY YieldedQuiet, EmptyEvents
<1>2. PICK S : events \in Seq(S)
  BY DEF Reassembling, IsSequence
<1>3. events' = events
  BY <1>2, ConcatEmptySeq DEF Yield
<1> QED BY <1>1, <1>3, EmptyEvents

LEMMA YieldedOne ==
  ASSUME Reassembling, Reading, NEW e, ~IsText(e), Yield(<<e>>)
  PROVE  /\ IsSequence(events') /\ TextsIn(events') = meant /\ EndsLast(events')
         /\ (over' <=> e.kind \in {"finished", "error"}) /\ (over' <=> Terminal(events'))
         /\ events' # <<>> /\ Last(events') = e
BY YieldedQuiet, OneEvent

\* An answer that is over and has kept the texts.
LEMMA OverKeeps ==
  ASSUME Reassembling, over', channel' # "none", UNCHANGED meant,
         IsSequence(events'), EndsLast(events'), TextsIn(events') = meant,
         ended' => events' # <<>> /\ Last(events') = Finished
  PROVE  Reassembling'
BY DEF Reassembling, Reading

-----------------------------------------------------------------------------
(* Answers that are no event stream, and the ends of one                   *)

LEMMA JsonKeeps ==
  ASSUME Reassembling, NEW e \in Envelopes, NEW how \in {"parsed", "drained"}, JsonAnswer(e, how)
  PROVE  Reassembling' /\ BanAnswered'
<1> DEFINE event == BanStreamEvent(e)
           drained == ErrorEvent("UPSTREAM_ERROR", BodyNamed(e), FALSE)
<1>1. /\ channel' = how /\ envelope' = e /\ over' /\ UNCHANGED <<heard, meant, ended>>
      /\ meant = <<>> /\ ~ended
      /\ events' = IF event # NoEvent THEN <<event>>
                   ELSE IF how = "drained" THEN <<drained>> ELSE <<>>
  BY DEF JsonAnswer, Reassembling
<1>2. /\ event # NoEvent => Answers(event, e)
      /\ event = NoEvent => ~IsBan(e)
  BY BanEventAnswers
<1>3. event = NoEvent => Answers(drained, e) /\ ~Expiry(e)
  BY <1>2, DrainedAnswers DEF IsBan
<1> HIDE DEF event, drained
<1>4. CASE events' = <<>>
  <2>1. ~Expiry(e)
    BY <1>1, <1>3, <1>4
  <2>2. Reassembling'
    BY <1>1, <1>4, EmptyEvents, OverKeeps
  <2> QED BY <1>1, <1>4, <2>1, <2>2 DEF BanAnswered, Failed
<1>5. CASE events' # <<>>
  <2>1. PICK one : events' = <<one>> /\ Answers(one, e)
    BY <1>1, <1>2, <1>3, <1>5
  <2>2. ~IsText(one)
    BY <2>1 DEF Answers, IsText, TextPath
  <2>3. Reassembling'
    BY <1>1, <2>1, <2>2, OneEvent, OverKeeps
  <2>4. Last(events') = one /\ events' # <<>>
    BY <2>1, OneEvent
  <2> QED BY <1>1, <2>1, <2>3, <2>4 DEF BanAnswered, Failed, LastEvent, Answers
<1> QED BY <1>4, <1>5

LEMMA SingleErrorKeeps ==
  ASSUME Reassembling, channel = "none", channel' \in {"status", "setup"}, NEW e,
         e.kind = "error", events' = <<e>>, over', UNCHANGED <<heard, meant, ended>>
  PROVE  Reassembling' /\ BanAnswered'
<1>1. meant = <<>> /\ ~ended
  BY DEF Reassembling
<1>2. ~IsText(e)
  BY DEF IsText, TextPath
<1>3. Reassembling'
  BY <1>1, <1>2, OneEvent, OverKeeps
<1> QED BY <1>3 DEF BanAnswered

LEMMA StatusKeeps ==
  ASSUME Reassembling, NEW e, NEW code, StatusAnswer(e, code) \/ SetupAnswer(e)
  PROVE  Reassembling' /\ BanAnswered'
<1>1. CASE StatusAnswer(e, code)
  <2> DEFINE event == ErrorEvent(code, BodyNamed(e), FALSE)
  <2>1. event.kind = "error"
    BY DEF ErrorEvent
  <2>2. /\ channel = "none" /\ channel' \in {"status", "setup"} /\ events' = <<event>> /\ over'
        /\ UNCHANGED <<heard, meant, ended>>
    BY <1>1 DEF StatusAnswer
  <2> HIDE DEF event
  <2> QED BY <2>1, <2>2, SingleErrorKeeps
<1>2. CASE SetupAnswer(e)
  <2> DEFINE event == SetupError(e)
  <2>1. event.kind = "error"
    BY DEF SetupError, ErrorEvent
  <2>2. /\ channel = "none" /\ channel' \in {"status", "setup"} /\ events' = <<event>> /\ over'
        /\ UNCHANGED <<heard, meant, ended>>
    BY <1>2 DEF SetupAnswer
  <2> HIDE DEF event
  <2> QED BY <2>1, <2>2, SingleErrorKeeps
<1> QED BY <1>1, <1>2

LEMMA OpenKeeps ==
  ASSUME Reassembling, OpenStream
  PROVE  Reassembling' /\ BanAnswered'
<1>1. /\ channel = "none" /\ channel' = "lines"
      /\ UNCHANGED <<heard, events, over, meant, envelope, ended>>
      /\ events = <<>> /\ meant = <<>> /\ ~over /\ ~ended /\ heard = ""
      /\ TextsIn(events) = meant /\ IsSequence(events) /\ EndsLast(events) /\ meant \in Seq(Piece)
  BY DEF OpenStream, Reassembling
<1>2. Continued' = "" /\ ~Terminal(events')
  BY <1>1, EmptyEvents DEF Continued
<1> QED BY <1>1, <1>2 DEF Reassembling, BanAnswered

LEMMA CutKeeps ==
  ASSUME Reassembling, CutOff
  PROVE  Reassembling' /\ BanAnswered'
<1>1. channel = "lines" /\ over' /\ UNCHANGED <<channel, events, meant, ended>>
  BY DEF CutOff, Reading
<1>2. Reassembling'
  BY <1>1, OverKeeps DEF Reassembling
<1> QED BY <1>1, <1>2 DEF BanAnswered

-----------------------------------------------------------------------------
(* Lines of a stream                                                       *)

\* The pieces that Say writes.
LEMMA PiecesWritten ==
  ASSUME meant \in Seq(Piece), NEW kinds \in BoundedSeq(TextPath, 2) \ {<<>>}, NEW pieces,
         pieces = [i \in DOMAIN kinds |-> TextEvent(kinds[i], Len(meant) + i - 1)]
  PROVE  \/ \E a \in Piece : pieces = <<a>>
         \/ \E a, b \in Piece : pieces = <<a, b>>
<1>1. PICK m \in 0..2 : kinds \in [1..m -> TextPath]
  BY DEF BoundedSeq, SeqOf
<1>2. Len(meant) \in Nat
  BY LenProperties
<1>3. \A k \in TextPath, n \in Nat : TextEvent(k, n) \in Piece
  BY DEF TextEvent, Piece
<1>4. CASE m = 0
  <2>1. kinds = <<>>
    BY <1>1, <1>4
  <2> QED BY <2>1
<1>5. CASE m = 1
  <2>1. DOMAIN kinds = {1} /\ kinds[1] \in TextPath
    BY <1>1, <1>5
  <2>2. Len(meant) + 1 - 1 \in Nat
    BY <1>2
  <2> DEFINE a == TextEvent(kinds[1], Len(meant) + 1 - 1)
  <2>3. a \in Piece
    BY <1>3, <2>1, <2>2
  <2>4. pieces = [i \in {1} |-> a]
    BY <2>1
  <2> HIDE DEF a
  <2>5. pieces = <<a>>
    BY <2>4
  <2> QED BY <2>3, <2>5
<1>6. CASE m = 2
  <2>1. DOMAIN kinds = {1, 2} /\ kinds[1] \in TextPath /\ kinds[2] \in TextPath
    BY <1>1, <1>6
  <2>2. Len(meant) + 1 - 1 \in Nat /\ Len(meant) + 2 - 1 \in Nat
    BY <1>2
  <2> DEFINE a == TextEvent(kinds[1], Len(meant) + 1 - 1)
             b == TextEvent(kinds[2], Len(meant) + 2 - 1)
  <2>3. a \in Piece /\ b \in Piece
    BY <1>3, <2>1, <2>2
  <2>4. DOMAIN pieces = {1, 2} /\ pieces[1] = a /\ pieces[2] = b
    BY <2>1
  <2>5. pieces = [i \in {1, 2} |-> pieces[i]]
    BY <2>4
  <2> HIDE DEF a, b
  <2>6. pieces = <<a, b>>
    BY <2>4, <2>5
  <2> QED BY <2>3, <2>6
<1> QED BY <1>1, <1>4, <1>5, <1>6

\* Text that is heard as it was written.
LEMMA SaidKeeps ==
  ASSUME Reassembling, Reading, NEW line, line.is = "delta", NEW pieces, pieces # <<>>,
         pieces \in Seq(Piece), TextsIn(pieces) = pieces,
         Feed(line, heard) = pieces, Hear(line), meant' = meant \o pieces,
         UNCHANGED <<channel, ended>>
  PROVE  Reassembling'
<1> DEFINE n == Len(pieces)
<1>0. n \in Nat /\ n # 0 /\ Len(pieces) = n
  BY LenProperties, EmptySeq
<1> HIDE DEF n
<1>1. /\ IsSequence(events) /\ meant \in Seq(Piece) /\ ~Terminal(events) /\ ~ended
      /\ TextsIn(events) = meant /\ heard = Continued /\ channel = "lines"
  BY DEF Reassembling, Reading
<1>2. DOMAIN pieces = 1..n /\ \A i \in 1..n : pieces[i].kind \in TextPath
  <2>1. DOMAIN pieces = 1..n /\ \A i \in 1..n : pieces[i] \in Piece
    BY <1>0, LenProperties, ElementOfSeq
  <2> QED BY <2>1 DEF Piece
<1>3. Yield(pieces) /\ heard' = Remembered(heard, line, pieces)
  BY DEF Hear
<1>4. IsSequence(pieces) /\ EndsLast(pieces) /\ ~Terminal(pieces)
  BY <1>0, <1>2 DEF IsSequence, EndsLast, Terminal, TextPath
<1>5. /\ IsSequence(events') /\ EndsLast(events') /\ ~over'
      /\ TextsIn(events') = meant'
  BY <1>1, <1>3, <1>4, Yielded
<1>6. ~Terminal(events')
  BY <1>1, <1>3, <1>4, Yielded
<1>7. heard' = pieces[n].kind
  BY <1>0, <1>2, <1>3, RememberedText
<1>8. meant' \in Seq(Piece) /\ meant' # <<>> /\ Last(meant') = pieces[n]
  <2>1. /\ meant' \in Seq(Piece) /\ Len(meant') = Len(meant) + n
        /\ Len(meant) \in Nat
    BY <1>0, <1>1, ConcatProperties, LenProperties
  <2>2. meant'[Len(meant) + n] = pieces[n]
    <3>1. /\ Len(meant) + n \in 1..(Len(meant) + Len(pieces)) /\ ~(Len(meant) + n <= Len(meant))
          /\ (Len(meant) + n) - Len(meant) = n
      BY <1>0, <2>1
    <3> QED BY <1>0, <1>1, <3>1, ConcatProperties
  <2>3. meant' # <<>>
    BY <1>0, <2>1, EmptySeq
  <2> QED BY <2>1, <2>2, <2>3 DEF Last
<1>9. heard' = Continued'
  BY <1>7, <1>8 DEF Continued
<1> QED BY <1>1, <1>5, <1>6, <1>8, <1>9 DEF Reassembling

LEMMA SayKeeps ==
  ASSUME Reassembling, NEW kinds \in BoundedSeq(TextPath, 2) \ {<<>>}, Say(kinds)
  PROVE  Reassembling' /\ BanAnswered'
<1> DEFINE pieces == [i \in DOMAIN kinds |-> TextEvent(kinds[i], Len(meant) + i - 1)]
<1>1. PICK line \in Encodings(pieces) : Hear(line)
  BY DEF Say
<1>2. Reading /\ meant' = meant \o pieces /\ UNCHANGED <<channel, envelope, ended>>
  BY DEF Say
<1>3. meant \in Seq(Piece) /\ heard = Continued /\ channel = "lines"
  BY <1>2 DEF Reassembling, Reading
<1>4. \/ \E a \in Piece : pieces = <<a>>
      \/ \E a, b \in Piece : pieces = <<a, b>>
  BY <1>3, PiecesWritten
<1> HIDE DEF pieces
<1>5. CASE \E a \in Piece : pieces = <<a>>
  <2>1. PICK a \in Piece : pieces = <<a>>
    BY <1>5
  <2>2. Feed(line, heard) = <<a>> /\ line.is = "delta"
    BY <1>1, <1>3, <2>1, SaidOne
  <2>3. IsText(a) /\ TextsIn(<<a>>) = <<a>>
    BY TextsOne DEF IsText, Piece
  <2>4. <<a>> \in Seq(Piece) /\ <<a>> # <<>>
    OBVIOUS
  <2>5. Reassembling'
    BY <1>1, <1>2, <2>1, <2>2, <2>3, <2>4, SaidKeeps
  <2> QED BY <1>2, <1>3, <2>5 DEF BanAnswered
<1>6. CASE \E a, b \in Piece : pieces = <<a, b>>
  <2>1. PICK a \in Piece, b \in Piece : pieces = <<a, b>>
    BY <1>6
  <2>2. Feed(line, heard) = <<a, b>> /\ line.is = "delta"
    BY <1>1, <1>3, <2>1, SaidTwo
  <2>3. TextsIn(<<a, b>>) = <<a, b>>
    BY TextsTwo, PairIsConcat DEF IsText, Piece
  <2>4. <<a, b>> \in Seq(Piece) /\ <<a, b>> # <<>>
    OBVIOUS
  <2>5. Reassembling'
    BY <1>1, <1>2, <2>1, <2>2, <2>3, <2>4, SaidKeeps
  <2> QED BY <1>2, <1>3, <2>5 DEF BanAnswered
<1> QED BY <1>4, <1>5, <1>6

\* Lines without a text that end nothing leave the path as it is.
LEMMA SilentKeeps ==
  ASSUME Reassembling, Reading, UNCHANGED <<channel, meant, ended, heard>>,
         IsSequence(events'), EndsLast(events'), TextsIn(events') = meant,
         ~over', ~Terminal(events')
  PROVE  Reassembling' /\ BanAnswered'
<1>1. /\ channel = "lines" /\ ~ended /\ heard = Continued /\ meant \in Seq(Piece)
  BY DEF Reassembling, Reading
<1>2. Continued' = Continued
  BY DEF Continued
<1>3. Reassembling'
  BY <1>1, <1>2 DEF Reassembling
<1> QED BY <1>3 DEF BanAnswered

LEMMA NoiseKeeps ==
  ASSUME Reassembling, NEW line \in Noise, MakeNoise(line)
  PROVE  Reassembling' /\ BanAnswered'
<1> DEFINE es == Feed(line, heard)
<1>1. /\ Reading /\ Yield(es) /\ heard' = Remembered(heard, line, es)
      /\ UNCHANGED <<channel, meant, envelope, ended>>
  BY DEF MakeNoise, Hear
<1>2. es = <<>> \/ es = <<Usage>>
  BY NoiseHeard
<1> HIDE DEF es
<1>3. Usage.kind = "usage" /\ ~IsText(Usage)
  BY DEF Usage, IsText, TextPath
<1>4. \A i \in DOMAIN es : es[i].kind \notin TextPath \cup {"finished"}
  BY <1>2, <1>3 DEF TextPath
<1>5. heard' = heard
  BY <1>1, <1>4, RememberedQuiet
<1>7. CASE es = <<>>
  <2>1. events' = events /\ ~over'
    BY <1>1, <1>7, YieldedNone
  <2>2. /\ IsSequence(events') /\ EndsLast(events') /\ TextsIn(events') = meant
        /\ ~Terminal(events')
    BY <1>1, <2>1 DEF Reassembling
  <2> QED BY <1>1, <1>5, <2>1, <2>2, SilentKeeps
<1>8. CASE es = <<Usage>>
  <2>1. /\ IsSequence(events') /\ TextsIn(events') = meant /\ EndsLast(events') /\ ~over'
        /\ ~Terminal(events')
    BY <1>1, <1>3, <1>8, YieldedOne
  <2> QED BY <1>1, <1>5, <2>1, SilentKeeps
<1> QED BY <1>2, <1>7, <1>8

LEMMA FinishKeeps ==
  ASSUME Reassembling, NEW line \in Ends, FinishReply(line)
  PROVE  Reassembling' /\ BanAnswered'
<1> DEFINE es == Feed(line, heard)
<1>1. Reading /\ Yield(es) /\ ended' = TRUE /\ UNCHANGED <<channel, meant, envelope>>
  BY DEF FinishReply, Hear
<1>2. es = <<Finished>> \/ es = <<Usage, Finished>>
  BY EndHeard
<1> HIDE DEF es
<1>3. /\ Usage.kind = "usage" /\ ~IsText(Usage)
      /\ Finished.kind = "finished" /\ ~IsText(Finished)
  BY DEF Usage, Finished, IsText, TextPath
<1>4. /\ IsSequence(es) /\ EndsLast(es) /\ Terminal(es) /\ es # <<>> /\ Last(es) = Finished
  BY <1>2, <1>3, OneEvent, TwoEvents
<1>5. TextsIn(es) = <<>>
  <2>1. <<>> \o <<>> = <<>>
    OBVIOUS
  <2> QED BY <1>2, <1>3, <2>1, TextsOne, TextsTwo
<1>6. /\ IsSequence(events') /\ TextsIn(events') = meant /\ EndsLast(events') /\ over'
      /\ events' # <<>> /\ Last(events') = Finished
  BY <1>1, <1>4, <1>5, YieldedQuiet
<1>7. channel' = "lines"
  BY <1>1 DEF Reading
<1>8. Reassembling'
  BY <1>1, <1>6, <1>7, OverKeeps
<1> QED BY <1>7, <1>8 DEF BanAnswered

\* A line of which an error comes.
LEMMA ErrorLineKeeps ==
  ASSUME Reassembling, Reading, NEW e, e.kind = "error", Yield(<<e>>),
         channel' # "none", UNCHANGED <<meant, ended>>
  PROVE  Reassembling' /\ over' /\ events' # <<>> /\ Last(events') = e
<1>1. ~IsText(e) /\ ~ended
  BY DEF IsText, TextPath, Reassembling
<1>2. /\ IsSequence(events') /\ TextsIn(events') = meant /\ EndsLast(events')
      /\ over' /\ events' # <<>> /\ Last(events') = e
  BY <1>1, YieldedOne
<1> QED BY <1>1, <1>2, OverKeeps

LEMMA EnvelopeKeeps ==
  ASSUME Reassembling, NEW e \in Envelopes, NEW how \in {"raw", "data"}, EnvelopeLine(e, how)
  PROVE  Reassembling' /\ BanAnswered'
<1> DEFINE event == IF how = "data" THEN FeedEnvelope(e) ELSE BanStreamEvent(e)
<1>1. /\ Reading /\ channel = "lines" /\ UNCHANGED <<meant, ended>>
      /\ channel' = IF over' THEN how ELSE channel
      /\ envelope' = IF over' THEN e ELSE envelope
  BY DEF EnvelopeLine, Reading
<1>2. Yield(Shown(event)) /\ UNCHANGED heard
  <2>1. CASE how = "data"
    <3> DEFINE line == [is |-> "data", envelope |-> e]
    <3>1. line.is = "data" /\ line.envelope = e
      OBVIOUS
    <3>2. Hear(line)
      BY <2>1 DEF EnvelopeLine
    <3> HIDE DEF line
    <3>3. Feed(line, heard) = Shown(FeedEnvelope(e))
      BY <3>1 DEF Feed
    <3>4. heard' = heard
      BY <3>1, <3>2 DEF Hear, Remembered
    <3> QED BY <2>1, <3>2, <3>3, <3>4 DEF Hear
  <2>2. CASE how = "raw"
    BY <2>2 DEF EnvelopeLine
  <2> QED BY <2>1, <2>2
<1>3. /\ event # NoEvent => Answers(event, e)
      /\ event = NoEvent => ~IsBan(e)
  BY BanEventAnswers, FeedAnswers
<1> HIDE DEF event
<1>4. CASE event = NoEvent
  <2>1. Shown(event) = <<>>
    BY <1>4 DEF Shown
  <2>2. events' = events /\ ~over'
    BY <1>1, <1>2, <2>1, YieldedNone
  <2>3. /\ IsSequence(events') /\ EndsLast(events') /\ TextsIn(events') = meant
        /\ ~Terminal(events')
    BY <1>1, <2>2 DEF Reassembling
  <2> QED BY <1>1, <1>2, <2>2, <2>3, SilentKeeps
<1>5. CASE event # NoEvent
  <2>1. Shown(event) = <<event>>
    BY <1>5 DEF Shown
  <2>2. Answers(event, e)
    BY <1>3, <1>5
  <2>3. Reassembling' /\ over' /\ events' # <<>> /\ Last(events') = event
    BY <1>1, <1>2, <2>1, <2>2, ErrorLineKeeps DEF Answers
  <2> QED BY <1>1, <2>2, <2>3 DEF BanAnswered, Failed, LastEvent, Answers
<1> QED BY <1>4, <1>5

LEMMA ToastKeeps ==
  ASSUME Reassembling, NEW code, Toast(code)
  PROVE  Reassembling' /\ BanAnswered'
<1> DEFINE line == [is |-> "toast", code |-> code]
           event == ErrorEvent(code, FALSE, FALSE)
<1>1. line.is = "toast" /\ line.code = code /\ event.kind = "error"
  BY DEF ErrorEvent
<1>2. Reading /\ Hear(line) /\ channel' = "toast" /\ UNCHANGED <<meant, ended>>
  BY DEF Toast
<1> HIDE DEF line
<1>3. Feed(line, heard) = <<event>>
  BY <1>1 DEF Feed
<1> HIDE DEF event
<1>4. Yield(<<event>>)
  BY <1>2, <1>3 DEF Hear
<1>5. Reassembling'
  BY <1>1, <1>2, <1>4, ErrorLineKeeps
<1> QED BY <1>2, <1>5 DEF BanAnswered

-----------------------------------------------------------------------------
(* Theorems                                                                *)

LEMMA ReassemblingInit == UpstreamInit => Reassembling /\ BanAnswered
<1> SUFFICES ASSUME UpstreamInit PROVE Reassembling /\ BanAnswered
  OBVIOUS
<1>1. channel = "none" /\ heard = "" /\ events = <<>> /\ ~over /\ meant = <<>> /\ ~ended
  BY DEF UpstreamInit
<1>2. <<>> \in Seq(Piece)
  OBVIOUS
<1> QED BY <1>1, <1>2, EmptyEvents DEF Reassembling, Reading, BanAnswered

LEMMA ReassemblingKept ==
  ASSUME Reassembling, BanAnswered, [UpstreamNext]_upstreamVars
  PROVE  Reassembling' /\ BanAnswered'
<1>1. ASSUME NEW e \in Envelope, NEW how \in {"parsed", "drained"}, JsonAnswer(e, how)
      PROVE  Reassembling' /\ BanAnswered'
  BY <1>1, UpstreamAssumption, JsonKeeps
<1>2. ASSUME NEW e \in Envelope, NEW code \in StatusCodes, StatusAnswer(e, code)
      PROVE  Reassembling' /\ BanAnswered'
  BY <1>2, StatusKeeps
<1>3. ASSUME NEW e \in Envelope, SetupAnswer(e)
      PROVE  Reassembling' /\ BanAnswered'
  BY <1>3, StatusKeeps
<1>4. ASSUME NEW e \in Envelope, NEW how \in {"raw", "data"}, EnvelopeLine(e, how)
      PROVE  Reassembling' /\ BanAnswered'
  BY <1>4, UpstreamAssumption, EnvelopeKeeps
<1>5. CASE OpenStream
  BY <1>5, OpenKeeps
<1>6. ASSUME NEW kinds \in BoundedSeq(TextPath, 2) \ {<<>>}, Say(kinds)
      PROVE  Reassembling' /\ BanAnswered'
  BY <1>6, SayKeeps
<1>7. ASSUME NEW line \in Noise, MakeNoise(line)
      PROVE  Reassembling' /\ BanAnswered'
  BY <1>7, NoiseKeeps
<1>8. ASSUME NEW line \in Ends, FinishReply(line)
      PROVE  Reassembling' /\ BanAnswered'
  BY <1>8, FinishKeeps
<1>9. ASSUME NEW code \in ToastCodes, Toast(code)
      PROVE  Reassembling' /\ BanAnswered'
  BY <1>9, ToastKeeps
<1>10. CASE CutOff
  BY <1>10, CutKeeps
<1>11. CASE UNCHANGED upstreamVars
  <2>1. UNCHANGED <<channel, heard, events, over, meant, envelope, ended>>
    BY <1>11 DEF upstreamVars
  <2>2. Reassembling'
    BY <2>1 DEF Reassembling, Reading, Continued
  <2>3. BanAnswered'
    BY <2>1 DEF BanAnswered, Failed, LastEvent
  <2> QED BY <2>2, <2>3
<1> QED BY <1>1, <1>2, <1>3, <1>4, <1>5, <1>6, <1>7, <1>8, <1>9, <1>10, <1>11 DEF UpstreamNext

LEMMA ReplyInvariant == UpstreamSpec => [](Reassembling /\ BanAnswered)
<1>1. Reassembling /\ BanAnswered /\ [UpstreamNext]_upstreamVars => Reassembling' /\ BanAnswered'
  BY ReassemblingKept
<1> QED BY <1>1, ReassemblingInit, PTL DEF UpstreamSpec

(* The text that comes out is the text that the upstream sent, however it  *)
(* is spread over chunks, continuations, batches and nested lists, and an  *)
(* end is seen once and last (StreamParser.feed), for every set of         *)
(* envelopes and for replies of any length.                                *)
THEOREM ReplyReassembledHolds == UpstreamSpec => []ReplyReassembled
<1>1. Reassembling => ReplyReassembled
  <2> SUFFICES ASSUME Reassembling PROVE ReplyReassembled
    OBVIOUS
  <2>1. TextsIn(events) = meant /\ (ended => LastEvent = Finished)
    BY DEF Reassembling, LastEvent
  <2>2. \A i \in DOMAIN events :
          events[i].kind \in {"finished", "error"} => i = Len(events) /\ over
    BY DEF Reassembling, EndsLast, Terminal
  <2> QED BY <2>1, <2>2 DEF ReplyReassembled
<1> QED BY <1>1, ReplyInvariant, PTL

(* A ban with an expiry is answered 403 with its expiry, however it comes  *)
(* over a good connection, and no envelope without a ban makes a 403 but   *)
(* by its raw text or a 401 (_ban_stream_event, StreamParser.feed), for    *)
(* every envelope there is.                                                *)
THEOREM BanAnsweredHolds == UpstreamSpec => []BanAnswered
BY ReplyInvariant, PTL

-----------------------------------------------------------------------------
(* Types                                                                   *)

EventKind == TextPath \cup {"usage", "finished", "error"}
Kinds(es) == \A i \in DOMAIN es : es[i].kind \in EventKind

LEMMA GreatestNat ==
  ASSUME NEW n \in Nat, NEW S, S \subseteq 1..n, S # {}
  PROVE  Max(S) \in S /\ \A y \in S : y <= Max(S)
<1> DEFINE T == {n - x : x \in S}
<1>1. T \subseteq Nat /\ T # {}
  <2>1. \A x \in S : n - x \in Nat
    OBVIOUS
  <2> QED BY <2>1
<1>2. PICK m \in T : \A k \in T : m <= k
  BY <1>1, LeastNat
<1>3. PICK x \in S : m = n - x
  BY <1>2
<1>4. ASSUME NEW y \in S PROVE y <= x
  <2>1. n - y \in T
    OBVIOUS
  <2>2. m <= n - y
    BY <1>2, <2>1
  <2> QED BY <1>3, <2>2
<1>5. \E z \in S : \A y \in S : z >= y
  BY <1>3, <1>4
<1>6. Max(S) \in S /\ \A y \in S : Max(S) >= y
  BY <1>5 DEF Max
<1> QED BY <1>6

LEMMA RememberedType ==
  ASSUME NEW line, NEW es, IsSequence(es), heard \in TextPath \cup {""}
  PROVE  Remembered(heard, line, es) \in TextPath \cup {""}
<1> DEFINE texts == {i \in DOMAIN es : es[i].kind \in TextPath}
<1>1. PICK S : es \in Seq(S)
  BY DEF IsSequence
<1>2. Len(es) \in Nat /\ DOMAIN es = 1..Len(es)
  BY <1>1, LenProperties
<1>3. texts \subseteq 1..Len(es)
  BY <1>2
<1>4. texts # {} => Max(texts) \in texts
  BY <1>2, <1>3, GreatestNat
<1>5. texts # {} => es[Max(texts)].kind \in TextPath
  BY <1>4
<1>6. Remembered(heard, line, es) =
        IF line.is # "delta" THEN heard
        ELSE IF Finished \in ToSet(es) THEN ""
        ELSE IF texts = {} THEN heard ELSE es[Max(texts)].kind
  BY DEF Remembered
<1> HIDE DEF texts
<1> QED BY <1>5, <1>6

LEMMA YieldedKinds ==
  ASSUME NEW es, IsSequence(events), IsSequence(es), Kinds(events), Kinds(es), Yield(es)
  PROVE  Kinds(events')
<1>1. PICK S : es \in Seq(S)
  BY DEF IsSequence
<1>2. PICK T : events \in Seq(T)
  BY DEF IsSequence
<1> DEFINE U == S \cup T
<1>3. es \in Seq(U) /\ events \in Seq(U)
  BY <1>1, <1>2, SeqMonotonic
<1> HIDE DEF U
<1>4. /\ events' \in Seq(U) /\ Len(events') = Len(events) + Len(es)
      /\ Len(events) \in Nat /\ Len(es) \in Nat
      /\ DOMAIN es = 1..Len(es) /\ DOMAIN events = 1..Len(events)
      /\ DOMAIN events' = 1..(Len(events) + Len(es))
  BY <1>3, ConcatProperties, LenProperties DEF Yield
<1>5. \A i \in 1..(Len(events) + Len(es)) :
        events'[i] = IF i <= Len(events) THEN events[i] ELSE es[i - Len(events)]
  BY <1>3, ConcatProperties DEF Yield
<1>6. \A i \in 1..(Len(events) + Len(es)) :
        IF i <= Len(events) THEN i \in DOMAIN events ELSE i - Len(events) \in DOMAIN es
  BY <1>4
<1> QED BY <1>4, <1>5, <1>6 DEF Kinds

\* What a line of a stream leaves behind, whatever it is.
LEMMA HeardTypes ==
  ASSUME UpstreamTypeOK, IsSequence(events), NEW line, NEW es,
         Feed(line, heard) = es, IsSequence(es), Kinds(es), Hear(line)
  PROVE  Kinds(events') /\ over' \in BOOLEAN /\ heard' \in TextPath \cup {""}
<1>1. Yield(es) /\ heard' = Remembered(heard, line, es)
  BY DEF Hear
<1>2. Kinds(events) /\ heard \in TextPath \cup {""}
  BY DEF UpstreamTypeOK, Kinds, EventKind
<1>3. over' \in BOOLEAN
  BY <1>1 DEF Yield, Terminal
<1> QED BY <1>1, <1>2, <1>3, RememberedType, YieldedKinds

LEMMA OneKind ==
  ASSUME NEW e, e.kind \in EventKind
  PROVE  IsSequence(<<e>>) /\ Kinds(<<e>>) /\ IsSequence(<<>>) /\ Kinds(<<>>)
<1>1. DOMAIN <<e>> = {1} /\ <<e>>[1] = e /\ DOMAIN <<>> = {}
  OBVIOUS
<1> QED BY <1>1, OneEvent, EmptyEvents DEF Kinds

LEMMA ErrorKinds ==
  ASSUME NEW e \in Envelopes
  PROVE  /\ BanStreamEvent(e) # NoEvent => BanStreamEvent(e).kind = "error"
         /\ FeedEnvelope(e) # NoEvent => FeedEnvelope(e).kind = "error"
         /\ SetupError(e).kind = "error"
         /\ \A code, named, until : ErrorEvent(code, named, until).kind = "error"
BY BanEventAnswers, FeedAnswers DEF Answers, SetupError, ErrorEvent

LEMMA AnswerTypes ==
  ASSUME UpstreamTypeOK, NEW e \in Envelope,
         \/ \E how \in {"parsed", "drained"} : JsonAnswer(e, how)
         \/ \E code \in StatusCodes : StatusAnswer(e, code)
         \/ SetupAnswer(e)
  PROVE  UpstreamTypeOK'
<1>1. e \in Envelopes
  BY UpstreamAssumption
<1>2. /\ over' = TRUE /\ envelope' = e /\ UNCHANGED <<heard, meant, ended>>
      /\ channel' \in {"parsed", "drained", "status", "setup"}
  BY DEF JsonAnswer, StatusAnswer, SetupAnswer
<1>3. events' = <<>> \/ \E one : events' = <<one>> /\ one.kind = "error"
  BY <1>1, ErrorKinds DEF JsonAnswer, StatusAnswer, SetupAnswer
<1>4. Kinds(events')
  BY <1>3, OneKind, EmptyEvents DEF Kinds, EventKind
<1> QED BY <1>2, <1>4 DEF UpstreamTypeOK, Kinds, EventKind

LEMMA SayTypes ==
  ASSUME UpstreamTypeOK, Reassembling, NEW kinds \in BoundedSeq(TextPath, 2) \ {<<>>}, Say(kinds)
  PROVE  UpstreamTypeOK'
<1> DEFINE pieces == [i \in DOMAIN kinds |-> TextEvent(kinds[i], Len(meant) + i - 1)]
<1>1. PICK line \in Encodings(pieces) : Hear(line)
  BY DEF Say
<1>2. /\ Reading /\ meant' = meant \o pieces /\ UNCHANGED <<channel, envelope, ended>>
      /\ Len(meant) + Len(kinds) <= MaxPieces
  BY DEF Say
<1>3. meant \in Seq(Piece) /\ heard = Continued /\ IsSequence(events)
  BY <1>2 DEF Reassembling
<1>4. \/ \E a \in Piece : pieces = <<a>>
      \/ \E a, b \in Piece : pieces = <<a, b>>
  BY <1>3, PiecesWritten
<1>5. Len(kinds) = Len(pieces)
  <2>1. PICK m \in 0..2 : kinds \in [1..m -> TextPath]
    BY DEF BoundedSeq, SeqOf
  <2>2. kinds \in Seq(TextPath) /\ Len(kinds) = m /\ DOMAIN pieces = 1..m
    BY <2>1
  <2> HIDE DEF pieces
  <2>3. Len(pieces) \in Nat /\ DOMAIN pieces = 1..Len(pieces)
    BY <1>4
  <2> QED BY <2>1, <2>2, <2>3
<1> HIDE DEF pieces
<1>6. Feed(line, heard) = pieces /\ pieces \in Seq(Piece)
  <2>1. ASSUME NEW a \in Piece, pieces = <<a>>
        PROVE  Feed(line, heard) = pieces /\ pieces \in Seq(Piece)
    BY <1>1, <1>3, <2>1, SaidOne
  <2>2. ASSUME NEW a \in Piece, NEW b \in Piece, pieces = <<a, b>>
        PROVE  Feed(line, heard) = pieces /\ pieces \in Seq(Piece)
    BY <1>1, <1>3, <2>2, SaidTwo
  <2> QED BY <1>4, <2>1, <2>2
<1>7. IsSequence(pieces) /\ Kinds(pieces)
  <2>1. DOMAIN pieces = 1..Len(pieces) /\ \A i \in 1..Len(pieces) : pieces[i] \in Piece
    BY <1>6, LenProperties, ElementOfSeq
  <2>2. \A a \in Piece : a.kind \in EventKind
    BY DEF Piece, EventKind
  <2> QED BY <1>6, <2>1, <2>2 DEF IsSequence, Kinds
<1>8. Kinds(events') /\ over' \in BOOLEAN /\ heard' \in TextPath \cup {""}
  BY <1>1, <1>3, <1>6, <1>7, HeardTypes
<1>9. Len(meant') <= MaxPieces
  BY <1>2, <1>3, <1>5, <1>6, ConcatProperties
<1> QED BY <1>2, <1>8, <1>9 DEF UpstreamTypeOK, Kinds, EventKind

\* Lines without a text.
LEMMA LineTypes ==
  ASSUME UpstreamTypeOK, Reassembling,
         \/ \E line \in Noise : MakeNoise(line)
         \/ \E line \in Ends : FinishReply(line)
         \/ \E code \in ToastCodes : Toast(code)
  PROVE  UpstreamTypeOK'
<1>1. PICK line : /\ Hear(line) /\ UNCHANGED <<meant, envelope>>
                  /\ channel' \in {channel, "toast"} /\ ended' \in {ended, TRUE}
                  /\ \/ line \in Noise \/ line \in Ends
                     \/ \E code : line = [is |-> "toast", code |-> code]
  BY DEF MakeNoise, FinishReply, Toast
<1>2. IsSequence(Feed(line, heard)) /\ Kinds(Feed(line, heard))
  <2>1. /\ Usage.kind = "usage" /\ Finished.kind = "finished"
        /\ \A code : ErrorEvent(code, FALSE, FALSE).kind = "error"
    BY DEF Usage, Finished, ErrorEvent
  <2>2. CASE line \in Noise
    BY <2>1, <2>2, NoiseHeard, OneKind DEF EventKind
  <2>3. CASE line \in Ends
    <3>1. IsSequence(<<Usage, Finished>>)
      BY <2>1, TwoEvents
    <3>2. Kinds(<<Usage, Finished>>)
      BY <2>1 DEF Kinds, EventKind
    <3> QED BY <2>1, <2>3, <3>1, <3>2, EndHeard, OneKind DEF EventKind
  <2>4. ASSUME NEW code, line = [is |-> "toast", code |-> code]
        PROVE  <1>2!:
    <3>1. line.is = "toast" /\ line.code = code
      BY <2>4
    <3>2. Feed(line, heard) = <<ErrorEvent(code, FALSE, FALSE)>>
      BY <3>1 DEF Feed
    <3> QED BY <2>1, <3>2, OneKind DEF EventKind
  <2> QED BY <1>1, <2>2, <2>3, <2>4
<1>3. Kinds(events') /\ over' \in BOOLEAN /\ heard' \in TextPath \cup {""}
  BY <1>1, <1>2, HeardTypes DEF Reassembling
<1> QED BY <1>1, <1>3 DEF UpstreamTypeOK, Kinds, EventKind

LEMMA EnvelopeTypes ==
  ASSUME UpstreamTypeOK, Reassembling, NEW e \in Envelope, NEW how \in {"raw", "data"},
         EnvelopeLine(e, how)
  PROVE  UpstreamTypeOK'
<1>0. e \in Envelopes /\ IsSequence(events) /\ Kinds(events) /\ heard \in TextPath \cup {""}
  BY UpstreamAssumption DEF Reassembling, UpstreamTypeOK, Kinds, EventKind
<1>1. /\ UNCHANGED <<meant, ended>>
      /\ channel' \in {how, channel} /\ envelope' \in {e, envelope}
  BY DEF EnvelopeLine
<1>2. ASSUME NEW event, event # NoEvent => event.kind = "error"
      PROVE  IsSequence(Shown(event)) /\ Kinds(Shown(event))
  BY <1>2, OneKind, EmptyEvents DEF Shown, Kinds, EventKind
<1>3. CASE how = "data"
  <2> DEFINE line == [is |-> "data", envelope |-> e]
  <2>1. line.is = "data" /\ line.envelope = e
    OBVIOUS
  <2>2. Hear(line)
    BY <1>3 DEF EnvelopeLine
  <2> HIDE DEF line
  <2>3. Feed(line, heard) = Shown(FeedEnvelope(e))
    BY <2>1 DEF Feed
  <2>4. Kinds(events') /\ over' \in BOOLEAN /\ heard' \in TextPath \cup {""}
    BY <1>0, <1>2, <2>2, <2>3, ErrorKinds, HeardTypes
  <2> QED BY <1>1, <2>4 DEF UpstreamTypeOK, Kinds, EventKind
<1>4. CASE how = "raw"
  <2>1. Yield(Shown(BanStreamEvent(e))) /\ UNCHANGED heard
    BY <1>4 DEF EnvelopeLine
  <2>2. Kinds(events')
    BY <1>0, <1>2, <2>1, ErrorKinds, YieldedKinds
  <2>3. over' \in BOOLEAN
    BY <2>1 DEF Yield, Terminal
  <2> QED BY <1>0, <1>1, <2>1, <2>2, <2>3 DEF UpstreamTypeOK, Kinds, EventKind
<1> QED BY <1>3, <1>4

\* The types of UpstreamEvents: whatever line comes, the parser goes on from a path
\* of text or none, and yields text, usage, ends and errors only (sse_parser.feed).
THEOREM UpstreamTypeCorrect == UpstreamSpec => []UpstreamTypeOK
<1>1. UpstreamInit => UpstreamTypeOK
  <2> SUFFICES ASSUME UpstreamInit PROVE UpstreamTypeOK
    OBVIOUS
  <2>1. events = <<>> /\ meant = <<>>
    BY DEF UpstreamInit
  <2>2. Len(<<>>) = 0 /\ DOMAIN <<>> = {} /\ 0 <= MaxPieces
    BY UpstreamAssumption
  <2> QED BY <2>1, <2>2 DEF UpstreamInit, UpstreamTypeOK
<1>2. ASSUME UpstreamTypeOK, Reassembling, [UpstreamNext]_upstreamVars PROVE UpstreamTypeOK'
  <2>1. CASE UNCHANGED upstreamVars
    BY <1>2, <2>1 DEF upstreamVars, UpstreamTypeOK
  <2>2. CASE OpenStream \/ CutOff
    BY <1>2, <2>2 DEF OpenStream, CutOff, UpstreamTypeOK
  <2>3. ASSUME NEW e \in Envelope, NEW how \in {"raw", "data"}, EnvelopeLine(e, how)
        PROVE  UpstreamTypeOK'
    BY <1>2, <2>3, EnvelopeTypes
  <2> QED BY <1>2, <2>1, <2>2, <2>3, AnswerTypes, SayTypes, LineTypes DEF UpstreamNext
<1> QED BY <1>1, <1>2, ReplyInvariant, PTL DEF UpstreamSpec
=============================================================================
