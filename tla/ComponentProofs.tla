--------------------------- MODULE ComponentProofs ---------------------------
(***************************************************************************)
(* Theorems about JsonRepair, about the replies of ToolCalls that are cut, *)
(* and about MCComponents: each component's own specification holds of the *)
(* components side by side.                                                *)
(*                                                                         *)
(* A repair edits a text character by character, so that a text after some *)
(* repairs is FlattenSeq of pieces, one for each character it had before   *)
(* them.  A repair of such a text becomes one of its pieces                *)
(* (EditedPieces); the lexer comes to a piece in the state in which it came*)
(* to the character that the piece stands for (PieceStates); and the       *)
(* neighbours that the repairs look for stay the same ones (EscapeKeeps,   *)
(* KeysKept).                                                              *)
(***************************************************************************)
EXTENDS MCComponents, BrowserProofs, ReplyProofs, FiniteSetTheorems

-----------------------------------------------------------------------------
(* Texts in pieces                                                         *)

\* Induction over an interval, on the set of the numbers that are good.
LEMMA UpTo ==
  ASSUME NEW n \in Nat, NEW G, 0 \in G, \A i \in 0..n : i \in G /\ i # n => i + 1 \in G
  PROVE  \A i \in 0..n : i \in G
<1> DEFINE Bad == {i \in 0..n : i \notin G}
<1>1. SUFFICES ASSUME Bad # {} PROVE FALSE
  OBVIOUS
<1>2. PICK m \in Bad : \A k \in Bad : m <= k
  <2>1. Bad \subseteq Nat
    OBVIOUS
  <2> QED BY <1>1, <2>1, LeastNat
<1>3. m \in 0..n /\ m \notin G /\ m # 0
  BY <1>2
<1>4. m - 1 \in 0..n /\ m - 1 # n /\ ~(m <= m - 1) /\ (m - 1) + 1 = m
  BY <1>3
<1>5. m - 1 \in G
  BY <1>2, <1>4
<1> QED BY <1>3, <1>4, <1>5

\* Where a piece begins: the number of characters before it.
Start(p, i) == Len(FlattenSeq(SubSeq(p, 1, i - 1)))

\* Prefixes grow by one element each.
LEMMA Prefix ==
  ASSUME NEW S, NEW p \in Seq(S)
  PROVE  /\ Len(p) \in Nat
         /\ \A i \in 0..Len(p) : SubSeq(p, 1, i) \in Seq(S) /\ Len(SubSeq(p, 1, i)) = i
         /\ SubSeq(p, 1, 0) = <<>> /\ SubSeq(p, 1, Len(p)) = p
         /\ \A i \in 1..Len(p) : SubSeq(p, 1, i) = Append(SubSeq(p, 1, i - 1), p[i])
<1>1. Len(p) \in Nat /\ \A i \in 1..Len(p) : p[i] \in S
  BY LenProperties, ElementOfSeq
<1>2. ASSUME NEW i \in 0..Len(p)
      PROVE  SubSeq(p, 1, i) \in Seq(S) /\ Len(SubSeq(p, 1, i)) = i
  <2>1. \A j \in 1..i : p[j] \in S
    BY <1>1
  <2>2. i \in Int /\ 1 \in Int
    BY <1>1
  <2>3. /\ SubSeq(p, 1, i) \in Seq(S)
        /\ Len(SubSeq(p, 1, i)) = IF 1 <= i THEN i - 1 + 1 ELSE 0
    BY <2>1, <2>2, SubSeqProperties
  <2> QED BY <1>1, <2>3
<1>3. SubSeq(p, 1, 0) = <<>> /\ SubSeq(p, 1, Len(p)) = p
  BY SubSeqEmpty, SubSeqFull
<1>4. ASSUME NEW i \in 1..Len(p)
      PROVE  SubSeq(p, 1, i) = Append(SubSeq(p, 1, i - 1), p[i])
  <2>1. SubSeq(p, 1, i) = SubSeq(p, 1, i - 1) \o <<p[i]>>
    <3>1. 1 \in 1..Len(p) /\ i \in 1..Len(p)
      BY <1>1
    <3> QED BY <3>1, SubSeqRecursiveSecond
  <2>2. SubSeq(p, 1, i - 1) \in Seq(S) /\ p[i] \in S
    <3>1. i - 1 \in 0..Len(p)
      BY <1>1
    <3> QED BY <1>1, <1>2, <3>1
  <2> QED BY <2>1, <2>2, AppendIsConcat
<1> QED BY <1>1, <1>2, <1>3, <1>4

\* A piece begins where the one before it ends.
LEMMA StartStep ==
  ASSUME NEW S, NEW p \in Seq(Seq(S))
  PROVE  /\ Start(p, 1) = 0 /\ Start(p, Len(p) + 1) = Len(FlattenSeq(p))
         /\ \A i \in 1..(Len(p) + 1) : Start(p, i) \in Nat
         /\ \A i \in 1..Len(p) : /\ Start(p, i + 1) = Start(p, i) + Len(p[i])
                                 /\ Len(p[i]) \in Nat
<1>0. Len(p) \in Nat /\ \A i \in 1..Len(p) : p[i] \in Seq(S)
  BY LenProperties, ElementOfSeq
<1>1. ASSUME NEW i \in 0..Len(p)
      PROVE  /\ FlattenSeq(SubSeq(p, 1, i)) \in Seq(S)
             /\ Len(FlattenSeq(SubSeq(p, 1, i))) \in Nat
  <2>1. SubSeq(p, 1, i) \in Seq(Seq(S))
    BY Prefix
  <2>2. FlattenSeq(SubSeq(p, 1, i)) \in Seq(S)
    BY <2>1, FlattenType
  <2> QED BY <2>2, LenProperties
<1>2. ASSUME NEW i \in 1..Len(p)
      PROVE  Start(p, i + 1) = Start(p, i) + Len(p[i]) /\ Len(p[i]) \in Nat
  <2> DEFINE before == SubSeq(p, 1, i - 1)
  <2>1. i - 1 \in 0..Len(p) /\ (i + 1) - 1 = i
    BY <1>0
  <2>2. before \in Seq(Seq(S)) /\ FlattenSeq(before) \in Seq(S)
    BY <1>1, <2>1, Prefix
  <2>3. SubSeq(p, 1, i) = Append(before, p[i])
    BY Prefix
  <2> HIDE DEF before
  <2>4. FlattenSeq(SubSeq(p, 1, i)) = FlattenSeq(before) \o p[i]
    BY <1>0, <2>2, <2>3, FlattenAppend
  <2>5. Len(FlattenSeq(before) \o p[i]) = Len(FlattenSeq(before)) + Len(p[i])
    BY <1>0, <2>2, ConcatProperties
  <2>6. Len(p[i]) \in Nat
    BY <1>0, LenProperties
  <2> QED BY <2>1, <2>4, <2>5, <2>6 DEF Start, before
<1>3. Start(p, 1) = 0
  <2>1. SubSeq(p, 1, 1 - 1) = <<>>
    BY SubSeqEmpty
  <2>2. FlattenSeq(<<>>) = <<>> /\ Len(<<>>) = 0
    BY DEF FlattenSeq
  <2> QED BY <2>1, <2>2 DEF Start
<1>4. Start(p, Len(p) + 1) = Len(FlattenSeq(p))
  <2>1. (Len(p) + 1) - 1 = Len(p)
    BY <1>0
  <2>2. SubSeq(p, 1, Len(p)) = p
    BY SubSeqFull
  <2> QED BY <2>1, <2>2 DEF Start
<1>5. ASSUME NEW i \in 1..(Len(p) + 1) PROVE Start(p, i) \in Nat
  <2>1. i - 1 \in 0..Len(p)
    BY <1>0
  <2> QED BY <1>1, <2>1 DEF Start
<1> QED BY <1>2, <1>3, <1>4, <1>5

\* The characters of a piece are those from its start on.
LEMMA PieceAt ==
  ASSUME NEW S, NEW p \in Seq(Seq(S)), NEW i \in 1..Len(p), NEW k \in 1..Len(p[i])
  PROVE  /\ Start(p, i) + k \in 1..Len(FlattenSeq(p))
         /\ FlattenSeq(p)[Start(p, i) + k] = p[i][k]
<1>0. Len(p) \in Nat /\ \A j \in 1..Len(p) : p[j] \in Seq(S)
  BY LenProperties, ElementOfSeq
<1>1. i - 1 \in 0..Len(p) /\ i \in 0..Len(p)
  BY <1>0
<1> DEFINE G == {n \in 0..Len(p) : n >= i =>
                   /\ Start(p, i) + k \in 1..Len(FlattenSeq(SubSeq(p, 1, n)))
                   /\ FlattenSeq(SubSeq(p, 1, n))[Start(p, i) + k] = p[i][k]}
<1>2. 0 \in G
  BY <1>0
<1>3. ASSUME NEW n \in 0..Len(p), n \in G, n # Len(p) PROVE n + 1 \in G
  <2> DEFINE u == FlattenSeq(SubSeq(p, 1, n))
             at == Start(p, i) + k
  <2>1. n + 1 \in 0..Len(p) /\ n + 1 \in 1..Len(p) /\ (n + 1) - 1 = n
    BY <1>0, <1>3
  <2>2. SubSeq(p, 1, n + 1) = Append(SubSeq(p, 1, n), p[n + 1]) /\ SubSeq(p, 1, n) \in Seq(Seq(S))
    BY <2>1, Prefix
  <2>3. u \in Seq(S) /\ p[n + 1] \in Seq(S) /\ Len(u) \in Nat /\ Len(p[n + 1]) \in Nat
    BY <1>0, <2>1, <2>2, FlattenType, LenProperties
  <2>4. FlattenSeq(SubSeq(p, 1, n + 1)) = u \o p[n + 1]
    BY <2>2, <2>3, FlattenAppend
  <2>5. /\ Len(u \o p[n + 1]) = Len(u) + Len(p[n + 1])
        /\ \A j \in 1..(Len(u) + Len(p[n + 1])) :
             (u \o p[n + 1])[j] = IF j <= Len(u) THEN u[j] ELSE p[n + 1][j - Len(u)]
    BY <2>3, ConcatProperties
  <2>6. Start(p, i) \in Nat /\ k \in Nat /\ k >= 1 /\ k <= Len(p[i]) /\ Len(p[i]) \in Nat
    BY <1>0, StartStep, LenProperties
  <2>7. n >= i => at \in 1..Len(u) /\ u[at] = p[i][k]
    BY <1>3
  <2>8. n + 1 = i => Start(p, i) = Len(u)
    BY <2>1 DEF Start
  <2> HIDE DEF u
  <2>9. CASE n >= i
    <3>0. Len(u) \in Nat /\ Len(p[n + 1]) \in Nat /\ at \in 1..Len(u)
      BY <2>3, <2>7, <2>9
    <3> HIDE DEF at
    <3>1. at \in 1..(Len(u) + Len(p[n + 1])) /\ at <= Len(u)
      BY <3>0
    <3>2. (u \o p[n + 1])[at] = p[i][k]
      BY <2>5, <2>7, <2>9, <3>1
    <3> QED BY <2>1, <2>4, <2>5, <3>1, <3>2 DEF at
  <2>10. CASE n + 1 = i
    <3>0. at = Len(u) + k /\ k <= Len(p[n + 1])
      BY ONLY <2>6, <2>8, <2>10 DEF at
    <3> HIDE DEF at
    <3>1. at \in 1..(Len(u) + Len(p[n + 1])) /\ ~(at <= Len(u)) /\ at - Len(u) = k
      BY ONLY <2>3, <2>6, <3>0, SMTT(20)
    <3>2. (u \o p[n + 1])[at] = p[i][k]
      BY <2>5, <2>10, <3>1
    <3> QED BY <2>1, <2>4, <2>5, <3>1, <3>2 DEF at
  <2>11. CASE n + 1 < i
    BY <1>1, <2>1, <2>11
  <2> QED BY <1>0, <1>1, <2>9, <2>10, <2>11
<1>4. Len(p) \in G
  <2> HIDE DEF G
  <2>1. Len(p) \in 0..Len(p)
    BY <1>0
  <2> QED BY <1>0, <1>2, <1>3, <2>1, UpTo
<1>5. SubSeq(p, 1, Len(p)) = p /\ Len(p) >= i
  BY <1>0, SubSeqFull
<1> QED BY <1>4, <1>5

\* Pieces begin in their order.
LEMMA StartsOrdered ==
  ASSUME NEW S, NEW p \in Seq(Seq(S)), NEW i \in 1..(Len(p) + 1)
  PROVE  \A j \in i..(Len(p) + 1) : Start(p, i) <= Start(p, j)
<1>0. Len(p) \in Nat
  BY LenProperties
<1> DEFINE n == Len(p) + 1 - i
           G == {m \in 0..n : Start(p, i) <= Start(p, i + m)}
<1>1. n \in Nat /\ Start(p, i) \in Nat
  BY <1>0, StartStep
<1>2. 0 \in G
  BY <1>0, <1>1
<1>3. ASSUME NEW m \in 0..n, m \in G, m # n PROVE m + 1 \in G
  <2>1. i + m \in 1..Len(p) /\ i + (m + 1) = (i + m) + 1 /\ m + 1 \in 0..n
        /\ i + m \in 1..(Len(p) + 1)
    BY <1>0, <1>3
  <2>2. Start(p, (i + m) + 1) = Start(p, i + m) + Len(p[i + m]) /\ Len(p[i + m]) \in Nat
        /\ Start(p, i + m) \in Nat
    BY <2>1, StartStep
  <2> QED BY <1>1, <1>3, <2>1, <2>2
<1>4. \A m \in 0..n : m \in G
  <2> HIDE DEF G, n
  <2> QED BY <1>1, <1>2, <1>3, UpTo
<1>5. ASSUME NEW j \in i..(Len(p) + 1) PROVE Start(p, i) <= Start(p, j)
  <2>1. j - i \in 0..n /\ i + (j - i) = j
    BY <1>0
  <2>2. Start(p, i) <= Start(p, i + (j - i))
    BY <1>4, <2>1
  <2> QED BY <2>1, <2>2
<1> QED BY <1>5

\* Every character is one of some piece.
LEMMA Located ==
  ASSUME NEW S, NEW p \in Seq(Seq(S)), NEW j \in 1..Len(FlattenSeq(p))
  PROVE  \E i \in 1..Len(p) : \E k \in 1..Len(p[i]) : j = Start(p, i) + k
<1>0. Len(p) \in Nat
  BY LenProperties
<1> DEFINE Past == {i \in 1..(Len(p) + 1) : j <= Start(p, i)}
<1>1. Len(p) + 1 \in Past /\ Past \subseteq Nat
  BY <1>0, StartStep
<1>2. PICK m \in Past : \A i \in Past : m <= i
  BY <1>1, LeastNat
<1>3. m \in 1..(Len(p) + 1) /\ j <= Start(p, m) /\ m # 1
  BY <1>2, StartStep
<1>4. m - 1 \in 1..Len(p) /\ m - 1 \in 1..(Len(p) + 1) /\ (m - 1) + 1 = m /\ ~(m <= m - 1)
  BY <1>0, <1>3
<1>5. ~(j <= Start(p, m - 1))
  BY <1>2, <1>4
<1>6. /\ Start(p, m) = Start(p, m - 1) + Len(p[m - 1]) /\ Len(p[m - 1]) \in Nat
      /\ Start(p, m - 1) \in Nat
  BY <1>4, StartStep
<1> DEFINE k == j - Start(p, m - 1)
<1>7. k \in 1..Len(p[m - 1]) /\ j = Start(p, m - 1) + k
  BY <1>3, <1>5, <1>6, SMTT(20) DEF k
<1> QED BY <1>4, <1>7

\* A text edited character by character, where the pieces of another are its
\* characters.
LEMMA Concatenated ==
  ASSUME NEW S, NEW f \in Seq(Seq(S)), NEW a \in Nat, NEW n \in Nat, a + n <= Len(f)
  PROVE  /\ n = 0 => FlattenSeq(SubSeq(f, a + 1, a + n)) = <<>>
         /\ n = 1 => FlattenSeq(SubSeq(f, a + 1, a + n)) = f[a + 1]
         /\ n = 3 => FlattenSeq(SubSeq(f, a + 1, a + n)) = (f[a + 1] \o f[a + 2]) \o f[a + 3]
<1>0. Len(f) \in Nat /\ \A j \in 1..Len(f) : f[j] \in Seq(S)
  BY LenProperties, ElementOfSeq
<1> DEFINE Upto(m) == SubSeq(f, a + 1, a + m)
<1>1. FlattenSeq(Upto(0)) = <<>> /\ Upto(0) = <<>>
  <2>1. a + 0 < a + 1 /\ a + 1 \in Int /\ a + 0 \in Int
    OBVIOUS
  <2>2. Upto(0) = <<>>
    BY <2>1, SubSeqEmpty
  <2> QED BY <2>2 DEF FlattenSeq
<1>2. ASSUME NEW m \in Nat, a + m + 1 <= Len(f), Upto(m) \in Seq(Seq(S))
      PROVE  /\ Upto(m + 1) \in Seq(Seq(S))
             /\ FlattenSeq(Upto(m + 1)) = FlattenSeq(Upto(m)) \o f[a + (m + 1)]
  <2>1. /\ a + 1 \in 1..Len(f) /\ a + (m + 1) \in (a + 1)..Len(f)
        /\ (a + (m + 1)) - 1 = a + m /\ a + (m + 1) \in 1..Len(f)
    BY <1>0, <1>2
  <2> DEFINE b == a + (m + 1)
             c == a + 1
  <2>2. SubSeq(f, c, b) = SubSeq(f, c, b - 1) \o <<f[b]>>
    <3>1. c \in 1..Len(f) /\ b \in c..Len(f)
      BY <2>1
    <3> HIDE DEF b, c
    <3> QED BY <3>1, SubSeqRecursiveSecond
  <2>3. Upto(m + 1) = Upto(m) \o <<f[a + (m + 1)]>>
    BY <2>1, <2>2
  <2>4. f[a + (m + 1)] \in Seq(S)
    BY <1>0, <2>1
  <2> DEFINE u == Upto(m)
             x == f[a + (m + 1)]
  <2>5. u \in Seq(Seq(S)) /\ x \in Seq(S) /\ Upto(m + 1) = u \o <<x>>
    BY <1>2, <2>3, <2>4
  <2> HIDE DEF u, x
  <2>6. u \o <<x>> = Append(u, x) /\ Append(u, x) \in Seq(Seq(S)) /\ FlattenSeq(u) \in Seq(S)
    BY <2>5, AppendIsConcat, AppendProperties, FlattenType
  <2>7. FlattenSeq(u \o <<x>>) = FlattenSeq(u) \o x
    BY <2>5, <2>6, FlattenAppend
  <2>8. Upto(m + 1) \in Seq(Seq(S)) /\ FlattenSeq(Upto(m + 1)) = FlattenSeq(u) \o x
    BY <2>5, <2>6, <2>7
  <2> QED BY <2>8 DEF u, x
<1> HIDE DEF Upto
<1>3. Upto(0) \in Seq(Seq(S))
  BY <1>1, EmptySeq
<1>4. n > 0 => /\ Upto(1) \in Seq(Seq(S))
               /\ FlattenSeq(Upto(1)) = f[a + 1]
  <2> SUFFICES ASSUME n > 0 PROVE /\ Upto(1) \in Seq(Seq(S))
                                  /\ FlattenSeq(Upto(1)) = f[a + 1]
    OBVIOUS
  <2>1. 0 \in Nat /\ a + 0 + 1 <= Len(f) /\ 0 + 1 = 1
    BY <1>0
  <2>2. Upto(1) \in Seq(Seq(S)) /\ FlattenSeq(Upto(1)) = FlattenSeq(Upto(0)) \o f[a + 1]
    BY <1>2, <1>3, <2>1
  <2>3. f[a + 1] \in Seq(S)
    <3>1. a + 1 \in 1..Len(f)
      BY <1>0
    <3> QED BY <1>0, <3>1
  <2>4. <<>> \o f[a + 1] = f[a + 1]
    BY <2>3, ConcatEmptySeq
  <2> QED BY <1>1, <2>2, <2>4
<1>5. n = 3 => FlattenSeq(Upto(3)) = (f[a + 1] \o f[a + 2]) \o f[a + 3]
  <2> SUFFICES ASSUME n = 3 PROVE FlattenSeq(Upto(3)) = (f[a + 1] \o f[a + 2]) \o f[a + 3]
    OBVIOUS
  <2>1. /\ 1 \in Nat /\ a + 1 + 1 <= Len(f) /\ 1 + 1 = 2
        /\ 2 \in Nat /\ a + 2 + 1 <= Len(f) /\ 2 + 1 = 3 /\ n > 0
    BY <1>0
  <2>2. Upto(2) \in Seq(Seq(S)) /\ FlattenSeq(Upto(2)) = f[a + 1] \o f[a + 2]
    BY <1>2, <1>4, <2>1
  <2>3. FlattenSeq(Upto(3)) = FlattenSeq(Upto(2)) \o f[a + 3]
    BY <1>2, <2>1, <2>2
  <2> QED BY <2>2, <2>3
<1>6. /\ n = 0 => FlattenSeq(Upto(n)) = <<>>
      /\ n = 1 => FlattenSeq(Upto(n)) = f[a + 1]
      /\ n = 3 => FlattenSeq(Upto(n)) = (f[a + 1] \o f[a + 2]) \o f[a + 3]
  <2>1. CASE n = 0
    BY <1>1, <2>1
  <2>2. CASE n = 1
    <3>1. FlattenSeq(Upto(1)) = f[a + 1]
      BY <1>4, <2>2
    <3> QED BY <2>2, <3>1
  <2>3. CASE n = 3
    <3> DEFINE three == (f[a + 1] \o f[a + 2]) \o f[a + 3]
    <3>0. FlattenSeq(Upto(3)) = three
      BY <1>5, <2>3
    <3> HIDE DEF three
    <3>1. FlattenSeq(Upto(n)) = three /\ n # 0 /\ n # 1
      BY <2>3, <3>0
    <3>2. n = 3 => FlattenSeq(Upto(n)) = three
      BY <3>1
    <3> QED BY <3>1, <3>2 DEF three
  <2> QED BY <2>1, <2>2, <2>3
<1> QED BY <1>6 DEF Upto

\* Piece i of p becomes that of q, when its characters become the pieces of f.
Becomes(p, f, q, i) ==
  \/ Len(p[i]) = 0 /\ q[i] = <<>>
  \/ Len(p[i]) = 1 /\ q[i] = f[Start(p, i) + 1]
  \/ /\ Len(p[i]) = 3
     /\ q[i] = (f[Start(p, i) + 1] \o f[Start(p, i) + 2]) \o f[Start(p, i) + 3]

\* A text in pieces, edited, is the text of what becomes of its pieces.
LEMMA EditedPieces ==
  ASSUME NEW S, NEW p \in Seq(Seq(S)), NEW f \in Seq(Seq(S)), NEW q \in Seq(Seq(S)),
         Len(f) = Len(FlattenSeq(p)), Len(q) = Len(p),
         \A i \in 1..Len(p) : Becomes(p, f, q, i)
  PROVE  FlattenSeq(f) = FlattenSeq(q)
<1>0. /\ Len(p) \in Nat /\ Len(f) \in Nat
      /\ Start(p, Len(p) + 1) = Len(f) /\ Start(p, 1) = 0
      /\ \A i \in 1..Len(p) : q[i] \in Seq(S)
  BY LenProperties, StartStep, ElementOfSeq
<1> DEFINE G == {n \in 0..Len(p) :
                   FlattenSeq(SubSeq(f, 1, Start(p, n + 1))) = FlattenSeq(SubSeq(q, 1, n))}
<1>1. 0 \in G
  <2>1. SubSeq(f, 1, 0) = <<>> /\ SubSeq(q, 1, 0) = <<>>
    BY SubSeqEmpty
  <2>2. SubSeq(f, 1, Start(p, 0 + 1)) = SubSeq(q, 1, 0) /\ 0 \in 0..Len(p)
    BY <1>0, <2>1
  <2> QED BY <2>2
<1>2. ASSUME NEW n \in 0..Len(p), n \in G, n # Len(p) PROVE n + 1 \in G
  <2> DEFINE a == Start(p, n + 1)
             b == Start(p, (n + 1) + 1)
             x == SubSeq(f, 1, a)
             y == SubSeq(f, a + 1, b)
             z == SubSeq(q, 1, n)
  <2>1. n + 1 \in 1..Len(p) /\ (n + 1) - 1 = n /\ n + 1 \in 0..Len(p)
        /\ n + 1 \in 1..(Len(p) + 1) /\ (n + 1) + 1 \in 1..(Len(p) + 1)
        /\ Len(p) + 1 \in ((n + 1) + 1)..(Len(p) + 1)
    BY <1>0, <1>2
  <2>2. a \in Nat /\ b \in Nat /\ b = a + Len(p[n + 1]) /\ Len(p[n + 1]) \in Nat /\ b <= Len(f)
    <3>1. b <= Start(p, Len(p) + 1)
      BY <2>1, StartsOrdered
    <3> QED BY <1>0, <2>1, <3>1, StartStep
  <2>3. x \in Seq(Seq(S)) /\ SubSeq(f, 1, b) = x \o y /\ y \in Seq(Seq(S))
    <3> HIDE DEF a, b
    <3>1. 1 \in 1..(Len(f) + 1) /\ a \in (1 - 1)..Len(f) /\ b \in a..Len(f) /\ a \in 0..Len(f)
      BY <1>0, <2>2
    <3>2. SubSeq(f, 1, a) \in Seq(Seq(S))
      BY <3>1, Prefix
    <3>3. SubSeq(f, 1, a) \o SubSeq(f, a + 1, b) = SubSeq(f, 1, b)
      BY <3>1, ConcatAdjacentSubSeq
    <3>4. a + 1 \in Int /\ b \in Int /\ \A j \in (a + 1)..b : f[j] \in Seq(S)
      <4>1. \A j \in (a + 1)..b : j \in 1..Len(f)
        BY <1>0, <2>2
      <4> QED BY <2>2, <4>1, ElementOfSeq
    <3>5. SubSeq(f, a + 1, b) \in Seq(Seq(S))
      BY <3>4, SubSeqProperties
    <3> QED BY <3>2, <3>3, <3>5
  <2>4. z \in Seq(Seq(S)) /\ SubSeq(q, 1, n + 1) = Append(z, q[n + 1])
    <3>1. n \in 0..Len(q) /\ n + 1 \in 1..Len(q)
      BY <1>2, <2>1
    <3>2. SubSeq(q, 1, n + 1) = Append(SubSeq(q, 1, (n + 1) - 1), q[n + 1])
      BY <3>1, Prefix
    <3> QED BY <2>1, <3>1, <3>2, Prefix
  <2>5. FlattenSeq(y) = q[n + 1]
    <3>1. /\ Len(p[n + 1]) = 0 => FlattenSeq(y) = <<>>
          /\ Len(p[n + 1]) = 1 => FlattenSeq(y) = f[a + 1]
          /\ Len(p[n + 1]) = 3 => FlattenSeq(y) = (f[a + 1] \o f[a + 2]) \o f[a + 3]
      <4> DEFINE m == Len(p[n + 1])
      <4>1. a \in Nat /\ m \in Nat /\ a + m <= Len(f) /\ b = a + m
        BY <2>2
      <4> HIDE DEF a, b, m
      <4>2. /\ m = 0 => FlattenSeq(SubSeq(f, a + 1, a + m)) = <<>>
            /\ m = 1 => FlattenSeq(SubSeq(f, a + 1, a + m)) = f[a + 1]
            /\ m = 3 => FlattenSeq(SubSeq(f, a + 1, a + m)) = (f[a + 1] \o f[a + 2]) \o f[a + 3]
        BY <4>1, Concatenated
      <4>3. y = SubSeq(f, a + 1, a + m)
        BY <4>1
      <4> HIDE DEF y
      <4> QED BY <4>2, <4>3 DEF m
    <3> HIDE DEF y
    <3>2. Becomes(p, f, q, n + 1)
      BY <2>1
    <3> QED BY <3>1, <3>2 DEF Becomes
  <2>6. FlattenSeq(x) = FlattenSeq(z)
    BY <1>2
  <2>7. q[n + 1] \in Seq(S)
    BY <1>0, <2>1
  <2> HIDE DEF a, x, y, z
  <2>8. FlattenSeq(x \o y) = FlattenSeq(x) \o FlattenSeq(y)
    BY <2>3, FlattenConcat
  <2>9. FlattenSeq(Append(z, q[n + 1])) = FlattenSeq(z) \o q[n + 1]
    BY <2>4, <2>7, FlattenType, FlattenAppend
  <2>10. FlattenSeq(SubSeq(f, 1, b)) = FlattenSeq(SubSeq(q, 1, n + 1))
    BY <2>3, <2>4, <2>5, <2>6, <2>8, <2>9
  <2> QED BY <2>1, <2>10
<1>3. Len(p) \in G
  <2> HIDE DEF G
  <2>1. Len(p) \in 0..Len(p)
    BY <1>0
  <2> QED BY <1>0, <1>1, <1>2, <2>1, UpTo
<1>4. SubSeq(f, 1, Len(f)) = f /\ SubSeq(q, 1, Len(q)) = q
  BY SubSeqFull
<1> QED BY <1>0, <1>3, <1>4

-----------------------------------------------------------------------------
(* The lexer                                                               *)

\* What a text is written with before and after the repairs.
Glyph == Char \cup {"\\n", "true"}

Lexes(f, t, n) == f = [i \in 1..n |-> IF i = 1 THEN "out" ELSE After(f[i - 1], t[i - 1])]

\* Lexed is well defined: its recursion has a solution for every length.
LEMMA LexesExists ==
  ASSUME NEW t, NEW n \in Nat
  PROVE  \E f : Lexes(f, t, n)
<1> DEFINE G == {m \in 0..n : \E f : Lexes(f, t, m)}
<1>1. 0 \in G
  <2>1. Lexes([i \in 1..0 |-> 0], t, 0)
    BY DEF Lexes
  <2> QED BY <2>1
<1>2. ASSUME NEW m \in 0..n, m \in G, m # n PROVE m + 1 \in G
  <2>1. PICK f : Lexes(f, t, m)
    BY <1>2
  <2> DEFINE g == [i \in 1..(m + 1) |-> IF i = 1 THEN "out" ELSE After(f[i - 1], t[i - 1])]
  <2>2. \A i \in 1..m : g[i] = f[i]
    <3>1. \A i \in 1..m : f[i] = IF i = 1 THEN "out" ELSE After(f[i - 1], t[i - 1])
      BY <2>1 DEF Lexes
    <3>2. \A i \in 1..m : g[i] = IF i = 1 THEN "out" ELSE After(f[i - 1], t[i - 1])
      OBVIOUS
    <3> QED BY <3>1, <3>2
  <2>3. g = [i \in 1..(m + 1) |-> IF i = 1 THEN "out" ELSE After(g[i - 1], t[i - 1])]
    <3>1. \A i \in 1..(m + 1) : i # 1 => i - 1 \in 1..m
      OBVIOUS
    <3>2. \A i \in 1..(m + 1) : i # 1 => g[i - 1] = f[i - 1]
      BY <2>2, <3>1
    <3> HIDE DEF g
    <3>3. \A i \in 1..(m + 1) : (IF i = 1 THEN "out" ELSE After(f[i - 1], t[i - 1]))
                                  = (IF i = 1 THEN "out" ELSE After(g[i - 1], t[i - 1]))
      BY <3>2
    <3> QED BY <3>3 DEF g
  <2> HIDE DEF g
  <2>4. Lexes(g, t, m + 1)
    BY <2>3 DEF Lexes
  <2>5. m + 1 \in 0..n
    BY <1>2
  <2> QED BY <2>4, <2>5
<1>3. n \in G
  <2> HIDE DEF G
  <2> QED BY <1>1, <1>2, UpTo
<1> QED BY <1>3

\* The state before each character, and that after the last.
StateAt(t, i) ==
  IF i = 1 THEN "out"
  ELSE IF i <= Len(t) THEN Lexed(t)[i] ELSE After(Lexed(t)[i - 1], t[i - 1])

\* The state of the lexer after each character is the one before the next.
LEMMA States ==
  ASSUME NEW S, NEW t \in Seq(S)
  PROVE  /\ StateAt(t, 1) = "out"
         /\ \A i \in 1..Len(t) : /\ Lexed(t)[i] = StateAt(t, i)
                                 /\ StateAt(t, i + 1) = After(StateAt(t, i), t[i])
<1>0. Len(t) \in Nat
  BY LenProperties
<1> DEFINE h == CHOOSE f : Lexes(f, t, Len(t))
<1>1. \E f : Lexes(f, t, Len(t))
  BY <1>0, LexesExists
<1>2. Lexes(h, t, Len(t))
  BY <1>1
<1>3. Lexed(t) = h
  BY DEF Lexed, Lexes
<1> HIDE DEF h
<1>4. \A i \in 1..Len(t) : Lexed(t)[i] = IF i = 1 THEN "out" ELSE After(Lexed(t)[i - 1], t[i - 1])
  BY <1>2, <1>3 DEF Lexes
<1>5. \A i \in 1..Len(t) : Lexed(t)[i] = StateAt(t, i)
  BY <1>0, <1>4 DEF StateAt
<1>6. ASSUME NEW i \in 1..Len(t) PROVE StateAt(t, i + 1) = After(StateAt(t, i), t[i])
  <2>1. i + 1 # 1 /\ (i + 1) - 1 = i
    OBVIOUS
  <2>2. StateAt(t, i + 1) = After(Lexed(t)[i], t[i])
    <3>1. CASE i + 1 <= Len(t)
      <4>1. i + 1 \in 1..Len(t)
        BY <1>0, <3>1
      <4>2. Lexed(t)[i + 1] = After(Lexed(t)[i], t[i])
        BY <1>4, <2>1, <4>1
      <4> QED BY <2>1, <3>1, <4>2 DEF StateAt
    <3>2. CASE ~(i + 1 <= Len(t))
      BY <2>1, <3>2 DEF StateAt
    <3> QED BY <3>1, <3>2
  <2> QED BY <1>5, <2>2
<1> QED BY <1>5, <1>6 DEF StateAt

\* A piece takes the lexer from one state to another.
Leads(s, x, r) ==
  \/ Len(x) = 0 /\ r = s
  \/ Len(x) = 1 /\ r = After(s, x[1])
  \/ Len(x) = 3 /\ r = After(After(After(s, x[1]), x[2]), x[3])

\* Pieces that lead where the characters lead that they stand for.
LEMMA PieceStates ==
  ASSUME NEW S, NEW t \in Seq(S), NEW p \in Seq(Seq(S)), Len(p) = Len(t),
         \A i \in 1..Len(t) : Leads(StateAt(t, i), p[i], StateAt(t, i + 1))
  PROVE  \A i \in 1..(Len(t) + 1) : StateAt(FlattenSeq(p), Start(p, i) + 1) = StateAt(t, i)
<1> DEFINE u == FlattenSeq(p)
<1>0. Len(t) \in Nat /\ u \in Seq(S)
  BY LenProperties, FlattenType
<1>1. \A j \in 1..Len(u) : StateAt(u, j + 1) = After(StateAt(u, j), u[j])
  BY <1>0, States
<1> DEFINE G == {n \in 0..Len(t) : StateAt(u, Start(p, n + 1) + 1) = StateAt(t, n + 1)}
<1>2. 0 \in G
  <2>1. Start(p, 0 + 1) + 1 = 1 /\ 0 \in 0..Len(t) /\ 0 + 1 = 1
    BY <1>0, StartStep
  <2>2. StateAt(u, 1) = "out" /\ StateAt(t, 1) = "out"
    BY <1>0, States
  <2> HIDE DEF u
  <2> QED BY <2>1, <2>2
<1>3. ASSUME NEW n \in 0..Len(t), n \in G, n # Len(t) PROVE n + 1 \in G
  <2> DEFINE a == Start(p, n + 1)
             x == p[n + 1]
             s == StateAt(t, n + 1)
             r == StateAt(t, (n + 1) + 1)
  <2>1. n + 1 \in 1..Len(t) /\ n + 1 \in 0..Len(t) /\ n + 1 \in 1..Len(p)
        /\ n + 1 \in 1..(Len(p) + 1)
    BY <1>0, <1>3
  <2>2. a \in Nat /\ Len(x) \in Nat /\ Start(p, (n + 1) + 1) = a + Len(x)
    BY <2>1, StartStep
  <2>3. \A k \in 1..Len(x) : a + k \in 1..Len(u) /\ u[a + k] = x[k]
    BY <2>1, PieceAt
  <2>4. StateAt(u, a + 1) = s
    BY <1>3
  <2>5. Leads(s, x, r)
    BY <2>1
  <2> HIDE DEF a, x, s, r, u
  <2>6. StateAt(u, (a + Len(x)) + 1) = r
    <3>1. CASE Len(x) = 0
      <4>1. r = s /\ (a + Len(x)) + 1 = a + 1
        BY <2>2, <2>5, <3>1 DEF Leads
      <4> QED BY <2>4, <4>1
    <3>2. CASE Len(x) = 1
      <4>1. r = After(s, x[1]) /\ a + Len(x) = a + 1
        BY <2>2, <2>5, <3>2 DEF Leads
      <4>2. a + 1 \in 1..Len(u) /\ u[a + 1] = x[1]
        BY <2>3, <3>2
      <4>3. StateAt(u, (a + 1) + 1) = After(s, x[1])
        BY <1>1, <2>4, <4>2
      <4> QED BY <4>1, <4>3
    <3>3. CASE Len(x) = 3
      <4>1. r = After(After(After(s, x[1]), x[2]), x[3])
        BY <2>5, <3>3 DEF Leads
      <4>2. /\ a + 1 \in 1..Len(u) /\ u[a + 1] = x[1] /\ a + 2 \in 1..Len(u) /\ u[a + 2] = x[2]
            /\ a + 3 \in 1..Len(u) /\ u[a + 3] = x[3]
        BY <2>3, <3>3
      <4>3. (a + 1) + 1 = a + 2 /\ (a + 2) + 1 = a + 3
        BY <2>2
      <4>4. StateAt(u, a + 2) = After(s, x[1])
        BY <1>1, <2>4, <4>2, <4>3
      <4>5. StateAt(u, a + 3) = After(After(s, x[1]), x[2])
        BY <1>1, <4>2, <4>3, <4>4
      <4>6. StateAt(u, (a + 3) + 1) = r
        BY <1>1, <4>1, <4>2, <4>5
      <4> QED BY <3>3, <4>6
    <3> QED BY <2>5, <3>1, <3>2, <3>3 DEF Leads
  <2>7. StateAt(u, Start(p, (n + 1) + 1) + 1) = StateAt(t, (n + 1) + 1)
    BY <2>2, <2>6 DEF r
  <2> QED BY <2>1, <2>7 DEF u
<1>4. \A n \in 0..Len(t) : n \in G
  <2> HIDE DEF G
  <2> QED BY <1>0, <1>2, <1>3, UpTo
<1>5. ASSUME NEW i \in 1..(Len(t) + 1) PROVE StateAt(u, Start(p, i) + 1) = StateAt(t, i)
  <2>1. i - 1 \in 0..Len(t) /\ (i - 1) + 1 = i
    BY <1>0
  <2>2. StateAt(u, Start(p, (i - 1) + 1) + 1) = StateAt(t, (i - 1) + 1)
    BY <1>4, <2>1
  <2> QED BY <2>1, <2>2
<1> QED BY <1>5

\* Pieces of one character each.
LEMMA Singles ==
  ASSUME NEW S, NEW p \in Seq(Seq(S)), \A i \in 1..Len(p) : Len(p[i]) = 1
  PROVE  /\ \A i \in 1..(Len(p) + 1) : Start(p, i) = i - 1
         /\ FlattenSeq(p) \in Seq(S) /\ Len(FlattenSeq(p)) = Len(p)
         /\ \A i \in 1..Len(p) : FlattenSeq(p)[i] = p[i][1]
<1>0. Len(p) \in Nat /\ FlattenSeq(p) \in Seq(S)
  BY LenProperties, FlattenType
<1> DEFINE G == {n \in 0..Len(p) : Start(p, n + 1) = n}
<1>1. 0 \in G
  BY <1>0, StartStep
<1>2. ASSUME NEW n \in 0..Len(p), n \in G, n # Len(p) PROVE n + 1 \in G
  <2>1. n + 1 \in 1..Len(p) /\ n + 1 \in 0..Len(p)
    BY <1>0, <1>2
  <2>2. Start(p, (n + 1) + 1) = Start(p, n + 1) + Len(p[n + 1])
    BY <2>1, StartStep
  <2> QED BY <1>2, <2>1, <2>2
<1>3. \A n \in 0..Len(p) : n \in G
  <2> HIDE DEF G
  <2> QED BY <1>0, <1>1, <1>2, UpTo
<1>4. ASSUME NEW i \in 1..(Len(p) + 1) PROVE Start(p, i) = i - 1
  <2>1. i - 1 \in 0..Len(p) /\ (i - 1) + 1 = i
    BY <1>0
  <2> QED BY <1>3, <2>1
<1>5. Len(FlattenSeq(p)) = Len(p)
  <2>1. Start(p, Len(p) + 1) = Len(FlattenSeq(p)) /\ Len(p) + 1 \in 1..(Len(p) + 1)
    BY <1>0, StartStep
  <2>2. Start(p, Len(p) + 1) = (Len(p) + 1) - 1 /\ (Len(p) + 1) - 1 = Len(p)
    BY <1>0, <1>4, <2>1
  <2> QED BY ONLY <2>1, <2>2
<1>6. ASSUME NEW i \in 1..Len(p) PROVE FlattenSeq(p)[i] = p[i][1]
  <2>0. i \in Nat /\ i \in 1..(Len(p) + 1) /\ (i - 1) + 1 = i
    BY <1>0
  <2>1. 1 \in 1..Len(p[i])
    <3>1. Len(p[i]) = 1
      OBVIOUS
    <3> HIDE DEF G
    <3> QED BY <3>1
  <2>2. FlattenSeq(p)[Start(p, i) + 1] = p[i][1]
    BY <2>1, PieceAt
  <2> QED BY <1>4, <2>0, <2>2
<1> QED BY <1>0, <1>4, <1>5, <1>6

-----------------------------------------------------------------------------
(* Neighbours                                                              *)

\* Names for some characters, which most proofs need not look into.
Quote == "\""
NoChar == ""
Opener == {"{", ","}

\* Nothing but white space between two characters.
Between(t, h, i) == h < i /\ \A j \in (h + 1)..(i - 1) : t[j] = "nl"

\* A comma to drop, and a key to quote, by the neighbours that they need.
Drops(t, i) ==
  /\ t[i] = "," /\ StateAt(t, i) = "out"
  /\ \E k \in (i + 1)..Len(t) : t[k] = "}" /\ Between(t, i, k)
IsKey(t, i) ==
  /\ t[i] \in Word /\ StateAt(t, i) = "out"
  /\ \E h \in 1..(i - 1) : t[h] \in Opener /\ StateAt(t, h) = "out" /\ Between(t, h, i)
  /\ \E k \in (i + 1)..Len(t) : t[k] = ":" /\ Between(t, i, k)

\* Min picks the least element of a set that is not empty.
LEMMA LeastMin ==
  ASSUME NEW S, S \subseteq Nat, S # {}
  PROVE  Min(S) \in S /\ \A y \in S : Min(S) <= y
<1>1. \E x \in S : \A y \in S : x <= y
  BY LeastNat
<1> QED BY <1>1 DEF Min

\* Following, as what lies between.
LEMMA FollowingIs ==
  ASSUME NEW t \in Seq(Glyph), NEW i \in 1..Len(t), NEW c \in Glyph \ {"nl"}
  PROVE  Following(t, i) = c <=> \E k \in (i + 1)..Len(t) : t[k] = c /\ Between(t, i, k)
<1> DEFINE after == {j \in (i + 1)..Len(t) : t[j] # "nl"}
<1>0. Len(t) \in Nat /\ i \in Nat /\ c # NoChar /\ c # "nl"
  <2>1. Len(t) \in Nat
    BY LenProperties
  <2>2. i \in Nat
    BY <2>1
  <2>3. c # NoChar /\ c # "nl"
    BY DEF Glyph, Char, Word, NoChar
  <2> QED BY <2>1, <2>2, <2>3
<1>1. Following(t, i) = IF after = {} THEN NoChar ELSE t[Min(after)]
  BY DEF Following, NoChar
<1>2. after # {} => Min(after) \in after /\ \A y \in after : Min(after) <= y
  <2>1. after \subseteq Nat
    BY <1>0
  <2> HIDE DEF after
  <2> QED BY <2>1, LeastMin
<1>3. ASSUME Following(t, i) = c
      PROVE  \E k \in (i + 1)..Len(t) : t[k] = c /\ Between(t, i, k)
  <2> DEFINE m == Min(after)
  <2>1. after # {} /\ t[m] = c /\ m \in after /\ \A y \in after : m <= y
    BY <1>0, <1>1, <1>2, <1>3
  <2> HIDE DEF m
  <2>2. ASSUME NEW j \in (i + 1)..(m - 1) PROVE t[j] = "nl"
    <3>1. j \in (i + 1)..Len(t) /\ ~(m <= j)
      BY <1>0, <2>1
    <3> QED BY <2>1, <3>1
  <2> QED BY <1>0, <2>1, <2>2 DEF Between
<1>4. ASSUME NEW k \in (i + 1)..Len(t), t[k] = c, Between(t, i, k)
      PROVE  Following(t, i) = c
  <2> DEFINE m == Min(after)
  <2>1. k \in after
    BY <1>0, <1>4
  <2>2. m \in after /\ m <= k
    BY <1>2, <2>1
  <2> HIDE DEF m
  <2>3. ~(m < k)
    <3>1. m < k => m \in (i + 1)..(k - 1)
      BY <1>0, <2>2
    <3> QED BY <1>4, <2>2, <3>1 DEF Between
  <2>4. m = k
    BY <1>0, <2>2, <2>3
  <2> QED BY <1>1, <1>4, <2>1, <2>4 DEF m
<1> QED BY <1>3, <1>4

\* Before, likewise.
LEMMA BeforeIs ==
  ASSUME NEW t \in Seq(Glyph), NEW i \in 1..Len(t), NEW h \in 1..(i - 1)
  PROVE  Before(t, i) = h <=> t[h] # "nl" /\ Between(t, h, i)
<1> DEFINE before == {j \in 1..(i - 1) : t[j] # "nl"}
<1>0. Len(t) \in Nat /\ i \in Nat /\ i - 1 \in Nat /\ h \in Nat
  <2>1. Len(t) \in Nat
    BY LenProperties
  <2>2. i \in Nat /\ i - 1 \in Nat
    BY <2>1
  <2> QED BY <2>1, <2>2
<1>1. Before(t, i) = IF before = {} THEN 0 ELSE Max(before)
  BY DEF Before
<1>2. before # {} => Max(before) \in before /\ \A y \in before : y <= Max(before)
  <2>1. before \subseteq 1..(i - 1)
    OBVIOUS
  <2> HIDE DEF before
  <2> QED BY <1>0, <2>1, GreatestNat
<1>3. ASSUME Before(t, i) = h PROVE t[h] # "nl" /\ Between(t, h, i)
  <2>1. h \in before /\ \A y \in before : y <= h
    BY <1>1, <1>2, <1>3
  <2>2. ASSUME NEW j \in (h + 1)..(i - 1) PROVE t[j] = "nl"
    <3>1. j \in 1..(i - 1) /\ ~(j <= h)
      BY <1>0
    <3> QED BY <2>1, <3>1
  <2> QED BY <1>0, <2>1, <2>2 DEF Between
<1>4. ASSUME t[h] # "nl", Between(t, h, i) PROVE Before(t, i) = h
  <2> DEFINE m == Max(before)
  <2>1. h \in before
    BY <1>4
  <2>2. m \in before /\ h <= m
    BY <1>2, <2>1
  <2> HIDE DEF m
  <2>3. ~(h < m)
    <3>1. h < m => m \in (h + 1)..(i - 1)
      BY <1>0, <2>2
    <3> QED BY <1>4, <2>2, <3>1 DEF Between
  <2>4. m = h
    BY <1>0, <2>2, <2>3
  <2> QED BY <1>1, <2>1, <2>4 DEF m
<1> QED BY <1>3, <1>4

\* Drops is the guard of RemoveTrailingCommas.
LEMMA DropsIs ==
  ASSUME NEW t \in Seq(Glyph), NEW i \in 1..Len(t)
  PROVE  Drops(t, i) <=> Lexed(t)[i] = "out" /\ t[i] = "," /\ Following(t, i) = "}"
<1>1. "}" \in Glyph \ {"nl"}
  BY DEF Glyph, Char
<1>2. Following(t, i) = "}" <=> \E k \in (i + 1)..Len(t) : t[k] = "}" /\ Between(t, i, k)
  BY <1>1, FollowingIs
<1>3. Lexed(t)[i] = StateAt(t, i)
  BY States
<1> QED BY <1>2, <1>3 DEF Drops

\* IsKey is the guard of QuoteUnquotedKeys.
LEMMA IsKeyIs ==
  ASSUME NEW t \in Seq(Glyph), NEW i \in 1..Len(t)
  PROVE  IsKey(t, i) <=> BareKey(t, i)
<1>0. Len(t) \in Nat /\ \A j \in 1..Len(t) : Lexed(t)[j] = StateAt(t, j)
  BY LenProperties, States
<1>1. ":" \in Glyph \ {"nl"}
  BY DEF Glyph, Char
<1>2. Following(t, i) = ":" <=> \E k \in (i + 1)..Len(t) : t[k] = ":" /\ Between(t, i, k)
  BY <1>1, FollowingIs
<1>3. Before(t, i) \in 0..(i - 1)
  <2> DEFINE before == {j \in 1..(i - 1) : t[j] # "nl"}
  <2>1. before \subseteq 1..(i - 1) /\ i - 1 \in Nat
    BY <1>0
  <2>2. before # {} => Max(before) \in before
    <3> HIDE DEF before
    <3> QED BY <2>1, GreatestNat
  <2>3. Before(t, i) = IF before = {} THEN 0 ELSE Max(before)
    BY DEF Before
  <2> HIDE DEF before
  <2>4. CASE before = {}
    <3>1. Before(t, i) = 0
      BY <2>3, <2>4
    <3>2. 0 \in 0..(i - 1)
      BY <2>1
    <3> QED BY <3>1, <3>2
  <2>5. CASE before # {}
    <3>1. Before(t, i) \in 1..(i - 1)
      BY <2>1, <2>2, <2>3, <2>5
    <3> QED BY <2>1, <3>1
  <2> QED BY <2>4, <2>5
<1>4. (\E h \in 1..(i - 1) : t[h] \in Opener /\ StateAt(t, h) = "out" /\ Between(t, h, i))
        <=> /\ Before(t, i) # 0 /\ t[Before(t, i)] \in Opener
            /\ StateAt(t, Before(t, i)) = "out"
  <2>1. ASSUME NEW h \in 1..(i - 1), t[h] \in Opener, StateAt(t, h) = "out", Between(t, h, i)
        PROVE  /\ Before(t, i) # 0 /\ t[Before(t, i)] \in Opener
               /\ StateAt(t, Before(t, i)) = "out"
    <3>0. t[h] # "nl"
      BY <2>1 DEF Opener
    <3>1. Before(t, i) = h /\ h # 0
      BY <2>1, <3>0, BeforeIs
    <3> QED BY <2>1, <3>1
  <2>2. ASSUME Before(t, i) # 0, t[Before(t, i)] \in Opener, StateAt(t, Before(t, i)) = "out"
        PROVE  \E h \in 1..(i - 1) :
                 t[h] \in Opener /\ StateAt(t, h) = "out" /\ Between(t, h, i)
    <3> DEFINE h == Before(t, i)
    <3>1. h \in 1..(i - 1)
      <4>1. i - 1 \in Nat
        BY <1>0
      <4>2. h \in 0..(i - 1) /\ h # 0
        BY <1>3, <2>2
      <4> HIDE DEF h
      <4> QED BY <4>1, <4>2
    <3>2. t[h] \in Opener /\ StateAt(t, h) = "out"
      BY <2>2
    <3>3. Between(t, h, i)
      BY <3>1, BeforeIs
    <3> HIDE DEF h
    <3> QED BY <3>1, <3>2, <3>3
  <2> QED BY <2>1, <2>2
<1>5. Outside(t, i) <=> StateAt(t, i) = "out"
  BY <1>0 DEF Outside
<1>6. Before(t, i) # 0 => (Outside(t, Before(t, i)) <=> StateAt(t, Before(t, i)) = "out")
  <2>1. Before(t, i) # 0 => Before(t, i) \in 1..Len(t)
    BY <1>0, <1>3
  <2> QED BY <1>0, <2>1 DEF Outside
<1> QED BY <1>2, <1>4, <1>5, <1>6 DEF IsKey, BareKey, Opener

\* White space behind a character outside strings is outside, unless the character
\* opens one.
LEMMA OutRun ==
  ASSUME NEW t \in Seq(Glyph), NEW h \in 1..Len(t), NEW i \in 1..Len(t), Between(t, h, i),
         StateAt(t, h) = "out", t[h] # Quote
  PROVE  \A j \in h..i : StateAt(t, j) = "out"
<1>0. Len(t) \in Nat /\ i \in Nat /\ h \in Nat /\ h < i
  <2>1. Len(t) \in Nat
    BY LenProperties
  <2>2. i \in Nat /\ h \in Nat
    BY <2>1
  <2> QED BY <2>1, <2>2 DEF Between
<1> DEFINE n == i - h
           G == {m \in 0..n : StateAt(t, h + m) = "out"}
<1>1. 0 \in G
  BY <1>0
<1>2. ASSUME NEW m \in 0..n, m \in G, m # n PROVE m + 1 \in G
  <2>1. h + m \in 1..Len(t) /\ (h + m) + 1 = h + (m + 1) /\ m + 1 \in 0..n
    BY <1>0, <1>2
  <2>2. t[h + m] # Quote
    <3>1. CASE m = 0
      BY <3>1
    <3>2. CASE m # 0
      <4>1. h + m \in (h + 1)..(i - 1)
        BY <1>0, <1>2, <3>2
      <4>2. t[h + m] = "nl"
        BY <4>1 DEF Between
      <4>3. "nl" # Quote
        BY DEF Quote
      <4> QED BY <4>2, <4>3
    <3> QED BY <3>1, <3>2
  <2>3. StateAt(t, h + (m + 1)) = After("out", t[h + m])
    BY <1>2, <2>1, States
  <2>4. After("out", t[h + m]) = "out"
    BY <2>2 DEF After, Quote
  <2> QED BY <2>1, <2>3, <2>4
<1>3. \A m \in 0..n : m \in G
  <2>1. n \in Nat
    BY <1>0
  <2> HIDE DEF G, n
  <2> QED BY <1>1, <1>2, <2>1, UpTo
<1>4. ASSUME NEW j \in h..i PROVE StateAt(t, j) = "out"
  <2>1. j - h \in 0..n /\ h + (j - h) = j
    BY <1>0
  <2>2. j - h \in G
    BY <1>3, <2>1
  <2> QED BY <2>1, <2>2
<1> QED BY <1>4

-----------------------------------------------------------------------------
(* The four repairs                                                        *)

Break == "\\n"
Comma == ","
CloseBrace == "}"
Colon == ":"

\* Those characters are different ones.
LEMMA Literals ==
  /\ Quote \in Glyph /\ Break \in Glyph /\ Comma \in Glyph /\ CloseBrace \in Glyph
  /\ Colon \in Glyph /\ "nl" \in Glyph /\ Word \subseteq Glyph /\ Opener \subseteq Glyph
  /\ Break \notin Char /\ Char \subseteq Glyph
  /\ "nl" \notin {Quote, Break, Comma, CloseBrace, Colon}
  /\ "nl" \notin Word /\ "nl" \notin Opener
  /\ Quote \notin Word /\ Quote \notin Opener /\ Quote \notin {Break, Comma, CloseBrace, Colon}
  /\ Comma \notin Word /\ Comma \notin {Break, CloseBrace, Colon} /\ Comma \in Opener
  /\ CloseBrace \notin Word /\ CloseBrace \notin Opener /\ CloseBrace \notin {Break, Colon}
  /\ Break \notin Word /\ Break \notin Opener /\ Colon \notin Word /\ Colon # Break
<1>1. /\ Quote \in Glyph /\ Break \in Glyph /\ Comma \in Glyph /\ CloseBrace \in Glyph
      /\ Colon \in Glyph /\ "nl" \in Glyph
  BY DEF Glyph, Char, Word, Quote, Break, Comma, CloseBrace, Colon
<1>2. Word \subseteq Glyph /\ Opener \subseteq Glyph /\ Char \subseteq Glyph
  BY DEF Glyph, Char, Word, Opener
<1>3. Break \notin Char
  BY DEF Char, Word, Break
<1>4. /\ "nl" \notin {Quote, Break, Comma, CloseBrace, Colon}
      /\ "nl" \notin Word /\ "nl" \notin Opener
      /\ Quote \notin Word /\ Quote \notin Opener /\ Quote \notin {Break, Comma, CloseBrace, Colon}
  BY DEF Word, Opener, Quote, Break, Comma, CloseBrace, Colon
<1>5. /\ Comma \notin Word /\ Comma \notin {Break, CloseBrace, Colon} /\ Comma \in Opener
      /\ CloseBrace \notin Word /\ CloseBrace \notin Opener /\ CloseBrace \notin {Break, Colon}
      /\ Break \notin Word /\ Break \notin Opener /\ Colon \notin Word /\ Colon # Break
  BY DEF Word, Opener, Break, Comma, CloseBrace, Colon
<1> QED BY <1>1, <1>2, <1>3, <1>4, <1>5

\* The steps of the lexer that the repairs rely on.
LEMMA AfterIs ==
  /\ After("out", Quote) = "in" /\ After("in", Quote) = "out"
  /\ \A c : c # Quote => After("out", c) = "out"
  /\ \A c \in Word \cup {"nl", Break} : After("in", c) = "in"
<1>1. After("out", Quote) = "in" /\ After("in", Quote) = "out"
  BY DEF After, Quote
<1>2. ASSUME NEW c, c # Quote PROVE After("out", c) = "out"
  BY <1>2 DEF After, Quote
<1>3. ASSUME NEW c \in Word \cup {"nl", Break} PROVE After("in", c) = "in"
  <2>1. c # "\\" /\ c # "\""
    BY DEF Word, Break
  <2> QED BY <2>1 DEF After
<1> QED BY <1>1, <1>2, <1>3

\* What a character of the text is after the first repair.
Escaped(t, i) == IF StateAt(t, i) = "in" /\ t[i] = "nl" THEN Break ELSE t[i]

\* The first repair keeps the length and the states of the lexer.
LEMMA EscapeIs ==
  ASSUME NEW t \in Seq(Char)
  PROVE  /\ EscapeControlChars(t) \in Seq(Glyph) /\ Len(EscapeControlChars(t)) = Len(t)
         /\ \A i \in 1..Len(t) : EscapeControlChars(t)[i] = Escaped(t, i)
         /\ \A i \in 1..(Len(t) + 1) : StateAt(EscapeControlChars(t), i) = StateAt(t, i)
<1> DEFINE n == Len(t)
           p == [i \in 1..n |-> <<Escaped(t, i)>>]
<1>0. /\ n \in Nat /\ DOMAIN t = 1..n
      /\ \A i \in 1..n : Lexed(t)[i] = StateAt(t, i)
      /\ \A i \in 1..n : t[i] \in Glyph
      /\ \A i \in 1..n : StateAt(t, i + 1) = After(StateAt(t, i), t[i])
  <2>1. \A i \in 1..n : t[i] \in Char
    BY ElementOfSeq
  <2> QED BY <2>1, LenProperties, States, Literals
<1>1. EscapeControlChars(t) = FlattenSeq(p)
  <2>1. \A i \in 1..n : Lexed(t)[i] = "in" /\ t[i] = "nl" <=> StateAt(t, i) = "in" /\ t[i] = "nl"
    BY <1>0
  <2>2. [i \in DOMAIN t |-> IF Lexed(t)[i] = "in" /\ t[i] = "nl" THEN <<"\\n">> ELSE <<t[i]>>] = p
    <3>1. \A i \in 1..n : (IF Lexed(t)[i] = "in" /\ t[i] = "nl" THEN <<"\\n">> ELSE <<t[i]>>)
                            = <<Escaped(t, i)>>
      BY <1>0 DEF Escaped, Break
    <3>2. DOMAIN t = 1..n
      BY <1>0
    <3> QED BY <3>1, <3>2
  <2> QED BY <2>2 DEF EscapeControlChars, Edited
<1>2. \A i \in 1..n : Escaped(t, i) \in Glyph
  BY <1>0, Literals DEF Escaped
<1>3. p \in Seq(Seq(Glyph)) /\ Len(p) = n
  BY <1>0, <1>2
<1>4. \A i \in 1..n : p[i] = <<Escaped(t, i)>> /\ Len(p[i]) = 1 /\ p[i][1] = Escaped(t, i)
  OBVIOUS
<1> HIDE DEF p
<1>5. /\ \A i \in 1..(n + 1) : Start(p, i) = i - 1
      /\ FlattenSeq(p) \in Seq(Glyph) /\ Len(FlattenSeq(p)) = n
      /\ \A i \in 1..n : FlattenSeq(p)[i] = p[i][1]
  BY <1>3, <1>4, Singles
<1>6. ASSUME NEW i \in 1..n PROVE Leads(StateAt(t, i), p[i], StateAt(t, i + 1))
  <2>1. StateAt(t, i + 1) = After(StateAt(t, i), p[i][1])
    <3>1. CASE StateAt(t, i) = "in" /\ t[i] = "nl"
      BY <1>0, <1>4, <3>1, AfterIs DEF Escaped
    <3>2. CASE ~(StateAt(t, i) = "in" /\ t[i] = "nl")
      BY <1>0, <1>4, <3>2 DEF Escaped
    <3> QED BY <3>1, <3>2
  <2> QED BY <1>4, <2>1 DEF Leads
<1>7. ASSUME NEW i \in 1..(n + 1) PROVE StateAt(FlattenSeq(p), i) = StateAt(t, i)
  <2>1. \A k \in 1..(n + 1) : StateAt(FlattenSeq(p), Start(p, k) + 1) = StateAt(t, k)
    <3>1. t \in Seq(Glyph)
      BY <1>0
    <3> QED BY <1>3, <1>6, <3>1, PieceStates
  <2>2. Start(p, i) + 1 = i
    BY <1>0, <1>5
  <2> QED BY <2>1, <2>2
<1> QED BY <1>1, <1>4, <1>5, <1>7

\* The first repair leaves the neighbours that the others look for.
LEMMA EscapeKeeps ==
  ASSUME NEW t \in Seq(Char), NEW v \in Seq(Glyph), v = EscapeControlChars(t)
  PROVE  \A i \in 1..Len(t) : (Drops(v, i) <=> Drops(t, i)) /\ (IsKey(v, i) <=> IsKey(t, i))
<1>0. /\ Len(v) = Len(t) /\ Len(t) \in Nat /\ t \in Seq(Glyph)
      /\ \A i \in 1..Len(t) : v[i] = Escaped(t, i) /\ StateAt(v, i) = StateAt(t, i)
      /\ \A i \in 1..Len(t) : t[i] \in Char /\ t[i] \in Glyph
  <2>1. t \in Seq(Glyph) /\ \A i \in 1..Len(t) : t[i] \in Char /\ t[i] \in Glyph
    BY ElementOfSeq, Literals
  <2>2. Len(t) \in Nat
    BY LenProperties
  <2>3. /\ Len(v) = Len(t)
        /\ \A i \in 1..Len(t) : v[i] = Escaped(t, i)
        /\ \A i \in 1..(Len(t) + 1) : StateAt(v, i) = StateAt(t, i)
    BY EscapeIs
  <2>4. \A i \in 1..Len(t) : i \in 1..(Len(t) + 1)
    BY <2>2
  <2> QED BY <2>1, <2>2, <2>3, <2>4
<1>1. ASSUME NEW i \in 1..Len(t), NEW c \in Glyph, c # "nl", c # Break PROVE v[i] = c <=> t[i] = c
  BY <1>0, <1>1, Literals DEF Escaped
<1>2. ASSUME NEW i \in 1..Len(t) PROVE v[i] = "nl" => t[i] = "nl"
  BY <1>0, Literals DEF Escaped
<1>3. ASSUME NEW h \in 1..Len(t), NEW i \in 1..Len(t), StateAt(t, h) = "out", t[h] # Quote
      PROVE  Between(v, h, i) <=> Between(t, h, i)
  <2>1. \A j \in (h + 1)..(i - 1) : j \in 1..Len(t) /\ j \in h..i
    <3>1. h \in Nat /\ i \in Nat
      BY <1>0
    <3> QED BY <1>0, <3>1
  <2>2. Between(v, h, i) => Between(t, h, i)
    BY <1>2, <2>1 DEF Between
  <2>3. ASSUME Between(t, h, i) PROVE Between(v, h, i)
    <3>1. \A j \in h..i : StateAt(t, j) = "out"
      BY <1>0, <1>3, <2>3, OutRun
    <3>2. ASSUME NEW j \in (h + 1)..(i - 1) PROVE v[j] = "nl"
      <4>1. t[j] = "nl" /\ StateAt(t, j) = "out"
        BY <2>1, <2>3, <3>1 DEF Between
      <4> QED BY <1>0, <2>1, <4>1 DEF Escaped
    <3> QED BY <2>3, <3>2 DEF Between
  <2> QED BY <2>2, <2>3
<1>4. ASSUME NEW i \in 1..Len(t) PROVE Drops(v, i) <=> Drops(t, i)
  <2>0. i \in Nat
    BY <1>0
  <2>1. v[i] = Comma <=> t[i] = Comma
    BY <1>1, Literals
  <2>2. \A k \in (i + 1)..Len(t) : k \in 1..Len(t)
    BY <1>0, <2>0
  <2>3. \A k \in (i + 1)..Len(t) : v[k] = CloseBrace <=> t[k] = CloseBrace
    BY <1>1, <2>2, Literals
  <2>4. ASSUME t[i] = Comma, StateAt(t, i) = "out"
        PROVE  \A k \in (i + 1)..Len(t) : Between(v, i, k) <=> Between(t, i, k)
    BY <1>3, <2>2, <2>4, Literals
  <2>5. StateAt(v, i) = StateAt(t, i)
    BY <1>0
  <2>6. \A x \in {v, t} : Drops(x, i) <=>
          /\ x[i] = Comma /\ StateAt(x, i) = "out"
          /\ \E k \in (i + 1)..Len(t) : x[k] = CloseBrace /\ Between(x, i, k)
    BY <1>0 DEF Drops, Comma, CloseBrace
  <2> QED BY <2>1, <2>3, <2>4, <2>5, <2>6
<1>5. ASSUME NEW i \in 1..Len(t) PROVE IsKey(v, i) <=> IsKey(t, i)
  <2>0. i \in Nat
    BY <1>0
  <2>1. v[i] \in Word <=> t[i] \in Word
    BY <1>0, Literals DEF Escaped
  <2>2. /\ \A k \in (i + 1)..Len(t) : k \in 1..Len(t)
        /\ \A h \in 1..(i - 1) : h \in 1..Len(t)
    BY <1>0, <2>0
  <2>3. \A k \in (i + 1)..Len(t) : v[k] = Colon <=> t[k] = Colon
    BY <1>1, <2>2, Literals
  <2>4. ASSUME t[i] \in Word, StateAt(t, i) = "out"
        PROVE  \A k \in (i + 1)..Len(t) : Between(v, i, k) <=> Between(t, i, k)
    BY <1>3, <2>2, <2>4, Literals
  <2>5. StateAt(v, i) = StateAt(t, i) /\ \A h \in 1..(i - 1) : StateAt(v, h) = StateAt(t, h)
    BY <1>0, <2>2
  <2>6. \A h \in 1..(i - 1) : v[h] \in Opener <=> t[h] \in Opener
    BY <1>0, <2>2, Literals DEF Escaped
  <2>7. ASSUME NEW h \in 1..(i - 1), t[h] \in Opener, StateAt(t, h) = "out"
        PROVE  Between(v, h, i) <=> Between(t, h, i)
    BY <1>3, <2>2, <2>7, Literals
  <2>8. \A x \in {v, t} : IsKey(x, i) <=>
          /\ x[i] \in Word /\ StateAt(x, i) = "out"
          /\ \E h \in 1..(i - 1) : x[h] \in Opener /\ StateAt(x, h) = "out" /\ Between(x, h, i)
          /\ \E k \in (i + 1)..Len(t) : x[k] = Colon /\ Between(x, i, k)
    BY <1>0 DEF IsKey, Colon
  <2>9. IsKey(v, i) => IsKey(t, i)
    BY <2>1, <2>3, <2>4, <2>5, <2>6, <2>7, <2>8
  <2>10. IsKey(t, i) => IsKey(v, i)
    BY <2>1, <2>3, <2>4, <2>5, <2>6, <2>7, <2>8
  <2> QED BY <2>9, <2>10
<1> QED BY <1>4, <1>5

\* What the second repair leaves of a text, and where a character comes to stand.
CommasDropped(v) == [i \in 1..Len(v) |-> IF Drops(v, i) THEN <<>> ELSE <<v[i]>>]
At(v, i) == Start(CommasDropped(v), i) + 1

\* The second repair leaves pieces of one character or none.
LEMMA CommasDroppedIs ==
  ASSUME NEW v \in Seq(Glyph)
  PROVE  /\ RemoveTrailingCommas(v) = FlattenSeq(CommasDropped(v))
         /\ CommasDropped(v) \in Seq(Seq(Glyph)) /\ Len(CommasDropped(v)) = Len(v)
         /\ FlattenSeq(CommasDropped(v)) \in Seq(Glyph) /\ Len(FlattenSeq(CommasDropped(v))) \in Nat
         /\ \A i \in 1..Len(v) :
              Drops(v, i) => CommasDropped(v)[i] = <<>> /\ Len(CommasDropped(v)[i]) = 0
         /\ \A i \in 1..Len(v) :
              ~Drops(v, i) => /\ CommasDropped(v)[i] = <<v[i]>>
                              /\ Len(CommasDropped(v)[i]) = 1 /\ CommasDropped(v)[i][1] = v[i]
<1> DEFINE p == CommasDropped(v)
<1>0. Len(v) \in Nat /\ DOMAIN v = 1..Len(v) /\ \A i \in 1..Len(v) : v[i] \in Glyph
  BY LenProperties, ElementOfSeq
<1>1. RemoveTrailingCommas(v) = FlattenSeq(p)
  <2>1. \A i \in 1..Len(v) :
           Drops(v, i) <=> Lexed(v)[i] = "out" /\ v[i] = "," /\ Following(v, i) = "}"
    BY DropsIs
  <2>2. [i \in DOMAIN v |-> IF Lexed(v)[i] = "out" /\ v[i] = "," /\ Following(v, i) = "}"
                            THEN <<>> ELSE <<v[i]>>] = p
    <3>1. \A i \in 1..Len(v) : (IF Lexed(v)[i] = "out" /\ v[i] = "," /\ Following(v, i) = "}"
                                THEN <<>> ELSE <<v[i]>>)
                             = (IF Drops(v, i) THEN <<>> ELSE <<v[i]>>)
      BY <2>1
    <3>2. DOMAIN v = 1..Len(v)
      BY <1>0
    <3> QED BY <3>1, <3>2 DEF CommasDropped
  <2> QED BY <2>2 DEF RemoveTrailingCommas, Edited
<1>2. p \in Seq(Seq(Glyph)) /\ Len(p) = Len(v)
  <2>1. \A i \in 1..Len(v) : (IF Drops(v, i) THEN <<>> ELSE <<v[i]>>) \in Seq(Glyph)
    <3>1. ASSUME NEW i \in 1..Len(v)
          PROVE  (IF Drops(v, i) THEN <<>> ELSE <<v[i]>>) \in Seq(Glyph)
      <4>1. <<v[i]>> \in Seq(Glyph) /\ <<>> \in Seq(Glyph)
        BY <1>0
      <4> QED BY <4>1
    <3> QED BY <3>1
  <2> QED BY <1>0, <2>1 DEF CommasDropped
<1>3. FlattenSeq(p) \in Seq(Glyph) /\ Len(FlattenSeq(p)) \in Nat
  BY <1>2, FlattenType, LenProperties
<1>4. ASSUME NEW i \in 1..Len(v), Drops(v, i) PROVE p[i] = <<>> /\ Len(p[i]) = 0
  <2>1. p[i] = <<>>
    BY <1>4 DEF CommasDropped
  <2> QED BY <2>1
<1>5. ASSUME NEW i \in 1..Len(v), ~Drops(v, i)
      PROVE  p[i] = <<v[i]>> /\ Len(p[i]) = 1 /\ p[i][1] = v[i]
  <2>1. p[i] = <<v[i]>>
    BY <1>5 DEF CommasDropped
  <2> QED BY <2>1
<1> QED BY <1>1, <1>2, <1>3, <1>4, <1>5

\* Every character that it keeps comes to stand at its place, in order, in the same state.
LEMMA KeptAt ==
  ASSUME NEW v \in Seq(Glyph), NEW u, u = FlattenSeq(CommasDropped(v))
  PROVE  /\ \A i \in 1..Len(v) : ~Drops(v, i) => At(v, i) \in 1..Len(u) /\ u[At(v, i)] = v[i]
         /\ \A m \in 1..Len(u) : \E i \in 1..Len(v) : ~Drops(v, i) /\ m = At(v, i)
         /\ \A h, i \in 1..Len(v) : ~Drops(v, h) /\ ~Drops(v, i) => (h < i <=> At(v, h) < At(v, i))
         /\ \A i \in 1..(Len(v) + 1) : StateAt(u, At(v, i)) = StateAt(v, i)
<1> DEFINE p == CommasDropped(v)
<1>0. /\ Len(v) \in Nat /\ p \in Seq(Seq(Glyph)) /\ Len(p) = Len(v)
      /\ \A i \in 1..Len(v) : Drops(v, i) => Len(p[i]) = 0
      /\ \A i \in 1..Len(v) : ~Drops(v, i) => Len(p[i]) = 1 /\ p[i][1] = v[i]
  BY CommasDroppedIs, LenProperties
<1>1. \A i \in 1..(Len(v) + 1) : Start(p, i) \in Nat /\ At(v, i) = Start(p, i) + 1
  BY <1>0, StartStep DEF At
<1> HIDE DEF p
<1>2. ASSUME NEW i \in 1..Len(v), ~Drops(v, i) PROVE At(v, i) \in 1..Len(u) /\ u[At(v, i)] = v[i]
  <2>1. 1 \in 1..Len(p[i]) /\ p[i][1] = v[i]
    BY <1>0, <1>2
  <2>2. At(v, i) = Start(p, i) + 1
    BY <1>0, <1>1
  <2>3. i \in 1..Len(p) /\ u = FlattenSeq(p)
    BY <1>0 DEF p
  <2> QED BY <1>0, <2>1, <2>2, <2>3, PieceAt
<1>3. ASSUME NEW m \in 1..Len(u) PROVE \E i \in 1..Len(v) : ~Drops(v, i) /\ m = At(v, i)
  <2>1. u = FlattenSeq(p)
    BY DEF p
  <2>2. PICK i \in 1..Len(p) : \E k \in 1..Len(p[i]) : m = Start(p, i) + k
    BY <1>0, <2>1, Located
  <2>3. PICK k \in 1..Len(p[i]) : m = Start(p, i) + k
    BY <2>2
  <2>4. i \in 1..Len(v)
    BY <1>0
  <2>5. ~Drops(v, i)
    <3>1. Drops(v, i) => Len(p[i]) = 0
      BY <1>0, <2>4
    <3> QED BY <3>1
  <2>6. Len(p[i]) = 1
    BY <1>0, <2>4, <2>5
  <2>7. k = 1
    BY <2>6
  <2>8. m = At(v, i)
    BY <1>0, <1>1, <2>3, <2>4, <2>7
  <2> QED BY <2>4, <2>5, <2>8
<1>4. ASSUME NEW h \in 1..Len(v), NEW i \in 1..Len(v), ~Drops(v, h), h < i
      PROVE  At(v, h) < At(v, i)
  <2>1. h \in 1..Len(p) /\ h + 1 \in 1..(Len(p) + 1) /\ i \in (h + 1)..(Len(p) + 1)
        /\ h \in 1..(Len(v) + 1) /\ i \in 1..(Len(v) + 1)
    BY <1>0, <1>4
  <2>2. Start(p, h + 1) = Start(p, h) + Len(p[h]) /\ Len(p[h]) = 1
    BY <1>0, <1>4, <2>1, StartStep
  <2>3. Start(p, h + 1) <= Start(p, i)
    BY <1>0, <2>1, StartsOrdered
  <2>4. /\ Start(p, h) \in Nat /\ At(v, h) = Start(p, h) + 1
        /\ Start(p, i) \in Nat /\ At(v, i) = Start(p, i) + 1
    BY <1>1, <2>1
  <2> QED BY <2>2, <2>3, <2>4
<1>5. ASSUME NEW h \in 1..Len(v), NEW i \in 1..Len(v), ~Drops(v, h), ~Drops(v, i)
      PROVE  h < i <=> At(v, h) < At(v, i)
  <2>1. h \in Nat /\ i \in Nat /\ At(v, h) \in Nat /\ At(v, i) \in Nat
    <3>1. h \in Nat /\ i \in Nat /\ h \in 1..(Len(v) + 1) /\ i \in 1..(Len(v) + 1)
      BY <1>0
    <3> QED BY <1>1, <3>1
  <2>2. CASE h < i
    BY <1>4, <1>5, <2>2
  <2>3. CASE i < h
    <3>1. At(v, i) < At(v, h)
      BY <1>4, <1>5, <2>3
    <3> QED BY <2>1, <2>3, <3>1
  <2>4. CASE h = i
    BY <2>1, <2>4
  <2> QED BY <2>1, <2>2, <2>3, <2>4
<1>6. ASSUME NEW i \in 1..(Len(v) + 1) PROVE StateAt(u, At(v, i)) = StateAt(v, i)
  <2>1. ASSUME NEW k \in 1..Len(v) PROVE Leads(StateAt(v, k), p[k], StateAt(v, k + 1))
    <3>1. StateAt(v, k + 1) = After(StateAt(v, k), v[k])
      BY States
    <3>2. CASE Drops(v, k)
      <4>1. v[k] = Comma /\ StateAt(v, k) = "out"
        BY <3>2 DEF Drops, Comma
      <4>2. After("out", Comma) = "out"
        BY AfterIs, Literals
      <4> QED BY <1>0, <3>1, <3>2, <4>1, <4>2 DEF Leads
    <3>3. CASE ~Drops(v, k)
      BY <1>0, <3>1, <3>3 DEF Leads
    <3> QED BY <3>2, <3>3
  <2>2. StateAt(FlattenSeq(p), Start(p, i) + 1) = StateAt(v, i)
    BY <1>0, <2>1, PieceStates
  <2> QED BY <1>1, <2>2 DEF p
<1> QED BY <1>2, <1>3, <1>5, <1>6

\* The second repair leaves the neighbours of a character that is no closing brace.
LEMMA Neighbours ==
  ASSUME NEW v \in Seq(Glyph), NEW u, u = FlattenSeq(CommasDropped(v)),
         NEW h \in 1..Len(v), NEW i \in 1..Len(v), ~Drops(v, h), ~Drops(v, i),
         v[i] # CloseBrace, v[i] # "nl"
  PROVE  Between(v, h, i) <=> Between(u, At(v, h), At(v, i))
<1>0. /\ Len(v) \in Nat /\ h \in Nat /\ i \in Nat /\ Len(u) \in Nat
      /\ At(v, h) \in 1..Len(u) /\ At(v, i) \in 1..Len(u)
  <2>1. Len(v) \in Nat /\ Len(u) \in Nat
    BY CommasDroppedIs, LenProperties
  <2> QED BY <2>1, KeptAt
<1>1. h < i <=> At(v, h) < At(v, i)
  BY KeptAt
<1>2. ASSUME Between(v, h, i) PROVE Between(u, At(v, h), At(v, i))
  <2>1. ASSUME NEW m \in (At(v, h) + 1)..(At(v, i) - 1) PROVE u[m] = "nl"
    <3>1. m \in 1..Len(u) /\ At(v, h) < m /\ m < At(v, i)
      BY <1>0
    <3>2. PICK j \in 1..Len(v) : ~Drops(v, j) /\ m = At(v, j)
      BY <3>1, KeptAt
    <3>3. h < j /\ j < i
      BY <3>1, <3>2, KeptAt
    <3>4. j \in (h + 1)..(i - 1)
      BY <1>0, <3>3
    <3>5. v[j] = "nl"
      BY <1>2, <3>4 DEF Between
    <3> QED BY <3>2, <3>5, KeptAt
  <2>2. At(v, h) < At(v, i)
    BY <1>1, <1>2 DEF Between
  <2> QED BY <2>1, <2>2 DEF Between
<1>3. ASSUME Between(u, At(v, h), At(v, i)) PROVE Between(v, h, i)
  <2>1. h < i
    BY <1>1, <1>3 DEF Between
  <2>2. ASSUME NEW k \in 1..Len(v), h < k, k < i, ~Drops(v, k) PROVE v[k] = "nl"
    <3>1. At(v, h) < At(v, k) /\ At(v, k) < At(v, i) /\ At(v, k) \in 1..Len(u)
      BY <2>2, KeptAt
    <3>2. At(v, k) \in (At(v, h) + 1)..(At(v, i) - 1)
      BY <1>0, <3>1
    <3>3. u[At(v, k)] = "nl"
      BY <1>3, <3>2 DEF Between
    <3> QED BY <2>2, <3>3, KeptAt
  <2>3. ASSUME NEW j \in (h + 1)..(i - 1) PROVE ~Drops(v, j)
    <3>1. j \in Nat /\ j \in 1..Len(v) /\ h < j /\ j < i
      BY <1>0
    <3>2. SUFFICES ASSUME Drops(v, j) PROVE FALSE
      OBVIOUS
    <3>3. PICK k \in (j + 1)..Len(v) : v[k] = CloseBrace /\ Between(v, j, k)
      BY <3>2 DEF Drops, CloseBrace
    <3>4. k \in Nat /\ k \in 1..Len(v) /\ j < k /\ h < k
      BY <1>0, <3>1
    <3>5. CASE k < i
      <4>1. ~Drops(v, k)
        <5>1. Drops(v, k) => v[k] = Comma
          BY DEF Drops, Comma
        <5> QED BY <3>3, <5>1, Literals
      <4> QED BY <2>2, <3>3, <3>4, <3>5, <4>1, Literals
    <3>6. CASE k = i
      BY <3>3, <3>6
    <3>7. CASE i < k
      <4>1. i \in (j + 1)..(k - 1)
        BY <1>0, <3>1, <3>4, <3>7
      <4> QED BY <3>3, <4>1 DEF Between
    <3> QED BY <1>0, <3>4, <3>5, <3>6, <3>7
  <2>4. ASSUME NEW j \in (h + 1)..(i - 1) PROVE v[j] = "nl"
    <3>1. j \in 1..Len(v) /\ h < j /\ j < i
      BY <1>0
    <3> QED BY <2>2, <2>3, <3>1
  <2> QED BY <2>1, <2>4 DEF Between
<1> QED BY <1>2, <1>3

\* And with them the keys that the third one quotes.
LEMMA KeysKept ==
  ASSUME NEW v \in Seq(Glyph), NEW u, u = FlattenSeq(CommasDropped(v)),
         NEW i \in 1..Len(v), ~Drops(v, i)
  PROVE  IsKey(u, At(v, i)) <=> IsKey(v, i)
<1> DEFINE a == At(v, i)
<1>0. /\ Len(v) \in Nat /\ i \in Nat /\ Len(u) \in Nat /\ a \in 1..Len(u) /\ u[a] = v[i]
      /\ a \in Nat /\ StateAt(u, a) = StateAt(v, i)
  <2>1. Len(v) \in Nat /\ Len(u) \in Nat
    BY CommasDroppedIs, LenProperties
  <2>2. a \in 1..Len(u) /\ u[a] = v[i]
    BY KeptAt
  <2>3. i \in 1..(Len(v) + 1)
    BY <2>1
  <2>4. StateAt(u, a) = StateAt(v, i)
    BY <2>3, KeptAt
  <2> HIDE DEF a
  <2> QED BY <2>1, <2>2, <2>4
<1> HIDE DEF a
<1>1. ASSUME IsKey(v, i) PROVE IsKey(u, a)
  <2>1. PICK h \in 1..(i - 1) : v[h] \in Opener /\ StateAt(v, h) = "out" /\ Between(v, h, i)
    BY <1>1 DEF IsKey
  <2>2. PICK k \in (i + 1)..Len(v) : v[k] = Colon /\ Between(v, i, k)
    BY <1>1 DEF IsKey, Colon
  <2>3. v[i] \in Word /\ v[i] # CloseBrace /\ v[i] # "nl" /\ StateAt(v, i) = "out"
    BY <1>1, Literals DEF IsKey
  <2>4. /\ h \in Nat /\ h \in 1..Len(v) /\ h \in 1..(Len(v) + 1) /\ h < i
        /\ k \in Nat /\ k \in 1..Len(v) /\ i < k
    BY <1>0
  <2>5. ~Drops(v, h)
    <3>1. SUFFICES ASSUME Drops(v, h) PROVE FALSE
      OBVIOUS
    <3>2. PICK j \in (h + 1)..Len(v) : v[j] = CloseBrace /\ Between(v, h, j)
      BY <3>1 DEF Drops, CloseBrace
    <3>3. j \in Nat /\ h < j
      BY <1>0, <2>4
    <3>4. CASE j < i
      <4>1. j \in (h + 1)..(i - 1)
        BY <1>0, <2>4, <3>3, <3>4
      <4> QED BY <2>1, <3>2, <4>1, Literals DEF Between
    <3>5. CASE j = i
      BY <2>3, <3>2, <3>5
    <3>6. CASE i < j
      <4>1. i \in (h + 1)..(j - 1)
        BY <1>0, <2>4, <3>3, <3>6
      <4> QED BY <2>3, <3>2, <4>1 DEF Between
    <3> QED BY <1>0, <3>3, <3>4, <3>5, <3>6
  <2>6. ~Drops(v, k)
    <3>1. Drops(v, k) => v[k] = Comma
      BY DEF Drops, Comma
    <3> QED BY <2>2, <3>1, Literals
  <2>7. /\ At(v, h) \in 1..(a - 1) /\ u[At(v, h)] \in Opener /\ StateAt(u, At(v, h)) = "out"
        /\ Between(u, At(v, h), a)
    <3>1. /\ At(v, h) \in 1..Len(u) /\ u[At(v, h)] = v[h] /\ At(v, h) < a
          /\ StateAt(u, At(v, h)) = StateAt(v, h)
      BY <2>4, <2>5, KeptAt DEF a
    <3>2. Between(u, At(v, h), a)
      BY <2>1, <2>3, <2>4, <2>5, Neighbours DEF a
    <3>3. At(v, h) \in 1..(a - 1)
      BY <1>0, <3>1
    <3> QED BY <2>1, <3>1, <3>2, <3>3
  <2>8. At(v, k) \in (a + 1)..Len(u) /\ u[At(v, k)] = Colon /\ Between(u, a, At(v, k))
    <3>1. At(v, k) \in 1..Len(u) /\ u[At(v, k)] = v[k] /\ a < At(v, k)
      BY <2>4, <2>6, KeptAt DEF a
    <3>2. Between(u, a, At(v, k))
      BY <2>2, <2>4, <2>6, Literals, Neighbours DEF a
    <3>3. At(v, k) \in (a + 1)..Len(u)
      BY <1>0, <3>1
    <3> QED BY <2>2, <3>1, <3>2, <3>3
  <2>9. u[a] \in Word /\ StateAt(u, a) = "out"
    BY <1>0, <2>3
  <2> QED BY <2>7, <2>8, <2>9 DEF IsKey, Colon
<1>2. ASSUME IsKey(u, a) PROVE IsKey(v, i)
  <2>1. PICK g \in 1..(a - 1) : u[g] \in Opener /\ StateAt(u, g) = "out" /\ Between(u, g, a)
    BY <1>2 DEF IsKey
  <2>2. PICK l \in (a + 1)..Len(u) : u[l] = Colon /\ Between(u, a, l)
    BY <1>2 DEF IsKey, Colon
  <2>3. u[a] \in Word /\ StateAt(u, a) = "out"
    BY <1>2 DEF IsKey
  <2>4. g \in 1..Len(u) /\ l \in 1..Len(u) /\ g < a /\ a < l
    BY <1>0
  <2>5. PICK h \in 1..Len(v) : ~Drops(v, h) /\ g = At(v, h)
    BY <2>4, KeptAt
  <2>6. PICK k \in 1..Len(v) : ~Drops(v, k) /\ l = At(v, k)
    BY <2>4, KeptAt
  <2>7. h < i /\ i < k
    BY <2>4, <2>5, <2>6, KeptAt DEF a
  <2>8. h \in Nat /\ k \in Nat /\ h \in 1..(Len(v) + 1) /\ h \in 1..(i - 1) /\ k \in (i + 1)..Len(v)
    BY <1>0, <2>7
  <2>9. v[i] \in Word /\ v[i] # CloseBrace /\ v[i] # "nl" /\ StateAt(v, i) = "out"
    BY <1>0, <2>3, Literals
  <2>10. v[h] = u[g] /\ StateAt(v, h) = StateAt(u, g) /\ v[k] = u[l]
    BY <2>5, <2>6, <2>8, KeptAt
  <2>11. Between(v, h, i)
    BY <2>1, <2>5, <2>9, Neighbours DEF a
  <2>12. Between(v, i, k)
    BY <2>2, <2>6, <2>10, Literals, Neighbours DEF a
  <2> QED BY <2>1, <2>2, <2>8, <2>9, <2>10, <2>11, <2>12 DEF IsKey, Colon
<1> QED BY <1>1, <1>2 DEF a

\* The third repair, and the fourth, as what each character of the second's text becomes.
Quoted(v) ==
  [i \in 1..Len(v) |-> IF Drops(v, i) THEN <<>>
                       ELSE IF IsKey(v, i) THEN <<Quote, v[i], Quote>> ELSE <<v[i]>>]
Literal(v, i) == IF StateAt(v, i) = "out" /\ v[i] = "True" THEN <<"true">> ELSE <<v[i]>>
Done(v) ==
  [i \in 1..Len(v) |-> IF Drops(v, i) THEN <<>>
                       ELSE IF IsKey(v, i) THEN <<Quote, v[i], Quote>> ELSE Literal(v, i)]

\* No character is both dropped and quoted.
LEMMA DropsNoKey ==
  ASSUME NEW v, NEW i PROVE ~(Drops(v, i) /\ IsKey(v, i))
<1>1. Drops(v, i) => v[i] = Comma
  BY DEF Drops, Comma
<1>2. IsKey(v, i) => v[i] \in Word
  BY DEF IsKey
<1> QED BY <1>1, <1>2, Literals

\* The pieces by the character they stand for.
LEMMA QuotedTypes ==
  ASSUME NEW v \in Seq(Glyph)
  PROVE  /\ Quoted(v) \in Seq(Seq(Glyph)) /\ Len(Quoted(v)) = Len(v)
         /\ Done(v) \in Seq(Seq(Glyph)) /\ Len(Done(v)) = Len(v)
         /\ \A i \in 1..Len(v) :
              /\ Drops(v, i) => Quoted(v)[i] = <<>> /\ Done(v)[i] = <<>>
              /\ IsKey(v, i) => /\ Quoted(v)[i] = <<Quote, v[i], Quote>>
                                /\ Done(v)[i] = <<Quote, v[i], Quote>>
              /\ ~Drops(v, i) /\ ~IsKey(v, i) => /\ Quoted(v)[i] = <<v[i]>>
                                                 /\ Done(v)[i] = Literal(v, i)
<1>0. Len(v) \in Nat /\ \A i \in 1..Len(v) : v[i] \in Glyph
  BY LenProperties, ElementOfSeq
<1>1. ASSUME NEW i \in 1..Len(v)
      PROVE  /\ <<>> \in Seq(Glyph) /\ <<v[i]>> \in Seq(Glyph)
             /\ <<Quote, v[i], Quote>> \in Seq(Glyph) /\ Literal(v, i) \in Seq(Glyph)
  <2>1. v[i] \in Glyph /\ Quote \in Glyph
    BY <1>0, Literals
  <2>2. "true" \in Glyph
    BY DEF Glyph, Word
  <2>3. /\ <<>> \in Seq(Glyph) /\ <<v[i]>> \in Seq(Glyph)
        /\ <<Quote, v[i], Quote>> \in Seq(Glyph) /\ <<"true">> \in Seq(Glyph)
    BY <2>1, <2>2
  <2> QED BY <2>3 DEF Literal
<1>2. Quoted(v) \in Seq(Seq(Glyph)) /\ Len(Quoted(v)) = Len(v)
  <2>1. \A i \in 1..Len(v) : (IF Drops(v, i) THEN <<>>
                              ELSE IF IsKey(v, i) THEN <<Quote, v[i], Quote>> ELSE <<v[i]>>)
                             \in Seq(Glyph)
    BY <1>1
  <2> QED BY <1>0, <2>1 DEF Quoted
<1>3. Done(v) \in Seq(Seq(Glyph)) /\ Len(Done(v)) = Len(v)
  <2>1. \A i \in 1..Len(v) : (IF Drops(v, i) THEN <<>>
                              ELSE IF IsKey(v, i) THEN <<Quote, v[i], Quote>> ELSE Literal(v, i))
                             \in Seq(Glyph)
    BY <1>1
  <2> QED BY <1>0, <2>1 DEF Done
<1>4. ASSUME NEW i \in 1..Len(v)
      PROVE  /\ Drops(v, i) => Quoted(v)[i] = <<>> /\ Done(v)[i] = <<>>
             /\ IsKey(v, i) => /\ Quoted(v)[i] = <<Quote, v[i], Quote>>
                               /\ Done(v)[i] = <<Quote, v[i], Quote>>
             /\ ~Drops(v, i) /\ ~IsKey(v, i) => /\ Quoted(v)[i] = <<v[i]>>
                                                /\ Done(v)[i] = Literal(v, i)
  <2>1. IsKey(v, i) => ~Drops(v, i)
    BY DropsNoKey
  <2> QED BY <2>1 DEF Quoted, Done
<1> QED BY <1>2, <1>3, <1>4

\* Tuples as sequences.
LEMMA Lengths ==
  ASSUME NEW a, NEW b, NEW c
  PROVE  /\ Len(<<>>) = 0
         /\ Len(<<a>>) = 1 /\ <<a>>[1] = a
         /\ Len(<<a, b, c>>) = 3 /\ <<a, b, c>>[1] = a /\ <<a, b, c>>[2] = b /\ <<a, b, c>>[3] = c
  OBVIOUS

\* A character leads where the piece leads that it becomes.
LEMMA QuotedLeads ==
  ASSUME NEW v \in Seq(Glyph), NEW i \in 1..Len(v)
  PROVE  Leads(StateAt(v, i), Quoted(v)[i], StateAt(v, i + 1))
<1>1. StateAt(v, i + 1) = After(StateAt(v, i), v[i])
  BY States
<1>2. CASE Drops(v, i)
  <2>1. v[i] = Comma /\ StateAt(v, i) = "out"
    BY <1>2 DEF Drops, Comma
  <2>2. After("out", Comma) = "out"
    BY AfterIs, Literals
  <2>3. Quoted(v)[i] = <<>> /\ Len(<<>>) = 0
    BY <1>2, QuotedTypes, Lengths
  <2> QED BY <1>1, <2>1, <2>2, <2>3 DEF Leads
<1>3. CASE IsKey(v, i)
  <2>1. v[i] \in Word /\ StateAt(v, i) = "out"
    BY <1>3 DEF IsKey
  <2>2. After(After(After("out", Quote), v[i]), Quote) = "out" /\ After("out", v[i]) = "out"
    BY <2>1, AfterIs, Literals
  <2> DEFINE x == <<Quote, v[i], Quote>>
  <2>3. Quoted(v)[i] = x /\ Len(x) = 3 /\ x[1] = Quote /\ x[2] = v[i] /\ x[3] = Quote
    BY <1>3, QuotedTypes, Lengths
  <2> HIDE DEF x
  <2> QED BY <1>1, <2>1, <2>2, <2>3 DEF Leads
<1>4. CASE ~Drops(v, i) /\ ~IsKey(v, i)
  <2> DEFINE x == <<v[i]>>
  <2>1. Quoted(v)[i] = x /\ Len(x) = 1 /\ x[1] = v[i]
    BY <1>4, QuotedTypes, Lengths
  <2> HIDE DEF x
  <2> QED BY <1>1, <2>1 DEF Leads
<1> QED BY <1>2, <1>3, <1>4

\* The third repair turns the second's text into those pieces.
LEMMA QuotedIs ==
  ASSUME NEW v \in Seq(Glyph)
  PROVE  QuoteUnquotedKeys(FlattenSeq(CommasDropped(v))) = FlattenSeq(Quoted(v))
<1> DEFINE u == FlattenSeq(CommasDropped(v))
           p == CommasDropped(v)
           f == [j \in 1..Len(u) |-> IF IsKey(u, j) THEN <<Quote, u[j], Quote>> ELSE <<u[j]>>]
           q == Quoted(v)
<1>0. /\ p \in Seq(Seq(Glyph)) /\ Len(p) = Len(v) /\ u \in Seq(Glyph) /\ Len(u) \in Nat
      /\ q \in Seq(Seq(Glyph)) /\ Len(q) = Len(v) /\ DOMAIN u = 1..Len(u)
      /\ \A j \in 1..Len(u) : u[j] \in Glyph
  <2>1. u \in Seq(Glyph)
    BY CommasDroppedIs
  <2> HIDE DEF u, q
  <2>2. DOMAIN u = 1..Len(u) /\ \A j \in 1..Len(u) : u[j] \in Glyph
    BY <2>1, LenProperties, ElementOfSeq
  <2>3. q \in Seq(Seq(Glyph)) /\ Len(q) = Len(v)
    BY QuotedTypes DEF q
  <2> QED BY <2>1, <2>2, <2>3, CommasDroppedIs DEF u
<1>1. QuoteUnquotedKeys(u) = FlattenSeq(f)
  <2> HIDE DEF u
  <2>1. \A j \in 1..Len(u) : IsKey(u, j) <=> BareKey(u, j)
    BY <1>0, IsKeyIs
  <2>2. [j \in DOMAIN u |-> IF BareKey(u, j) THEN <<"\"", u[j], "\"">> ELSE <<u[j]>>] = f
    <3>1. \A j \in 1..Len(u) : (IF BareKey(u, j) THEN <<"\"", u[j], "\"">> ELSE <<u[j]>>)
                             = (IF IsKey(u, j) THEN <<Quote, u[j], Quote>> ELSE <<u[j]>>)
      BY <2>1 DEF Quote
    <3>2. DOMAIN u = 1..Len(u)
      BY <1>0
    <3> QED BY <3>1, <3>2
  <2> QED BY <2>2 DEF QuoteUnquotedKeys, Edited
<1>2. f \in Seq(Seq(Glyph)) /\ Len(f) = Len(u)
  <2> HIDE DEF u
  <2>1. ASSUME NEW j \in 1..Len(u)
        PROVE  (IF IsKey(u, j) THEN <<Quote, u[j], Quote>> ELSE <<u[j]>>) \in Seq(Glyph)
    <3>1. u[j] \in Glyph /\ Quote \in Glyph
      BY <1>0, Literals
    <3>2. <<Quote, u[j], Quote>> \in Seq(Glyph) /\ <<u[j]>> \in Seq(Glyph)
      BY <3>1
    <3> QED BY <3>2
  <2> QED BY <1>0, <2>1
<1>3. ASSUME NEW i \in 1..Len(v)
      PROVE  \/ Len(p[i]) = 0 /\ q[i] = <<>>
             \/ Len(p[i]) = 1 /\ q[i] = f[Start(p, i) + 1]
  <2>1. CASE Drops(v, i)
    BY <2>1, CommasDroppedIs, QuotedTypes
  <2>2. CASE ~Drops(v, i)
    <3>1. Len(p[i]) = 1
      BY <2>2, CommasDroppedIs
    <3> DEFINE a == At(v, i)
    <3>2. a \in 1..Len(u) /\ u[a] = v[i]
      BY <2>2, KeptAt
    <3>3. IsKey(u, a) <=> IsKey(v, i)
      BY <2>2, KeysKept
    <3>4. q[i] = IF IsKey(v, i) THEN <<Quote, v[i], Quote>> ELSE <<v[i]>>
      BY <2>2, QuotedTypes
    <3>5. a = Start(p, i) + 1
      BY DEF At
    <3> HIDE DEF a, u, p, q
    <3>6. f[a] = IF IsKey(u, a) THEN <<Quote, u[a], Quote>> ELSE <<u[a]>>
      BY <3>2
    <3>7. q[i] = f[a]
      BY <3>2, <3>3, <3>4, <3>6
    <3> QED BY <3>1, <3>5, <3>7
  <2> QED BY <2>1, <2>2
<1>4. FlattenSeq(f) = FlattenSeq(q)
  <2>1. Len(f) = Len(FlattenSeq(p))
    BY <1>2
  <2> HIDE DEF f, p, q, u
  <2>2. Len(q) = Len(p) /\ \A i \in 1..Len(p) : i \in 1..Len(v)
    BY <1>0
  <2>3. \A i \in 1..Len(p) : Becomes(p, f, q, i)
    BY <1>3, <2>2 DEF Becomes
  <2>4. p \in Seq(Seq(Glyph)) /\ f \in Seq(Seq(Glyph)) /\ q \in Seq(Seq(Glyph))
    BY <1>0, <1>2
  <2> QED BY <2>1, <2>2, <2>3, <2>4, EditedPieces
<1> QED BY <1>1, <1>4

\* One conjunct of AppendProperties by itself.
LEMMA AppendKeeps ==
  ASSUME NEW S, NEW s \in Seq(S), NEW e \in S
  PROVE  \A i \in 1..Len(s) : Append(s, e)[i] = s[i]
BY AppendProperties

\* Three characters put together.
LEMMA Three ==
  ASSUME NEW a, NEW b, NEW c PROVE (<<a>> \o <<b>>) \o <<c>> = <<a, b, c>>
<1> DEFINE S == {a, b, c}
<1>1. <<a>> \in Seq(S) /\ <<a, b>> \in Seq(S) /\ b \in S /\ c \in S
  OBVIOUS
<1>2. Append(<<a>>, b) = <<a, b>>
  <2> DEFINE s == <<a>>
             u == Append(s, b)
             v == <<a, b>>
  <2>1. s \in Seq(S) /\ Len(s) = 1 /\ s[1] = a /\ b \in S
    OBVIOUS
  <2>2. v \in Seq(S) /\ Len(v) = 2 /\ v[1] = a /\ v[2] = b
    OBVIOUS
  <2> HIDE DEF s, v, S
  <2>3. u \in Seq(S) /\ Len(u) = 2 /\ u[1] = a /\ u[2] = b
    <3>1. u \in Seq(S) /\ Len(u) = Len(s) + 1
      BY <2>1, AppendProperties
    <3>2. u[Len(s) + 1] = b
      BY <2>1, AppendProperties
    <3>3. \A i \in 1..Len(s) : u[i] = s[i]
      BY <2>1, AppendKeeps
    <3> HIDE DEF u
    <3>4. 1 + 1 = 2 /\ 1 \in 1..1
      OBVIOUS
    <3> QED BY <2>1, <3>1, <3>2, <3>3, <3>4
  <2> HIDE DEF u
  <2>4. \A i \in 1..2 : u[i] = v[i]
    BY <2>2, <2>3
  <2>5. u = v
    BY <2>2, <2>3, <2>4, SeqEqual
  <2> QED BY <2>5 DEF u, v, s
<1>3. Append(<<a, b>>, c) = <<a, b, c>>
  <2> DEFINE s == <<a, b>>
             u == Append(s, c)
             v == <<a, b, c>>
  <2>1. s \in Seq(S) /\ Len(s) = 2 /\ s[1] = a /\ s[2] = b /\ c \in S
    OBVIOUS
  <2>2. v \in Seq(S) /\ Len(v) = 3 /\ v[1] = a /\ v[2] = b /\ v[3] = c
    OBVIOUS
  <2> HIDE DEF s, v, S
  <2>3. u \in Seq(S) /\ Len(u) = 3 /\ u[1] = a /\ u[2] = b /\ u[3] = c
    <3>1. u \in Seq(S) /\ Len(u) = Len(s) + 1
      BY <2>1, AppendProperties
    <3>2. u[Len(s) + 1] = c
      BY <2>1, AppendProperties
    <3>3. \A i \in 1..Len(s) : u[i] = s[i]
      BY <2>1, AppendKeeps
    <3> HIDE DEF u
    <3>4. 2 + 1 = 3 /\ 1 \in 1..2 /\ 2 \in 1..2
      OBVIOUS
    <3> QED BY <2>1, <3>1, <3>2, <3>3, <3>4
  <2> HIDE DEF u
  <2>4. \A i \in 1..3 : u[i] = v[i]
    BY <2>2, <2>3
  <2>5. u = v
    BY <2>2, <2>3, <2>4, SeqEqual
  <2> QED BY <2>5 DEF u, v, s
<1> HIDE DEF S
<1>4. Append(<<a>>, b) = <<a>> \o <<b>> /\ Append(<<a, b>>, c) = <<a, b>> \o <<c>>
  BY <1>1, AppendIsConcat
<1> QED BY <1>2, <1>3, <1>4

\* Where a piece of three characters, a key in its quotes, leads through a string.
LEMMA KeyLiterals ==
  ASSUME NEW v \in Seq(Glyph), NEW i \in 1..Len(v), IsKey(v, i), NEW x, x = FlattenSeq(Quoted(v)),
         NEW a, a = Start(Quoted(v), i)
  PROVE  (Literal(x, a + 1) \o Literal(x, a + 2)) \o Literal(x, a + 3) = <<Quote, v[i], Quote>>
<1> DEFINE p == Quoted(v)
           w == v[i]
           y == <<Quote, w, Quote>>
<1>0. /\ p \in Seq(Seq(Glyph)) /\ Len(p) = Len(v) /\ Len(v) \in Nat /\ v \in Seq(Glyph)
      /\ p[i] = y /\ x \in Seq(Glyph) /\ i \in 1..Len(p) /\ x = FlattenSeq(p)
  <2>1. x \in Seq(Glyph)
    BY QuotedTypes, FlattenType
  <2> QED BY <2>1, QuotedTypes, LenProperties
<1>1. Len(y) = 3 /\ y[1] = Quote /\ y[2] = w /\ y[3] = Quote
  BY Lengths
<1>2. w \in Word /\ StateAt(v, i) = "out"
  BY DEF IsKey
<1> HIDE DEF w, y, p
<1>3. /\ a + 1 \in 1..Len(x) /\ x[a + 1] = Quote /\ a + 2 \in 1..Len(x) /\ x[a + 2] = w
      /\ a + 3 \in 1..Len(x) /\ x[a + 3] = Quote
  <2>1. \A k \in 1..Len(p[i]) : a + k \in 1..Len(x) /\ x[a + k] = p[i][k]
    <3>1. a = Start(p, i)
      BY DEF p
    <3> QED BY <1>0, <3>1, PieceAt
  <2>2. Len(p[i]) = 3 /\ 1 \in 1..3 /\ 2 \in 1..3 /\ 3 \in 1..3
    BY <1>0, <1>1
  <2> QED BY <1>0, <1>1, <2>1, <2>2
<1>4. StateAt(x, a + 1) = "out"
  <2>1. \A k \in 1..Len(v) : Leads(StateAt(v, k), p[k], StateAt(v, k + 1))
    BY QuotedLeads DEF p
  <2>2. i \in 1..(Len(v) + 1)
    BY <1>0
  <2>3. StateAt(FlattenSeq(p), Start(p, i) + 1) = StateAt(v, i)
    BY <1>0, <2>1, <2>2, PieceStates
  <2> QED BY <1>2, <2>3 DEF p
<1>5. StateAt(x, a + 2) = "in"
  <2>1. StateAt(x, (a + 1) + 1) = After("out", Quote)
    BY <1>0, <1>3, <1>4, States
  <2>2. (a + 1) + 1 = a + 2
    <3>1. a \in Nat
      BY <1>0, <1>1, StartStep DEF p
    <3> QED BY <3>1
  <2> QED BY <2>1, <2>2, AfterIs
<1>6. StateAt(x, a + 3) = "in"
  <2>1. StateAt(x, (a + 2) + 1) = After("in", w)
    BY <1>0, <1>3, <1>5, States
  <2>2. (a + 2) + 1 = a + 3
    <3>1. a \in Nat
      BY <1>0, <1>1, StartStep DEF p
    <3> QED BY <3>1
  <2> QED BY <1>2, <2>1, <2>2, AfterIs
<1>7. Literal(x, a + 1) = <<Quote>> /\ Literal(x, a + 2) = <<w>> /\ Literal(x, a + 3) = <<Quote>>
  <2>1. Quote # "True"
    BY DEF Quote
  <2> QED BY <1>3, <1>5, <1>6, <2>1 DEF Literal
<1>8. (<<Quote>> \o <<w>>) \o <<Quote>> = <<Quote, w, Quote>>
  BY Three
<1> QED BY <1>7, <1>8 DEF w

\* The fourth repair turns the third's text into its own pieces.
LEMMA LiteralsAre ==
  ASSUME NEW v \in Seq(Glyph)
  PROVE  ReplacePythonLiterals(FlattenSeq(Quoted(v))) = FlattenSeq(Done(v))
<1> DEFINE p == Quoted(v)
           x == FlattenSeq(p)
           f == [j \in 1..Len(x) |-> Literal(x, j)]
           q == Done(v)
<1>0. /\ p \in Seq(Seq(Glyph)) /\ Len(p) = Len(v) /\ Len(v) \in Nat
      /\ q \in Seq(Seq(Glyph)) /\ Len(q) = Len(v)
      /\ x \in Seq(Glyph) /\ Len(x) \in Nat /\ DOMAIN x = 1..Len(x)
      /\ \A j \in 1..Len(x) : x[j] \in Glyph
  <2>1. p \in Seq(Seq(Glyph)) /\ q \in Seq(Seq(Glyph)) /\ Len(p) = Len(v) /\ Len(q) = Len(v)
    BY QuotedTypes
  <2>2. x \in Seq(Glyph)
    BY <2>1, FlattenType
  <2>3. Len(v) \in Nat
    BY LenProperties
  <2> HIDE DEF x, p, q
  <2>4. Len(x) \in Nat /\ DOMAIN x = 1..Len(x) /\ \A j \in 1..Len(x) : x[j] \in Glyph
    BY <2>2, LenProperties, ElementOfSeq
  <2> QED BY <2>1, <2>2, <2>3, <2>4
<1>1. ReplacePythonLiterals(x) = FlattenSeq(f)
  <2> HIDE DEF x
  <2>1. \A j \in 1..Len(x) : Lexed(x)[j] = StateAt(x, j)
    BY <1>0, States
  <2>2. [j \in DOMAIN x |->
           IF Lexed(x)[j] = "out" /\ x[j] = "True" THEN <<"true">> ELSE <<x[j]>>] = f
    <3>1. \A j \in 1..Len(x) :
             (IF Lexed(x)[j] = "out" /\ x[j] = "True" THEN <<"true">> ELSE <<x[j]>>) = Literal(x, j)
      BY <2>1 DEF Literal
    <3>2. DOMAIN x = 1..Len(x)
      BY <1>0
    <3> QED BY <3>1, <3>2
  <2> QED BY <2>2 DEF ReplacePythonLiterals, Edited
<1>2. f \in Seq(Seq(Glyph)) /\ Len(f) = Len(x)
  <2> HIDE DEF x
  <2>1. ASSUME NEW j \in 1..Len(x) PROVE Literal(x, j) \in Seq(Glyph)
    <3>1. x[j] \in Glyph /\ "true" \in Glyph
      BY <1>0 DEF Glyph, Word
    <3>2. <<x[j]>> \in Seq(Glyph) /\ <<"true">> \in Seq(Glyph)
      BY <3>1
    <3> QED BY <3>2 DEF Literal
  <2> QED BY <1>0, <2>1
<1>3. \A i \in 1..(Len(v) + 1) : StateAt(x, Start(p, i) + 1) = StateAt(v, i)
  <2>1. \A k \in 1..Len(v) : Leads(StateAt(v, k), p[k], StateAt(v, k + 1))
    BY QuotedLeads
  <2> HIDE DEF p
  <2> QED BY <1>0, <2>1, PieceStates
<1>4. ASSUME NEW i \in 1..Len(v) PROVE Becomes(p, f, q, i)
  <2> DEFINE a == Start(p, i)
  <2>0. i \in 1..Len(p) /\ i \in 1..(Len(v) + 1)
    BY <1>0
  <2>1. CASE Drops(v, i)
    <3>1. Len(p[i]) = 0 /\ q[i] = <<>>
      BY <2>1, QuotedTypes, Lengths
    <3> HIDE DEF p, q
    <3> QED BY <3>1 DEF Becomes
  <2>2. CASE IsKey(v, i)
    <3>1. Len(p[i]) = 3 /\ q[i] = <<Quote, v[i], Quote>>
      <4> DEFINE y == <<Quote, v[i], Quote>>
      <4>1. p[i] = y /\ q[i] = y
        BY <2>2, QuotedTypes
      <4>2. Len(y) = 3
        BY Lengths
      <4> HIDE DEF p, q, y
      <4>3. Len(p[i]) = 3 /\ q[i] = y
        BY <4>1, <4>2
      <4> QED BY <4>3 DEF y
    <3>2. (Literal(x, a + 1) \o Literal(x, a + 2)) \o Literal(x, a + 3) = <<Quote, v[i], Quote>>
      BY <2>2, KeyLiterals
    <3> HIDE DEF x, p, q, a
    <3>3. a + 1 \in 1..Len(x) /\ a + 2 \in 1..Len(x) /\ a + 3 \in 1..Len(x)
      <4>1. \A k \in 1..Len(p[i]) : a + k \in 1..Len(x)
        BY <1>0, <2>0, PieceAt DEF x, a
      <4> QED BY <3>1, <4>1
    <3>4. /\ f[a + 1] = Literal(x, a + 1) /\ f[a + 2] = Literal(x, a + 2)
          /\ f[a + 3] = Literal(x, a + 3)
      BY <3>3
    <3> HIDE DEF f
    <3>5. q[i] = (f[a + 1] \o f[a + 2]) \o f[a + 3]
      BY <3>1, <3>2, <3>4
    <3> QED BY <3>1, <3>5 DEF Becomes, a
  <2>3. CASE ~Drops(v, i) /\ ~IsKey(v, i)
    <3>1. Len(p[i]) = 1 /\ p[i][1] = v[i] /\ q[i] = Literal(v, i)
      <4>1. p[i] = <<v[i]>> /\ q[i] = Literal(v, i)
        BY <2>3, QuotedTypes
      <4> HIDE DEF p, q
      <4> QED BY <4>1, Lengths
    <3>2. StateAt(x, a + 1) = StateAt(v, i)
      BY <1>3, <2>0
    <3> HIDE DEF x, p, q
    <3>3. a + 1 \in 1..Len(x) /\ x[a + 1] = v[i]
      <4>1. \A k \in 1..Len(p[i]) : a + k \in 1..Len(x) /\ x[a + k] = p[i][k]
        BY <1>0, <2>0, PieceAt DEF x
      <4> HIDE DEF a
      <4> QED BY <3>1, <4>1
    <3> HIDE DEF a
    <3>4. f[a + 1] = Literal(x, a + 1)
      BY <3>3
    <3> HIDE DEF f
    <3>5. Literal(x, a + 1) = Literal(v, i)
      BY <3>2, <3>3 DEF Literal
    <3> QED BY <3>1, <3>4, <3>5 DEF Becomes, a
  <2> QED BY <2>1, <2>2, <2>3
<1>5. FlattenSeq(f) = FlattenSeq(q)
  <2>1. Len(f) = Len(FlattenSeq(p))
    BY <1>2
  <2> HIDE DEF f, p, q, x
  <2>2. Len(q) = Len(p) /\ \A i \in 1..Len(p) : Becomes(p, f, q, i)
    BY <1>0, <1>4
  <2>3. p \in Seq(Seq(Glyph)) /\ f \in Seq(Seq(Glyph)) /\ q \in Seq(Seq(Glyph))
    BY <1>0, <1>2
  <2> QED BY <2>1, <2>2, <2>3, EditedPieces
<1> QED BY <1>1, <1>5

\* Together the repairs do to each character what its place calls for.
LEMMA RepairedIs ==
  ASSUME NEW t \in Seq(Char)
  PROVE  /\ [i \in 1..Len(t) |-> Meant(t, i)] \in Seq(Seq(Glyph))
         /\ Repaired(t) = FlattenSeq([i \in 1..Len(t) |-> Meant(t, i)])
         /\ Repaired(t) = Edited(t, LAMBDA i : Meant(t, i))
<1> DEFINE v == EscapeControlChars(t)
           m == [i \in 1..Len(t) |-> Meant(t, i)]
<1>0. /\ v \in Seq(Glyph) /\ Len(v) = Len(t) /\ Len(t) \in Nat /\ DOMAIN t = 1..Len(t)
      /\ t \in Seq(Glyph)
      /\ \A i \in 1..Len(t) : /\ v[i] = Escaped(t, i) /\ i \in 1..(Len(t) + 1)
                              /\ Drops(v, i) <=> Drops(t, i)
                              /\ IsKey(v, i) <=> IsKey(t, i)
      /\ \A i \in 1..(Len(t) + 1) : StateAt(v, i) = StateAt(t, i)
  <2>1. v \in Seq(Glyph) /\ Len(v) = Len(t) /\ \A i \in 1..Len(t) : v[i] = Escaped(t, i)
    BY EscapeIs
  <2>2. \A i \in 1..(Len(t) + 1) : StateAt(v, i) = StateAt(t, i)
    BY EscapeIs
  <2>3. \A i \in 1..Len(t) : (Drops(v, i) <=> Drops(t, i)) /\ (IsKey(v, i) <=> IsKey(t, i))
    BY <2>1, EscapeKeeps
  <2>4. Len(t) \in Nat /\ DOMAIN t = 1..Len(t)
    BY LenProperties
  <2>5. \A i \in 1..Len(t) : i \in 1..(Len(t) + 1)
    BY <2>4
  <2>6. t \in Seq(Glyph)
    <3>1. \A i \in 1..Len(t) : t[i] \in Glyph
      BY ElementOfSeq, Literals
    <3> QED BY <2>4, <3>1
  <2> HIDE DEF v
  <2> QED BY <2>1, <2>2, <2>3, <2>4, <2>5, <2>6
<1> HIDE DEF v
<1>1. Repaired(t) = FlattenSeq(Done(v))
  <2>1. RemoveTrailingCommas(v) = FlattenSeq(CommasDropped(v))
    BY <1>0, CommasDroppedIs
  <2>2. QuoteUnquotedKeys(FlattenSeq(CommasDropped(v))) = FlattenSeq(Quoted(v))
    BY <1>0, QuotedIs
  <2>3. ReplacePythonLiterals(FlattenSeq(Quoted(v))) = FlattenSeq(Done(v))
    BY <1>0, LiteralsAre
  <2> QED BY <2>1, <2>2, <2>3 DEF Repaired, v
<1>2. ASSUME NEW i \in 1..Len(t) PROVE Done(v)[i] = Meant(t, i)
  <2>0. /\ Outside(t, i) <=> StateAt(t, i) = "out"
        /\ Lexed(t)[i] = StateAt(t, i)
        /\ BareKey(t, i) <=> IsKey(t, i)
        /\ Drops(t, i) <=> StateAt(t, i) = "out" /\ t[i] = "," /\ Following(t, i) = "}"
    <3>1. Lexed(t)[i] = StateAt(t, i)
      BY States
    <3>2. BareKey(t, i) <=> IsKey(t, i)
      BY <1>0, IsKeyIs
    <3>3. Drops(t, i) <=> Lexed(t)[i] = "out" /\ t[i] = "," /\ Following(t, i) = "}"
      BY <1>0, DropsIs
    <3> QED BY <3>1, <3>2, <3>3 DEF Outside
  <2>1. v[i] = Escaped(t, i) /\ StateAt(v, i) = StateAt(t, i) /\ i \in 1..Len(v)
    BY <1>0
  <2>2. CASE StateAt(t, i) # "out"
    <3>1. ~Drops(v, i) /\ ~IsKey(v, i)
      BY <2>1, <2>2 DEF Drops, IsKey
    <3>2. Done(v)[i] = <<Escaped(t, i)>>
      BY <1>0, <2>1, <2>2, <3>1, QuotedTypes DEF Literal
    <3>3. Meant(t, i) = IF t[i] = "nl" /\ StateAt(t, i) = "in" THEN <<Break>> ELSE <<t[i]>>
      BY <2>0, <2>2 DEF Meant, Break
    <3> QED BY <3>2, <3>3 DEF Escaped
  <2>3. CASE StateAt(t, i) = "out"
    <3>0. v[i] = t[i]
      BY <2>1, <2>3 DEF Escaped
    <3>1. CASE IsKey(t, i)
      <4>1. Done(v)[i] = <<Quote, t[i], Quote>>
        BY <1>0, <2>1, <3>0, <3>1, QuotedTypes
      <4>2. Meant(t, i) = <<Quote, t[i], Quote>>
        BY <2>0, <2>3, <3>1 DEF Meant, Quote
      <4> QED BY <4>1, <4>2
    <3>2. CASE ~IsKey(t, i)
      <4>0. Meant(t, i) = IF Drops(t, i) THEN <<>> ELSE Literal(t, i)
        BY <2>0, <2>3, <3>2 DEF Meant, Literal
      <4>1. CASE Drops(t, i)
        BY <1>0, <2>1, <4>0, <4>1, QuotedTypes
      <4>2. CASE ~Drops(t, i)
        <5>1. Done(v)[i] = Literal(v, i)
          BY <1>0, <2>1, <3>2, <4>2, QuotedTypes
        <5>2. Literal(v, i) = Literal(t, i)
          BY <2>1, <3>0 DEF Literal
        <5> QED BY <4>0, <4>2, <5>1, <5>2
      <4> QED BY <4>1, <4>2
    <3> QED BY <3>1, <3>2
  <2> QED BY <2>2, <2>3
<1>3. Done(v) = m /\ Done(v) \in Seq(Seq(Glyph))
  <2>1. Done(v) \in Seq(Seq(Glyph))
    BY <1>0, QuotedTypes
  <2>2. Done(v) = [i \in 1..Len(t) |-> Done(v)[i]]
    BY <1>0 DEF Done
  <2>3. [i \in 1..Len(t) |-> Done(v)[i]] = m
    BY <1>2
  <2> QED BY <2>1, <2>2, <2>3
<1>4. Edited(t, LAMBDA i : Meant(t, i)) = FlattenSeq(m)
  BY <1>0 DEF Edited
<1> QED BY <1>1, <1>3, <1>4

-----------------------------------------------------------------------------
(* The balanced object                                                     *)

OpenBrace == "{"
Brace == {OpenBrace, CloseBrace}

\* The braces b among the first n characters, and where they balance.
BracesAt(t, b, n) == {j \in 1..n : t[j] = b /\ StateAt(t, j) = "out"}
Braces(t, b, n) == Cardinality(BracesAt(t, b, n))
Balances(t) == {i \in 1..Len(t) : /\ t[i] = CloseBrace /\ StateAt(t, i) = "out"
                              /\ Braces(t, OpenBrace, i) = Braces(t, CloseBrace, i)}

\* BalancedJson ends at the first place at which the braces balance.
LEMMA BalancedIs ==
  ASSUME NEW t \in Seq(Glyph)
  PROVE  BalancedJson(t) = IF Balances(t) = {} THEN NoObject ELSE SubSeq(t, 1, Min(Balances(t)))
<1> DEFINE lexed == Lexed(t)
           BraceCount(b, i) == Cardinality({j \in 1..i : t[j] = b /\ lexed[j] = "out"})
           ends == {i \in DOMAIN t :
                      t[i] = "}" /\ lexed[i] = "out" /\ BraceCount("{", i) = BraceCount("}", i)}
<1>0. /\ Len(t) \in Nat /\ DOMAIN t = 1..Len(t)
      /\ \A i \in 1..Len(t) : lexed[i] = StateAt(t, i)
  BY LenProperties, States
<1>1. ASSUME NEW i \in 1..Len(t), NEW b PROVE BraceCount(b, i) = Braces(t, b, i)
  <2>1. \A j \in 1..i : j \in 1..Len(t)
    BY <1>0
  <2>2. {j \in 1..i : t[j] = b /\ lexed[j] = "out"} = BracesAt(t, b, i)
    BY <1>0, <2>1 DEF BracesAt
  <2> QED BY <2>2 DEF Braces
<1> HIDE DEF lexed
<1>2. ends = Balances(t)
  <2> HIDE DEF BraceCount
  <2>1. \A i \in 1..Len(t) : /\ BraceCount("{", i) = Braces(t, "{", i)
                             /\ BraceCount("}", i) = Braces(t, "}", i)
    BY <1>1
  <2> QED BY <1>0, <2>1 DEF Balances, OpenBrace, CloseBrace
<1>3. BalancedJson(t) = IF ends = {} THEN NoObject ELSE SubSeq(t, 1, Min(ends))
  BY DEF BalancedJson, lexed
<1> QED BY <1>2, <1>3

\* Counting one character more.
LEMMA BraceStep ==
  ASSUME NEW t, NEW b, NEW n \in Nat
  PROVE  /\ Braces(t, b, 0) = 0 /\ Braces(t, b, n) \in Nat
         /\ Braces(t, b, n + 1) = IF t[n + 1] = b /\ StateAt(t, n + 1) = "out"
                                  THEN Braces(t, b, n) + 1 ELSE Braces(t, b, n)
<1>1. ASSUME NEW k \in Nat PROVE IsFiniteSet(BracesAt(t, b, k)) /\ Braces(t, b, k) \in Nat
  <2>1. IsFiniteSet(1..k)
    BY FS_Interval
  <2>2. BracesAt(t, b, k) \subseteq 1..k
    BY DEF BracesAt
  <2>3. IsFiniteSet(BracesAt(t, b, k))
    BY <2>1, <2>2, FS_Subset
  <2> QED BY <2>3, FS_CardinalityType DEF Braces
<1>2. Braces(t, b, 0) = 0
  <2>1. BracesAt(t, b, 0) = {}
    BY DEF BracesAt
  <2> QED BY <2>1, FS_EmptySet DEF Braces
<1>3. CASE t[n + 1] = b /\ StateAt(t, n + 1) = "out"
  <2>1. BracesAt(t, b, n + 1) = BracesAt(t, b, n) \cup {n + 1} /\ n + 1 \notin BracesAt(t, b, n)
    BY <1>3 DEF BracesAt
  <2> QED BY <1>1, <1>2, <1>3, <2>1, FS_AddElement DEF Braces
<1>4. CASE ~(t[n + 1] = b /\ StateAt(t, n + 1) = "out")
  <2>1. BracesAt(t, b, n + 1) = BracesAt(t, b, n)
    BY <1>4 DEF BracesAt
  <2> QED BY <1>1, <1>2, <1>4, <2>1 DEF Braces
<1> QED BY <1>3, <1>4

\* What follows the first balanced prefix does not matter to it.
LEMMA Cut ==
  ASSUME NEW t \in Seq(Char), Balances(t) # {}, NEW o, o = SubSeq(t, 1, Min(Balances(t)))
  PROVE  o \in Seq(Char) /\ Len(o) \in Nat \ {0} /\ Balances(o) = {Len(o)}
<1> DEFINE m == Min(Balances(t))
<1>0. Len(t) \in Nat /\ m \in Balances(t) /\ \A y \in Balances(t) : m <= y
  <2>1. Len(t) \in Nat
    BY LenProperties
  <2>2. Balances(t) \subseteq Nat
    BY <2>1 DEF Balances
  <2> QED BY <2>1, <2>2, LeastMin
<1>1. m \in 1..Len(t) /\ m \in 0..Len(t) /\ m \in Nat /\ m # 0
  BY <1>0 DEF Balances
<1> HIDE DEF m
<1>2. o \in Seq(Char) /\ Len(o) = m
  BY <1>1, Prefix DEF m
<1>3. ASSUME NEW i \in 1..m PROVE o[i] = t[i]
  <2>1. i \in Int /\ \A j \in 1..m : t[j] \in Char
    BY <1>0, <1>1, ElementOfSeq
  <2>2. 1 \in Int /\ m \in Int
    BY <1>1
  <2>3. \A j \in 1..(m - 1 + 1) : SubSeq(t, 1, m)[j] = t[1 + j - 1]
    BY <2>1, <2>2, <1>1, SubSeqProperties
  <2>4. i \in 1..(m - 1 + 1) /\ 1 + i - 1 = i
    BY <1>1
  <2>5. SubSeq(t, 1, m)[i] = t[1 + i - 1]
    BY <2>3, <2>4
  <2> QED BY <2>4, <2>5 DEF m
<1>4. ASSUME NEW i \in 1..m PROVE StateAt(o, i) = StateAt(t, i)
  <2> DEFINE n == m - 1
             G == {k \in 0..n : StateAt(o, k + 1) = StateAt(t, k + 1)}
  <2>0. n \in Nat
    BY <1>1
  <2>1. 0 \in G
    <3>1. StateAt(o, 0 + 1) = "out" /\ StateAt(t, 0 + 1) = "out"
      <4>1. o \in Seq(Char)
        BY <1>2
      <4>2. StateAt(o, 1) = "out"
        BY <4>1, States
      <4>3. StateAt(t, 1) = "out"
        BY States
      <4>4. 0 + 1 = 1
        OBVIOUS
      <4> QED BY <4>2, <4>3, <4>4
    <3>2. 0 \in 0..n
      BY <2>0
    <3> HIDE DEF n
    <3> QED BY <3>1, <3>2
  <2>2. ASSUME NEW k \in 0..n, k \in G, k # n PROVE k + 1 \in G
    <3>1. k + 1 \in 1..m /\ k + 1 \in 1..Len(o) /\ k + 1 \in 1..Len(t) /\ k + 1 \in 0..n
      BY <1>0, <1>1, <1>2, <2>2
    <3>2. StateAt(o, (k + 1) + 1) = After(StateAt(o, k + 1), o[k + 1])
      BY <1>2, <3>1, States
    <3>3. StateAt(t, (k + 1) + 1) = After(StateAt(t, k + 1), t[k + 1])
      BY <3>1, States
    <3>4. o[k + 1] = t[k + 1]
      BY <1>3, <3>1
    <3> QED BY <2>2, <3>1, <3>2, <3>3, <3>4
  <2>3. \A k \in 0..n : k \in G
    <3> HIDE DEF n, G
    <3> QED BY <2>0, <2>1, <2>2, UpTo
  <2>4. i - 1 \in 0..n /\ (i - 1) + 1 = i
    BY <1>1
  <2>5. i - 1 \in G
    BY <2>3, <2>4
  <2> QED BY <2>4, <2>5
<1>5. ASSUME NEW i \in 1..m, NEW b PROVE Braces(o, b, i) = Braces(t, b, i)
  <2>1. \A j \in 1..i : j \in 1..m
    BY <1>1
  <2>2. BracesAt(o, b, i) = BracesAt(t, b, i)
    BY <1>3, <1>4, <2>1 DEF BracesAt
  <2> QED BY <2>2 DEF Braces
<1>6. ASSUME NEW i \in 1..m PROVE i \in Balances(o) <=> i \in Balances(t)
  <2>1. i \in 1..Len(o) /\ i \in 1..Len(t)
    BY <1>0, <1>1, <1>2
  <2> QED BY <1>3, <1>4, <1>5, <2>1 DEF Balances
<1>7. m \in Balances(o)
  <2>1. m \in 1..m
    BY <1>1
  <2> QED BY <1>0, <1>6, <2>1
<1>8. ASSUME NEW i \in Balances(o) PROVE i = m
  <2>1. i \in 1..m
    BY <1>2 DEF Balances
  <2>2. m <= i
    BY <1>0, <1>6, <2>1
  <2> QED BY <1>1, <2>1, <2>2
<1> QED BY <1>1, <1>2, <1>7, <1>8

\* The repairs neither make nor move a brace.
LEMMA MeantIs ==
  ASSUME NEW t \in Seq(Char), NEW i \in 1..Len(t)
  PROVE  \/ Meant(t, i) = <<>> /\ t[i] = Comma /\ StateAt(t, i) = "out"
         \/ \E c : /\ Meant(t, i) = <<c>> /\ \A b \in Brace : c = b <=> t[i] = b
                   /\ After(StateAt(t, i), c) = After(StateAt(t, i), t[i])
         \/ Meant(t, i) = <<Quote, t[i], Quote>> /\ t[i] \in Word /\ StateAt(t, i) = "out"
<1>0. /\ Lexed(t)[i] = StateAt(t, i)
      /\ Outside(t, i) <=> StateAt(t, i) = "out"
  <2>1. Lexed(t)[i] = StateAt(t, i)
    BY States
  <2> QED BY <2>1 DEF Outside
<1>1. Break \notin Brace /\ "nl" \notin Brace /\ "true" \notin Brace /\ "True" \notin Brace
  BY DEF Brace, OpenBrace, CloseBrace, Break
<1>2. "True" # Quote /\ "true" # Quote
  BY DEF Quote
<1>3. CASE StateAt(t, i) # "out"
  <2>1. CASE StateAt(t, i) = "in" /\ t[i] = "nl"
    <3>1. Meant(t, i) = <<Break>>
      BY <1>0, <1>3, <2>1 DEF Meant, Break
    <3>2. After(StateAt(t, i), Break) = After(StateAt(t, i), t[i])
      BY <2>1, AfterIs
    <3>3. \A b \in Brace : Break = b <=> t[i] = b
      BY <1>1, <2>1
    <3> QED BY <3>1, <3>2, <3>3
  <2>2. CASE ~(StateAt(t, i) = "in" /\ t[i] = "nl")
    <3>1. Meant(t, i) = <<t[i]>>
      BY <1>0, <1>3, <2>2 DEF Meant
    <3> QED BY <3>1
  <2> QED BY <2>1, <2>2
<1>4. CASE StateAt(t, i) = "out"
  <2>1. CASE BareKey(t, i)
    <3>1. Meant(t, i) = <<Quote, t[i], Quote>>
      BY <1>0, <1>4, <2>1 DEF Meant, Quote
    <3>2. t[i] \in Word
      BY <2>1 DEF BareKey
    <3> QED BY <1>4, <3>1, <3>2
  <2>2. CASE ~BareKey(t, i) /\ t[i] = "," /\ Following(t, i) = "}"
    <3>1. Meant(t, i) = <<>>
      BY <1>0, <1>4, <2>2 DEF Meant
    <3> QED BY <1>4, <2>2, <3>1 DEF Comma
  <2>3. CASE ~BareKey(t, i) /\ ~(t[i] = "," /\ Following(t, i) = "}") /\ t[i] = "True"
    <3>1. Meant(t, i) = <<"true">>
      BY <1>0, <1>4, <2>3 DEF Meant
    <3>2. After(StateAt(t, i), "true") = After(StateAt(t, i), t[i])
      BY <1>2, <1>4, <2>3, AfterIs
    <3>3. \A b \in Brace : "true" = b <=> t[i] = b
      BY <1>1, <2>3
    <3> QED BY <3>1, <3>2, <3>3
  <2>4. CASE ~BareKey(t, i) /\ ~(t[i] = "," /\ Following(t, i) = "}") /\ t[i] # "True"
    <3>1. Meant(t, i) = <<t[i]>>
      BY <1>0, <1>4, <2>4 DEF Meant
    <3> QED BY <3>1
  <2> QED BY <2>1, <2>2, <2>3, <2>4
<1> QED BY <1>3, <1>4

\* What a character becomes leads the lexer where the character leads it.
LEMMA MeantLeads ==
  ASSUME NEW t \in Seq(Char), NEW i \in 1..Len(t)
  PROVE  Leads(StateAt(t, i), Meant(t, i), StateAt(t, i + 1))
<1>0. StateAt(t, i + 1) = After(StateAt(t, i), t[i])
  BY States
<1>1. CASE Meant(t, i) = <<>> /\ t[i] = Comma /\ StateAt(t, i) = "out"
  <2>1. After("out", Comma) = "out"
    BY AfterIs, Literals
  <2>2. Len(Meant(t, i)) = 0
    BY <1>1, Lengths
  <2> QED BY <1>0, <1>1, <2>1, <2>2 DEF Leads
<1>2. ASSUME NEW c, Meant(t, i) = <<c>>, After(StateAt(t, i), c) = After(StateAt(t, i), t[i])
      PROVE  Leads(StateAt(t, i), Meant(t, i), StateAt(t, i + 1))
  <2>1. Len(Meant(t, i)) = 1 /\ Meant(t, i)[1] = c
    BY <1>2, Lengths
  <2> QED BY <1>0, <1>2, <2>1 DEF Leads
<1>3. CASE Meant(t, i) = <<Quote, t[i], Quote>> /\ t[i] \in Word /\ StateAt(t, i) = "out"
  <2>1. After(After(After("out", Quote), t[i]), Quote) = "out" /\ After("out", t[i]) = "out"
    BY <1>3, AfterIs, Literals
  <2> DEFINE x == <<Quote, t[i], Quote>>
  <2>2. Len(x) = 3 /\ x[1] = Quote /\ x[2] = t[i] /\ x[3] = Quote
    BY Lengths
  <2>3. Meant(t, i) = x
    BY <1>3
  <2> HIDE DEF x
  <2> QED BY <1>0, <1>3, <2>1, <2>2, <2>3 DEF Leads
<1> QED BY <1>1, <1>2, <1>3, MeantIs

\* The texts before the repairs are some of those after them.
LEMMA Wider ==
  ASSUME NEW t \in Seq(Char) PROVE t \in Seq(Glyph)
<1>1. Len(t) \in Nat /\ DOMAIN t = 1..Len(t)
  BY LenProperties
<1>2. \A i \in 1..Len(t) : t[i] \in Glyph
  BY ElementOfSeq, Literals
<1> QED BY <1>1, <1>2

\* The repairs keep the count of each brace.
LEMMA BracesKept ==
  ASSUME NEW t \in Seq(Char), NEW p \in Seq(Seq(Glyph)), Len(p) = Len(t),
         \A i \in 1..Len(t) : p[i] = Meant(t, i),
         NEW w, w = FlattenSeq(p), NEW b \in Brace
  PROVE  \A i \in 0..Len(t) : Braces(w, b, Start(p, i + 1)) = Braces(t, b, i)
<1>0. /\ Len(t) \in Nat /\ Len(p) = Len(t) /\ \A i \in 1..Len(t) : p[i] = Meant(t, i)
      /\ t \in Seq(Glyph)
  <2>1. Len(t) \in Nat
    BY LenProperties
  <2>2. Len(p) = Len(t) /\ \A i \in 1..Len(t) : p[i] = Meant(t, i)
    OBVIOUS
  <2>3. t \in Seq(Glyph)
    BY Wider
  <2> QED BY <2>1, <2>2, <2>3
<1>1. \A i \in 1..(Len(t) + 1) : StateAt(w, Start(p, i) + 1) = StateAt(t, i)
  <2>1. \A i \in 1..Len(t) : Leads(StateAt(t, i), p[i], StateAt(t, i + 1))
    BY <1>0, MeantLeads
  <2> QED BY <1>0, <2>1, PieceStates
<1> DEFINE G == {n \in 0..Len(t) : Braces(w, b, Start(p, n + 1)) = Braces(t, b, n)}
<1>2. 0 \in G
  <2>1. Start(p, 1) = 0 /\ 0 + 1 = 1 /\ 0 \in 0..Len(t)
    BY <1>0, StartStep
  <2>2. Braces(w, b, 0) = 0 /\ Braces(t, b, 0) = 0
    BY BraceStep
  <2> QED BY <2>1, <2>2
<1>3. ASSUME NEW n \in 0..Len(t), n \in G, n # Len(t) PROVE n + 1 \in G
  <2> DEFINE a == Start(p, n + 1)
             x == p[n + 1]
             s == StateAt(t, n + 1)
             d == t[n + 1]
             count == Braces(t, b, n)
  <2>1. /\ n \in Nat /\ n + 1 \in 1..Len(t) /\ n + 1 \in 0..Len(t) /\ n + 1 \in 1..Len(p)
        /\ n + 1 \in 1..(Len(p) + 1) /\ n + 1 \in 1..(Len(t) + 1)
    BY <1>0, <1>3
  <2>2. a \in Nat /\ Len(x) \in Nat /\ Start(p, (n + 1) + 1) = a + Len(x)
    BY <2>1, StartStep
  <2>3. \A k \in 1..Len(x) : a + k \in 1..Len(w) /\ w[a + k] = x[k]
    BY <2>1, PieceAt
  <2>4. StateAt(w, a + 1) = s /\ Braces(w, b, a) = count
    BY <1>1, <1>3, <2>1
  <2>5. Braces(t, b, n + 1) = IF d = b /\ s = "out" THEN count + 1 ELSE count
    BY <2>1, BraceStep
  <2>6. \/ x = <<>> /\ d = Comma /\ s = "out"
        \/ \E c : /\ x = <<c>> /\ \A e \in Brace : c = e <=> d = e
        \/ x = <<Quote, d, Quote>> /\ d \in Word /\ s = "out"
    BY <1>0, <2>1, MeantIs
  <2>7. Comma \notin Brace /\ Quote \notin Brace /\ \A e \in Word : e \notin Brace
    BY DEF Comma, Quote, Word, Brace, OpenBrace, CloseBrace
  <2> HIDE DEF a, x, s, d, count
  <2>8. Braces(w, b, a + Len(x)) = Braces(t, b, n + 1)
    <3>1. CASE x = <<>> /\ d = Comma
      <4>1. Len(x) = 0 /\ a + Len(x) = a
        BY <2>2, <3>1, Lengths
      <4> QED BY <2>4, <2>5, <2>7, <3>1, <4>1
    <3>2. ASSUME NEW c, x = <<c>>, \A e \in Brace : c = e <=> d = e
          PROVE  Braces(w, b, a + Len(x)) = Braces(t, b, n + 1)
      <4>1. Len(x) = 1 /\ x[1] = c
        BY <3>2, Lengths
      <4>2. w[a + 1] = c
        BY <2>3, <4>1
      <4>3. Braces(w, b, a + 1) = IF w[a + 1] = b /\ StateAt(w, a + 1) = "out"
                                  THEN Braces(w, b, a) + 1 ELSE Braces(w, b, a)
        BY <2>2, BraceStep
      <4> QED BY <2>4, <2>5, <3>2, <4>1, <4>2, <4>3
    <3>3. CASE x = <<Quote, d, Quote>> /\ d \in Word
      <4>1. Len(x) = 3 /\ x[1] = Quote /\ x[2] = d /\ x[3] = Quote
        BY <3>3, Lengths
      <4>2. w[a + 1] = Quote /\ w[a + 2] = d /\ w[a + 3] = Quote
        BY <2>3, <4>1
      <4>3. Quote # b /\ d # b
        BY <2>7, <3>3
      <4>4. /\ a + 1 \in Nat /\ a + 2 \in Nat /\ (a + 1) + 1 = a + 2 /\ (a + 2) + 1 = a + 3
        BY <2>2
      <4>5. Braces(w, b, a + 1) = Braces(w, b, a)
        BY <2>2, <4>2, <4>3, BraceStep
      <4>6. Braces(w, b, (a + 1) + 1) = Braces(w, b, a + 1)
        <5> DEFINE e == a + 1
        <5>1. e \in Nat /\ ~(w[e + 1] = b)
          BY <4>2, <4>3, <4>4
        <5> HIDE DEF e
        <5>2. Braces(w, b, e + 1) = Braces(w, b, e)
          BY <5>1, BraceStep
        <5> QED BY <5>2 DEF e
      <4>7. Braces(w, b, (a + 2) + 1) = Braces(w, b, a + 2)
        <5> DEFINE e == a + 2
        <5>1. e \in Nat /\ ~(w[e + 1] = b)
          BY <4>2, <4>3, <4>4
        <5> HIDE DEF e
        <5>2. Braces(w, b, e + 1) = Braces(w, b, e)
          BY <5>1, BraceStep
        <5> QED BY <5>2 DEF e
      <4>8. Braces(w, b, a + 3) = count
        BY <2>4, <4>4, <4>5, <4>6, <4>7
      <4> QED BY <2>5, <4>1, <4>3, <4>8
    <3> QED BY <2>6, <3>1, <3>2, <3>3
  <2>9. Braces(w, b, Start(p, (n + 1) + 1)) = Braces(t, b, n + 1)
    BY <2>2, <2>8
  <2> QED BY <2>1, <2>9
<1>4. \A n \in 0..Len(t) : n \in G
  <2> HIDE DEF G
  <2> QED BY <1>0, <1>2, <1>3, UpTo
<1> QED BY <1>4

\* An object that balances at its end only does so after the repairs.
LEMMA BalancedKept ==
  ASSUME NEW t \in Seq(Char), Len(t) \in Nat \ {0}, Balances(t) = {Len(t)}
  PROVE  BalancedJson(Repaired(t)) = Repaired(t)
<1> DEFINE p == [i \in 1..Len(t) |-> Meant(t, i)]
           w == FlattenSeq(p)
           m == Len(t)
<1>0. p \in Seq(Seq(Glyph)) /\ Repaired(t) = w /\ w \in Seq(Glyph) /\ Len(w) \in Nat
  <2>1. p \in Seq(Seq(Glyph)) /\ Repaired(t) = w
    BY RepairedIs
  <2>2. w \in Seq(Glyph)
    BY <2>1, FlattenType
  <2> HIDE DEF w, p
  <2> QED BY <2>1, <2>2, LenProperties
<1>1. Len(p) = m /\ \A i \in 1..m : p[i] = Meant(t, i)
  OBVIOUS
<1>2. \A b \in Brace : \A i \in 0..m : Braces(w, b, Start(p, i + 1)) = Braces(t, b, i)
  <2> HIDE DEF p, m
  <2>1. p \in Seq(Seq(Glyph)) /\ Len(p) = Len(t) /\ \A i \in 1..Len(t) : p[i] = Meant(t, i)
    BY <1>0, <1>1 DEF m
  <2> QED BY <2>1, BracesKept DEF m
<1>3. \A i \in 1..(m + 1) : StateAt(w, Start(p, i) + 1) = StateAt(t, i)
  <2>1. \A i \in 1..m : Leads(StateAt(t, i), p[i], StateAt(t, i + 1))
    BY <1>1, MeantLeads
  <2>2. t \in Seq(Glyph)
    BY Wider
  <2> HIDE DEF p
  <2> QED BY <1>0, <1>1, <2>1, <2>2, PieceStates
<1>4. /\ m \in 1..m /\ m \in Nat /\ m \in 0..m /\ m \in 1..(m + 1)
      /\ \A i \in 1..m : i \in 0..m /\ i \in 1..(m + 1)
  OBVIOUS
<1>5. ASSUME NEW i \in 1..m, t[i] = CloseBrace PROVE Len(p[i]) = 1 /\ p[i][1] = CloseBrace
  <2>1. CloseBrace \notin Word /\ CloseBrace # Comma /\ CloseBrace \in Brace
    BY Literals DEF Brace
  <2>2. \E c : Meant(t, i) = <<c>> /\ c = CloseBrace
    <3>1. \/ Meant(t, i) = <<>> /\ t[i] = Comma
          \/ \E c : Meant(t, i) = <<c>> /\ \A b \in Brace : c = b <=> t[i] = b
          \/ t[i] \in Word
      BY MeantIs
    <3> QED BY <1>5, <2>1, <3>1
  <2>3. p[i] = <<CloseBrace>>
    BY <1>1, <2>2
  <2> HIDE DEF p
  <2> QED BY <2>3, Lengths
<1>6. ASSUME NEW i \in 1..m, NEW k \in 1..Len(p[i]), p[i][k] = CloseBrace
      PROVE  t[i] = CloseBrace /\ Len(p[i]) = 1
  <2>1. CloseBrace \notin Word /\ CloseBrace # Comma /\ CloseBrace \in Brace /\ CloseBrace # Quote
    BY Literals DEF Brace
  <2> DEFINE x == p[i]
  <2>2. \/ x = <<>>
        \/ \E c : x = <<c>> /\ \A b \in Brace : c = b <=> t[i] = b
        \/ x = <<Quote, t[i], Quote>> /\ t[i] \in Word
    BY <1>1, MeantIs
  <2>3. k \in 1..Len(x) /\ x[k] = CloseBrace
    BY <1>6
  <2> HIDE DEF x
  <2>4. ASSUME x = <<>> PROVE FALSE
    <3>1. Len(x) = 0
      BY <2>4, Lengths
    <3> QED BY <2>3, <3>1
  <2>5. ASSUME NEW c, x = <<c>>, \A b \in Brace : c = b <=> t[i] = b
        PROVE  t[i] = CloseBrace /\ Len(x) = 1
    <3>1. Len(x) = 1 /\ x[1] = c
      BY <2>5, Lengths
    <3>2. k = 1
      BY <2>3, <3>1
    <3> QED BY <2>1, <2>3, <2>5, <3>1, <3>2
  <2>6. ASSUME x = <<Quote, t[i], Quote>>, t[i] \in Word PROVE FALSE
    <3>1. Len(x) = 3 /\ x[1] = Quote /\ x[2] = t[i] /\ x[3] = Quote
      BY <2>6, Lengths
    <3>2. k = 1 \/ k = 2 \/ k = 3
      BY <2>3, <3>1
    <3> QED BY <2>1, <2>3, <2>6, <3>1, <3>2
  <2>7. t[i] = CloseBrace /\ Len(x) = 1
    BY <2>2, <2>4, <2>5, <2>6
  <2> QED BY <2>7 DEF x
<1> HIDE DEF p, w, m
<1>7. ASSUME NEW i \in 1..m, t[i] = CloseBrace
      PROVE  /\ Start(p, i + 1) = Start(p, i) + 1 /\ Start(p, i) + 1 \in 1..Len(w)
             /\ w[Start(p, i) + 1] = CloseBrace
             /\ Start(p, i) + 1 \in Balances(w) <=> i \in Balances(t)
  <2>1. Len(p[i]) = 1 /\ p[i][1] = CloseBrace /\ i \in 1..Len(p)
    BY <1>1, <1>5, <1>7
  <2>2. Start(p, i + 1) = Start(p, i) + 1
    <3>1. \A k \in 1..Len(p) : Start(p, k + 1) = Start(p, k) + Len(p[k])
      BY <1>0, StartStep
    <3> QED BY <2>1, <3>1
  <2>3. Start(p, i) + 1 \in 1..Len(w) /\ w[Start(p, i) + 1] = CloseBrace
    <3>1. 1 \in 1..Len(p[i])
      BY <2>1
    <3> QED BY <1>0, <2>1, <3>1, PieceAt DEF w
  <2>4. StateAt(w, Start(p, i) + 1) = StateAt(t, i)
    BY <1>3, <1>4
  <2>5. \A b \in Brace : Braces(w, b, Start(p, i) + 1) = Braces(t, b, i)
    BY <1>2, <1>4, <2>2
  <2>6. OpenBrace \in Brace /\ CloseBrace \in Brace
    BY DEF Brace
  <2>7. i \in 1..Len(t)
    BY DEF m
  <2> QED BY <1>7, <2>2, <2>3, <2>4, <2>5, <2>6, <2>7 DEF Balances
<1>8. Start(p, m + 1) = Len(w)
  BY <1>0, <1>1, StartStep DEF w
<1>9. m \in Balances(t) /\ \A i \in Balances(t) : i = m
  BY DEF m
<1>10. t[m] = CloseBrace
  BY <1>9 DEF Balances
<1>11. Len(w) \in Balances(w)
  BY <1>4, <1>7, <1>8, <1>9, <1>10
<1>12. ASSUME NEW j \in Balances(w) PROVE j = Len(w)
  <2>1. j \in 1..Len(w) /\ w[j] = CloseBrace
    BY DEF Balances
  <2>2. PICK i \in 1..Len(p) : \E k \in 1..Len(p[i]) : j = Start(p, i) + k
    BY <1>0, <2>1, Located DEF w
  <2>3. PICK k \in 1..Len(p[i]) : j = Start(p, i) + k
    BY <2>2
  <2>4. i \in 1..m
    BY <1>1
  <2>5. p[i][k] = CloseBrace
    <3>1. w[Start(p, i) + k] = p[i][k]
      BY <1>0, PieceAt DEF w
    <3> QED BY <2>1, <2>3, <3>1
  <2>6. t[i] = CloseBrace /\ Len(p[i]) = 1 /\ k = 1
    <3>1. t[i] = CloseBrace /\ Len(p[i]) = 1
      BY <1>6, <2>4, <2>5
    <3> QED BY <3>1
  <2>7. i \in Balances(t)
    BY <1>7, <1>12, <2>3, <2>4, <2>6
  <2> QED BY <1>7, <1>8, <1>9, <2>3, <2>4, <2>6, <2>7
<1>13. BalancedJson(w) = w
  <2>1. Balances(w) = {Len(w)} /\ Balances(w) # {}
    BY <1>11, <1>12
  <2>2. Balances(w) \subseteq Nat
    BY <1>0, <2>1
  <2>3. Min(Balances(w)) = Len(w)
    BY <2>1, <2>2, LeastMin
  <2>4. BalancedJson(w) = SubSeq(w, 1, Len(w))
    BY <1>0, <2>1, <2>3, BalancedIs
  <2> QED BY <1>0, <2>4, SubSeqFull
<1> QED BY <1>0, <1>13

\* Both parts of RepairsSafe, for any text.
LEMMA RepairsAreSafe ==
  ASSUME text \in Seq(Char)
  PROVE  RepairsSafe
<1>1. Repaired(text) = Edited(text, LAMBDA i : Meant(text, i))
  BY RepairedIs
<1> DEFINE object == BalancedJson(text)
<1>2. ASSUME object # NoObject PROVE BalancedJson(Repaired(object)) = Repaired(object)
  <2>1. text \in Seq(Glyph)
    BY Wider
  <2>2. Balances(text) # {} /\ object = SubSeq(text, 1, Min(Balances(text)))
    BY <1>2, <2>1, BalancedIs
  <2> HIDE DEF object
  <2>3. object \in Seq(Char) /\ Len(object) \in Nat \ {0} /\ Balances(object) = {Len(object)}
    BY <2>2, Cut
  <2> QED BY <2>3, BalancedKept
<1> QED BY <1>1, <1>2 DEF RepairsSafe

-----------------------------------------------------------------------------
(* The repairs of every text                                               *)

\* Type correctness of the text that grows.
LEMMA RepairTypeCorrect == RepairSpec => []RepairTypeOK
<1>1. RepairInit => RepairTypeOK
  <2>1. <<"{">> \in Seq(Char) /\ Len(<<"{">>) = 1
    BY DEF Char
  <2>2. 1 <= MaxLength
    BY RepairAssumption
  <2> QED
    BY <2>1, <2>2 DEF RepairInit, RepairTypeOK
<1>2. ASSUME RepairTypeOK, [RepairNext]_text PROVE RepairTypeOK'
  BY <1>2, AppendProperties, RepairAssumption DEF RepairTypeOK, RepairNext, WriteChar
<1> QED
  BY <1>1, <1>2, PTL DEF RepairSpec

\* The four repairs of _loads_json_lenient do to every character of a text of any length
\* what its place in the original calls for, and leave a balanced object one.
THEOREM RepairsSafeHolds == RepairSpec => []RepairsSafe
<1>1. RepairTypeOK => RepairsSafe
  BY RepairsAreSafe DEF RepairTypeOK
<1> QED
  BY <1>1, RepairTypeCorrect, PTL

-----------------------------------------------------------------------------
(* Replies that are cut                                                    *)

\* The tokens of replies, and the calls that the upstream may want to make.
TokenKind ==
  Opening \cup Closing \cup Dsml
    \cup {"args", "value", "close", "thought", "prose", "tag", "end_tag", "fence"}
ReplyToken ==
  [t : TokenKind, name : STRING \cup {Blank, "p1", "p2"},
   val : {Blank, "full", "part", "big", "loose"}, slip : BOOLEAN]
WantedCall == [name : STRING, args : SUBSET (STRING \X STRING)]

\* All that the upstream writes, cut or not.
FullText(fmt, wants, said) == (said[1] \o Written(fmt, wants)) \o said[2]

\* A reply that arrived up to some token, in the middle of it perhaps.
Cuts(full) ==
  {r \in Seq(ReplyToken) :
     /\ Len(r) <= Len(full)
     /\ \A i \in 1..Len(r) : r[i].t = full[i].t /\ r[i].slip = full[i].slip}

\* A token that is cut keeps its kind.
LEMMA PartOf ==
  ASSUME NEW x \in ReplyToken
  PROVE  /\ [x EXCEPT !.val = "part"] \in ReplyToken
         /\ [x EXCEPT !.val = "part"].t = x.t /\ [x EXCEPT !.val = "part"].slip = x.slip
BY DEF ReplyToken

\* A reply is cut after a token or in the middle of one.
LEMMA CutReply ==
  ASSUME NEW full \in Seq(ReplyToken), NEW n \in 0..Len(full)
  PROVE  /\ SubSeq(full, 1, n) \in Cuts(full)
         /\ n > 0 => [SubSeq(full, 1, n) EXCEPT ![n].val = "part"] \in Cuts(full)
<1> DEFINE r == SubSeq(full, 1, n)
<1>0. Len(full) \in Nat /\ \A i \in 1..Len(full) : full[i] \in ReplyToken
  BY LenProperties, ElementOfSeq
<1>1. r \in Seq(ReplyToken) /\ Len(r) = n /\ \A i \in 1..n : r[i] = full[i]
  <2>1. \A i \in 1..n : full[i] \in ReplyToken
    BY <1>0
  <2>2. 1 \in Int /\ n \in Int
    BY <1>0
  <2>3. /\ r \in Seq(ReplyToken) /\ Len(r) = IF 1 <= n THEN n - 1 + 1 ELSE 0
        /\ \A i \in 1..(n - 1 + 1) : r[i] = full[1 + i - 1]
    BY <2>1, <2>2, SubSeqProperties
  <2> HIDE DEF r
  <2>4. \A i \in 1..n : i \in 1..(n - 1 + 1) /\ 1 + i - 1 = i
    BY <1>0
  <2>5. Len(r) = n
    BY <1>0, <2>3
  <2> QED BY <2>3, <2>4, <2>5
<1> HIDE DEF r
<1>2. r \in Cuts(full)
  BY <1>0, <1>1 DEF Cuts
<1>3. ASSUME n > 0 PROVE [r EXCEPT ![n].val = "part"] \in Cuts(full)
  <2> DEFINE e == [r[n] EXCEPT !.val = "part"]
             s == [r EXCEPT ![n] = e]
  <2>1. n \in 1..Len(r) /\ r[n] \in ReplyToken
    BY <1>0, <1>1, <1>3
  <2>2. e \in ReplyToken /\ e.t = r[n].t /\ e.slip = r[n].slip
    BY <2>1, PartOf
  <2> HIDE DEF e
  <2>3. /\ s \in Seq(ReplyToken) /\ Len(s) = Len(r)
        /\ \A j \in 1..Len(r) : s[j] = IF j = n THEN e ELSE r[j]
    BY <1>1, <2>1, <2>2, ExceptSeq
  <2>4. [r EXCEPT ![n].val = "part"] = s
    BY DEF e
  <2> HIDE DEF s
  <2>5. s \in Cuts(full)
    BY <1>0, <1>1, <2>2, <2>3 DEF Cuts
  <2> QED BY <2>4, <2>5
<1> QED BY <1>2, <1>3 DEF r

\* The places of some kinds of tokens.
PlacesOf(r, K) == {i \in 1..Len(r) : r[i].t \in K}

\* They are finitely many, and counted.
LEMMA Placed ==
  ASSUME NEW r \in Seq(ReplyToken), NEW K
  PROVE  /\ IsFiniteSet(PlacesOf(r, K)) /\ Count(r, K) = Cardinality(PlacesOf(r, K))
         /\ Count(r, K) \in Nat /\ (Count(r, K) = 0 <=> PlacesOf(r, K) = {})
<1>1. Len(r) \in Nat /\ DOMAIN r = 1..Len(r)
  BY LenProperties
<1>2. Places(r, K, 1, Len(r)) = PlacesOf(r, K)
  BY <1>1 DEF Places, PlacesOf
<1>3. IsFiniteSet(1..Len(r))
  BY <1>1, FS_Interval
<1>4. PlacesOf(r, K) \in SUBSET (1..Len(r))
  BY DEF PlacesOf
<1>5. IsFiniteSet(PlacesOf(r, K))
  BY <1>3, <1>4, FS_Subset
<1>6. Count(r, K) = Cardinality(PlacesOf(r, K))
  BY <1>2 DEF Count
<1> QED BY <1>5, <1>6, FS_CardinalityType, FS_EmptySet

\* Fewer kinds have fewer places.
LEMMA FewerPlaces ==
  ASSUME NEW r \in Seq(ReplyToken), NEW K, NEW M, K \subseteq M
  PROVE  Count(r, K) <= Count(r, M)
<1>1. PlacesOf(r, K) \in SUBSET PlacesOf(r, M)
  BY DEF PlacesOf
<1> QED BY <1>1, Placed, FS_Subset

\* Calls as JSON objects, one after another: no bracket but theirs, and every one that
\* ends began.
LEMMA JsonBody ==
  ASSUME NEW p \in Seq(Seq(ReplyToken)),
         \A i \in 1..Len(p) : /\ Len(p[i]) = 3
                             /\ p[i][1].t = "call" /\ p[i][2].t = "args" /\ p[i][3].t = "end_call"
  PROVE  /\ FlattenSeq(p) \in Seq(ReplyToken) /\ Len(FlattenSeq(p)) \in Nat
         /\ \A k \in 1..Len(FlattenSeq(p)) :
              /\ FlattenSeq(p)[k].t \in {"call", "args", "end_call"}
              /\ FlattenSeq(p)[k].t = "end_call" =>
                   k - 2 \in 1..Len(FlattenSeq(p)) /\ FlattenSeq(p)[k - 2].t = "call"
<1> DEFINE f == FlattenSeq(p)
<1>1. f \in Seq(ReplyToken) /\ Len(f) \in Nat
  BY FlattenType, LenProperties
<1>2. ASSUME NEW k \in 1..Len(f)
      PROVE  /\ f[k].t \in {"call", "args", "end_call"}
             /\ f[k].t = "end_call" => k - 2 \in 1..Len(f) /\ f[k - 2].t = "call"
  <2>1. PICK i \in 1..Len(p) : \E m \in 1..Len(p[i]) : k = Start(p, i) + m
    BY Located
  <2>2. PICK m \in 1..3 : k = Start(p, i) + m
    BY <2>1
  <2>3. \A n \in 1..3 : Start(p, i) + n \in 1..Len(f) /\ f[Start(p, i) + n] = p[i][n]
    BY PieceAt, SMTT(20)
  <2>4. Start(p, i) \in Nat
    <3>1. Len(p) \in Nat /\ i \in 1..(Len(p) + 1)
      BY LenProperties
    <3> QED BY <3>1, StartStep
  <2>5. 1 \in 1..3 /\ 2 \in 1..3 /\ 3 \in 1..3
    OBVIOUS
  <2>6. f[k] = p[i][m]
    BY <2>2, <2>3
  <2>7. CASE m = 3
    <3>1. k - 2 = Start(p, i) + 1
      BY <2>2, <2>4, <2>7
    <3>2. k - 2 \in 1..Len(f) /\ f[k - 2] = p[i][1]
      BY <2>3, <2>5, <3>1
    <3> QED BY <2>6, <2>7, <3>2
  <2>8. CASE m = 1 \/ m = 2
    <3>1. f[k].t = "call" \/ f[k].t = "args"
      BY <2>6, <2>8
    <3> QED BY <3>1
  <2> QED BY <2>2, <2>7, <2>8
<1> QED BY <1>1, <1>2

\* A sequence of three.
LEMMA Triple ==
  ASSUME NEW S, NEW a \in S, NEW b \in S, NEW c \in S
  PROVE  /\ <<a, b, c>> \in Seq(S) /\ Len(<<a, b, c>>) = 3
         /\ <<a, b, c>>[1] = a /\ <<a, b, c>>[2] = b /\ <<a, b, c>>[3] = c
OBVIOUS

\* The text of a list of calls, place by place.
LEMMA ListText ==
  ASSUME NEW fmt \in {"list", "loose"}, NEW wants \in Seq(WantedCall)
  PROVE  \E p \in Seq(Seq(ReplyToken)) :
           /\ Written(fmt, wants) = (<<Sign("list")>> \o FlattenSeq(p)) \o <<Sign("end_list")>>
           /\ \A i \in 1..Len(p) :
                Len(p[i]) = 3 /\ p[i][1].t = "call" /\ p[i][2].t = "args" /\ p[i][3].t = "end_call"
<1> DEFINE val(c) == IF fmt = "loose" THEN fmt ELSE Size(c)
           p == [i \in DOMAIN wants |-> JsonCall(wants[i], val(wants[i]))]
<1>1. Written(fmt, wants) = (<<Sign("list")>> \o FlattenSeq(p)) \o <<Sign("end_list")>>
  <2>1. Written(fmt, wants) = InList(fmt, wants)
    BY DEF Written, DsmlFormats
  <2> QED BY <2>1 DEF InList, Joined
<1>2. ASSUME NEW c \in WantedCall, NEW v \in {"full", "big", "loose"}
      PROVE  /\ JsonCall(c, v) \in Seq(ReplyToken) /\ Len(JsonCall(c, v)) = 3
             /\ JsonCall(c, v)[1].t = "call" /\ JsonCall(c, v)[2].t = "args"
             /\ JsonCall(c, v)[3].t = "end_call"
  <2>1. /\ Mark("call", c.name, Blank, FALSE) \in ReplyToken /\ Mark("args", Blank, v, FALSE) \in ReplyToken
        /\ Sign("end_call") \in ReplyToken
    BY DEF Mark, Sign, ReplyToken, TokenKind, Opening, Closing, Dsml, WantedCall
  <2>2. /\ Mark("call", c.name, Blank, FALSE).t = "call" /\ Mark("args", Blank, v, FALSE).t = "args"
        /\ Sign("end_call").t = "end_call"
    BY DEF Mark, Sign
  <2> QED BY ONLY <2>1, <2>2, Triple DEF JsonCall
<1>3. \A c : val(c) \in {"full", "big", "loose"}
  BY DEF Size
<1>4. Len(wants) \in Nat /\ DOMAIN wants = 1..Len(wants) /\ \A i \in 1..Len(wants) : wants[i] \in WantedCall
  BY LenProperties, ElementOfSeq
<1> HIDE DEF val
<1>5. \A i \in 1..Len(wants) : p[i] = JsonCall(wants[i], val(wants[i])) /\ p[i] \in Seq(ReplyToken)
  BY <1>2, <1>3, <1>4
<1>6. p \in Seq(Seq(ReplyToken)) /\ Len(p) = Len(wants)
  BY <1>4, <1>5
<1>7. \A i \in 1..Len(p) :
        Len(p[i]) = 3 /\ p[i][1].t = "call" /\ p[i][2].t = "args" /\ p[i][3].t = "end_call"
  BY <1>2, <1>3, <1>4, <1>5, <1>6
<1> QED BY <1>1, <1>6, <1>7

\* The tokens of a block that needs no forgiveness: each one closes its own kind.
BlockToken == {x \in ReplyToken : x.t \notin {"list", "end_list", "close"} /\ ~x.slip}

\* Blocks are written in such tokens.
LEMMA BlockTokens ==
  ASSUME NEW wants \in Seq(WantedCall)
  PROVE  Written("dsml", wants) \in Seq(BlockToken)
<1> DEFINE p == [i \in DOMAIN wants |-> DsmlCall(wants[i], "dsml")]
           begin == Mark("calls", Blank, Blank, FALSE)
           end == Mark("end_calls", Blank, Blank, FALSE)
<1>1. Written("dsml", wants) = (<<begin>> \o FlattenSeq(p)) \o <<end>>
  <2>1. Written("dsml", wants) = InBlocks("dsml", wants)
    BY DEF Written, DsmlFormats
  <2> QED BY <2>1 DEF InBlocks, Joined
<1>2. ASSUME NEW name \in STRING \cup {Blank, "p1", "p2"}, NEW v \in {Blank, "full", "big"},
             NEW t \in {"calls", "end_calls", "invoke", "end_invoke", "param", "end_param", "value"}
      PROVE  Mark(t, name, v, FALSE) \in BlockToken
  BY DEF Mark, BlockToken, ReplyToken, TokenKind, Dsml
<1>3. begin \in BlockToken /\ end \in BlockToken
  BY <1>2
<1>4. ASSUME NEW c \in WantedCall PROVE DsmlCall(c, "dsml") \in Seq(BlockToken)
  <2> DEFINE Param(q) == <<Mark("param", q, Blank, FALSE), Mark("value", Blank, Size(c), FALSE),
                           Mark("end_param", Blank, Blank, FALSE)>>
             params == IF Cardinality(c.args) = 1 THEN Param("p1") ELSE Param("p1") \o Param("p2")
             open == Mark("invoke", c.name, Blank, FALSE)
             close == Mark("end_invoke", Blank, Blank, FALSE)
  <2>1. DsmlCall(c, "dsml") = (<<open>> \o params) \o <<close>>
    BY DEF DsmlCall
  <2>2. Size(c) \in {Blank, "full", "big"} /\ c.name \in STRING
    BY DEF Size, WantedCall
  <2>3. open \in BlockToken /\ close \in BlockToken
    BY <1>2, <2>2
  <2>4. Param("p1") \in Seq(BlockToken) /\ Param("p2") \in Seq(BlockToken)
    <3>1. ASSUME NEW q \in {"p1", "p2"} PROVE Param(q) \in Seq(BlockToken)
      <4>1. /\ Mark("param", q, Blank, FALSE) \in BlockToken
            /\ Mark("value", Blank, Size(c), FALSE) \in BlockToken
            /\ Mark("end_param", Blank, Blank, FALSE) \in BlockToken
        BY <1>2, <2>2
      <4> QED BY <4>1, Triple, ZenonT(40)
    <3> QED BY <3>1
  <2> HIDE DEF Param, open, close
  <2>5. params \in Seq(BlockToken)
    BY <2>4, ConcatProperties
  <2> HIDE DEF params
  <2>6. <<open>> \in Seq(BlockToken) /\ <<close>> \in Seq(BlockToken)
    BY <2>3
  <2> QED BY <2>1, <2>5, <2>6, ConcatProperties, ZenonT(40)
<1>5. p \in Seq(Seq(BlockToken))
  <2>1. Len(wants) \in Nat /\ DOMAIN wants = 1..Len(wants) /\ \A i \in 1..Len(wants) : wants[i] \in WantedCall
    BY LenProperties, ElementOfSeq
  <2> QED BY <1>4, <2>1
<1> HIDE DEF p, begin, end
<1>6. FlattenSeq(p) \in Seq(BlockToken)
  BY <1>5, FlattenType
<1>7. <<begin>> \in Seq(BlockToken) /\ <<end>> \in Seq(BlockToken)
  BY <1>3
<1> QED BY <1>1, <1>6, <1>7, ConcatProperties

\* What is said before and after the calls closes nothing before them, and opens no list.
Ahead == {x \in ReplyToken : x.t \in {"thought", "prose", "brace"} /\ ~x.slip}
Behind == {x \in ReplyToken : x.t \in {"prose", "end_brace"} /\ ~x.slip}

\* None of what is said around the calls is a token of theirs.
LEMMA SaidTokens ==
  ASSUME NEW said \in Arounds
  PROVE  said[1] \in Seq(Ahead) /\ said[2] \in Seq(Behind)
<1>1. /\ Sign("thought") \in Ahead /\ Sign("prose") \in Ahead /\ Sign("brace") \in Ahead
      /\ Sign("prose") \in Behind /\ Sign("end_brace") \in Behind
  BY DEF Sign, Mark, Ahead, Behind, ReplyToken, TokenKind, Opening, Closing
<1>2. /\ <<>> \in Seq(Ahead) /\ <<Sign("thought"), Sign("prose")>> \in Seq(Ahead)
      /\ <<Sign("brace")>> \in Seq(Ahead)
      /\ <<>> \in Seq(Behind) /\ <<Sign("prose")>> \in Seq(Behind)
      /\ <<Sign("end_brace")>> \in Seq(Behind)
  BY <1>1
<1>3. ASSUME NEW a \in Seq(Ahead), NEW b \in Seq(Behind), said = <<a, b>>
      PROVE  said[1] \in Seq(Ahead) /\ said[2] \in Seq(Behind)
  BY <1>3
<1>4. CASE said = <<<<>>, <<>>>>
  BY <1>2, <1>3, <1>4
<1>5. CASE said = <<<<Sign("thought"), Sign("prose")>>, <<Sign("prose")>>>>
  BY <1>2, <1>3, <1>5
<1>6. CASE said = <<<<Sign("brace")>>, <<>>>>
  BY <1>2, <1>3, <1>6
<1>7. CASE said = <<<<Sign("brace")>>, <<Sign("end_brace")>>>>
  BY <1>2, <1>3, <1>7
<1> QED BY <1>4, <1>5, <1>6, <1>7 DEF Arounds

\* Of blocks that are cut before they end, a tag is left over.
LEMMA BlocksTruncated ==
  ASSUME NEW full \in Seq(BlockToken), NEW r \in Cuts(full),
         Count(r, {"list", "calls"}) > Count(r, {"end_list", "end_calls"})
  PROVE  LooksTruncated(r)
<1>1. r \in Seq(ReplyToken) /\ Len(r) \in Nat /\ DOMAIN r = 1..Len(r)
  BY LenProperties DEF Cuts
<1>2. ASSUME NEW i \in 1..Len(r)
      PROVE  r[i].t \notin {"list", "end_list", "close"} /\ ~r[i].slip
  <2>1. i \in 1..Len(full) /\ r[i].t = full[i].t /\ r[i].slip = full[i].slip
    BY <1>1, LenProperties DEF Cuts
  <2>2. full[i] \in BlockToken
    BY <2>1, ElementOfSeq
  <2> QED BY <2>1, <2>2 DEF BlockToken
<1>3. Seen(r) = r
  <2>1. r = [i \in 1..Len(r) |-> r[i]]
    BY <1>1
  <2>2. Seen(r) = [i \in 1..Len(r) |-> IF r[i].slip /\ ~forgiving THEN Sign("prose") ELSE r[i]]
    BY <1>1 DEF Seen
  <2>3. \A i \in 1..Len(r) : (IF r[i].slip /\ ~forgiving THEN Sign("prose") ELSE r[i]) = r[i]
    BY <1>2
  <2> QED BY <2>1, <2>2, <2>3
<1>4. Count(r, {"calls"}) = Count(r, {"list", "calls"})
  <2>1. PlacesOf(r, {"calls"}) = PlacesOf(r, {"list", "calls"})
    BY <1>2 DEF PlacesOf
  <2> QED BY <1>1, <2>1, Placed
<1>5. Count(r, {"end_calls"}) = Count(r, {"end_list", "end_calls"})
  <2>1. PlacesOf(r, {"end_calls"}) = PlacesOf(r, {"end_list", "end_calls"})
    BY <1>2 DEF PlacesOf
  <2> QED BY <1>1, <2>1, Placed
<1>6. Count(r, {"close"}) = 0
  <2>1. PlacesOf(r, {"close"}) = {}
    BY <1>2 DEF PlacesOf
  <2> QED BY <1>1, <2>1, Placed
<1>7. /\ Count(r, {"calls"}) \in Nat /\ Count(r, {"end_calls"}) \in Nat
      /\ Count(r, Dsml \cup {"list", "tag"}) \in Nat
  BY <1>1, Placed
<1>8. Unended(r, "calls", "end_calls")
  BY <1>3, <1>4, <1>5, <1>6, <1>7 DEF Unended
<1>9. Count(r, Dsml \cup {"list", "tag"}) > 0
  <2>1. {"calls"} \subseteq Dsml \cup {"list", "tag"}
    BY DEF Dsml
  <2>2. Count(r, {"calls"}) <= Count(r, Dsml \cup {"list", "tag"})
    BY <1>1, <2>1, FewerPlaces
  <2> QED BY <1>4, <1>5, <1>7, <2>2
<1> QED BY <1>8, <1>9 DEF LooksTruncated

\* One sequence has the elements of two others, one after the other.
Follows(u, s, t) ==
  /\ Len(s) \in Nat /\ Len(t) \in Nat /\ Len(u) = Len(s) + Len(t)
  /\ \A i \in 1..Len(s) : u[i] = s[i]
  /\ \A i \in 1..Len(t) : u[Len(s) + i] = t[i]

\* So does their concatenation.
LEMMA Juxtaposed ==
  ASSUME NEW S, NEW s \in Seq(S), NEW t \in Seq(S)
  PROVE  s \o t \in Seq(S) /\ Follows(s \o t, s, t)
<1>1. Len(s) \in Nat /\ Len(t) \in Nat
  BY LenProperties
<1>2. /\ s \o t \in Seq(S) /\ Len(s \o t) = Len(s) + Len(t)
      /\ \A i \in 1..(Len(s) + Len(t)) : (s \o t)[i] = IF i <= Len(s) THEN s[i] ELSE t[i - Len(s)]
  BY ConcatProperties
<1>3. ASSUME NEW i \in 1..Len(s) PROVE (s \o t)[i] = s[i]
  <2>1. i \in 1..(Len(s) + Len(t)) /\ i <= Len(s)
    BY <1>1
  <2> QED BY <1>2, <2>1
<1>4. ASSUME NEW i \in 1..Len(t) PROVE (s \o t)[Len(s) + i] = t[i]
  <2>1. Len(s) + i \in 1..(Len(s) + Len(t)) /\ ~(Len(s) + i <= Len(s)) /\ (Len(s) + i) - Len(s) = i
    BY <1>1
  <2> QED BY <1>2, <2>1
<1> QED BY <1>1, <1>2, <1>3, <1>4 DEF Follows

\* Of a list that is cut before it ends, more brackets open than close: every call that
\* ends began in it.
LEMMA ListTruncated ==
  ASSUME NEW head \in Seq(Ahead), NEW tail \in Seq(Behind), NEW body \in Seq(ReplyToken),
         \A k \in 1..Len(body) :
           /\ body[k].t \in {"call", "args", "end_call"}
           /\ body[k].t = "end_call" => k - 2 \in 1..Len(body) /\ body[k - 2].t = "call",
         NEW full, full = (head \o ((<<Sign("list")>> \o body) \o <<Sign("end_list")>>)) \o tail,
         NEW r \in Cuts(full),
         Count(r, {"list", "calls"}) > Count(r, {"end_list", "end_calls"})
  PROVE  LooksTruncated(r)
<1> DEFINE h == Len(head)
           b == Len(body)
           n == Len(r)
<1>0. h \in Nat /\ b \in Nat /\ Len(tail) \in Nat
  BY LenProperties
<1>1. r \in Seq(ReplyToken) /\ n \in Nat /\ DOMAIN r = 1..n
  BY LenProperties DEF Cuts
<1>2. /\ Sign("list") \in ReplyToken /\ Sign("list").t = "list"
      /\ Sign("end_list") \in ReplyToken /\ Sign("end_list").t = "end_list"
  BY DEF Sign, Mark, ReplyToken, TokenKind, Opening, Closing
<1>3. head \in Seq(ReplyToken) /\ tail \in Seq(ReplyToken)
  BY DEF Ahead, Behind
<1>4. /\ Len(full) = h + b + 2 + Len(tail)
      /\ \A i \in 1..h : full[i] = head[i]
      /\ full[h + 1] = Sign("list")
      /\ \A k \in 1..b : full[h + 1 + k] = body[k]
      /\ full[h + b + 2] = Sign("end_list")
      /\ \A k \in 1..Len(tail) : full[h + b + 2 + k] = tail[k]
  <2> DEFINE first == <<Sign("list")>>
             last == <<Sign("end_list")>>
             open == first \o body
             list == open \o last
             front == head \o list
  <2>1. /\ first \in Seq(ReplyToken) /\ last \in Seq(ReplyToken)
        /\ Len(first) = 1 /\ Len(last) = 1 /\ first[1] = Sign("list") /\ last[1] = Sign("end_list")
    BY <1>2
  <2> HIDE DEF first, last
  <2>a. open \in Seq(ReplyToken) /\ Follows(open, first, body)
    BY <2>1, Juxtaposed
  <2>2. /\ open \in Seq(ReplyToken) /\ Len(open) = 1 + b /\ open[1] = Sign("list")
        /\ \A k \in 1..b : open[1 + k] = body[k]
    <3>1. 1 \in 1..Len(first)
      BY <2>1
    <3> QED BY <2>1, <2>a, <3>1 DEF Follows
  <2> HIDE DEF open
  <2>b. list \in Seq(ReplyToken) /\ Follows(list, open, last)
    BY <2>1, <2>2, Juxtaposed
  <2>3. /\ list \in Seq(ReplyToken) /\ Len(list) = b + 2
        /\ \A k \in 1..(1 + b) : list[k] = open[k]
        /\ list[b + 2] = Sign("end_list")
    <3>1. 1 \in 1..Len(last)
      BY <2>1
    <3>2. /\ list \in Seq(ReplyToken) /\ Len(list) = Len(open) + Len(last)
          /\ \A k \in 1..Len(open) : list[k] = open[k]
          /\ list[Len(open) + 1] = last[1]
      BY <2>b, <3>1 DEF Follows
    <3>3. Len(open) + 1 = b + 2 /\ Len(open) + Len(last) = b + 2
      BY <1>0, <2>1, <2>2
    <3> QED BY <2>1, <2>2, <3>2, <3>3
  <2> HIDE DEF list
  <2>c. front \in Seq(ReplyToken) /\ Follows(front, head, list)
    BY <1>3, <2>3, Juxtaposed
  <2>4. /\ front \in Seq(ReplyToken) /\ Len(front) = h + Len(list)
        /\ \A i \in 1..h : front[i] = head[i]
        /\ \A k \in 1..Len(list) : front[h + k] = list[k]
    BY <2>c DEF Follows
  <2>5. full = front \o tail
    BY DEF list, open, first, last
  <2> HIDE DEF front
  <2>d. Follows(full, front, tail)
    <3>1. Follows(front \o tail, front, tail)
      BY <1>3, <2>4, Juxtaposed
    <3> QED BY <2>5, <3>1
  <2>6. /\ Len(full) = Len(front) + Len(tail)
        /\ \A i \in 1..Len(front) : full[i] = front[i]
        /\ \A k \in 1..Len(tail) : full[Len(front) + k] = tail[k]
    BY <2>d DEF Follows
  <2> HIDE DEF h, b
  <2>7. Len(front) = h + b + 2
    BY <1>0, <2>3, <2>4
  <2>8. ASSUME NEW i \in 1..h PROVE full[i] = head[i]
    <3>1. i \in 1..Len(front)
      BY <1>0, <2>7
    <3> QED BY <2>4, <2>6, <3>1
  <2>9. ASSUME NEW k \in 1..(b + 2) PROVE full[h + k] = list[k]
    <3>1. h + k \in 1..Len(front) /\ k \in 1..Len(list)
      BY <1>0, <2>3, <2>7
    <3> QED BY <2>4, <2>6, <3>1
  <2>10. full[h + 1] = Sign("list")
    <3>1. 1 \in 1..(b + 2) /\ 1 \in 1..(1 + b)
      BY <1>0
    <3>2. full[h + 1] = list[1] /\ list[1] = open[1]
      BY <2>3, <2>9, <3>1
    <3> QED BY <2>2, <3>2
  <2>11. ASSUME NEW k \in 1..b PROVE full[h + 1 + k] = body[k]
    <3>1. 1 + k \in 1..(b + 2) /\ 1 + k \in 1..(1 + b) /\ h + (1 + k) = h + 1 + k
      BY <1>0
    <3>2. full[h + (1 + k)] = list[1 + k] /\ list[1 + k] = open[1 + k] /\ open[1 + k] = body[k]
      BY <2>2, <2>3, <2>9, <3>1
    <3> QED BY <3>1, <3>2
  <2>12. full[h + b + 2] = Sign("end_list")
    <3>1. b + 2 \in 1..(b + 2) /\ h + (b + 2) = h + b + 2
      BY <1>0
    <3>2. full[h + (b + 2)] = list[b + 2]
      BY <2>9, <3>1
    <3> QED BY <2>3, <3>1, <3>2
  <2> QED BY <2>6, <2>7, <2>8, <2>10, <2>11, <2>12, ZenonT(40)
<1> HIDE DEF h, b, n
<1>5. \A i \in 1..h : full[i].t \in {"thought", "prose", "brace"}
  <2>1. \A i \in 1..h : head[i] \in Ahead
    BY ElementOfSeq DEF h
  <2> QED BY <1>4, <2>1 DEF Ahead
<1>6. \A k \in 1..Len(tail) : full[h + b + 2 + k].t \in {"prose", "end_brace"}
  <2>1. \A k \in 1..Len(tail) : tail[k] \in Behind
    BY ElementOfSeq
  <2> QED BY <1>4, <2>1 DEF Behind
<1>7. \A i \in 1..n : i \in 1..Len(full) /\ r[i].t = full[i].t
  <2>1. n <= Len(full) /\ \A i \in 1..n : r[i].t = full[i].t
    BY DEF Cuts, n
  <2>2. Len(full) \in Nat /\ n \in Nat
    BY <1>0, <1>1, <1>4 DEF n
  <2> QED BY ONLY <2>1, <2>2
\* every place of a token
<1>8. ASSUME NEW i \in 1..Len(full)
      PROVE  \/ i \in 1..h \/ i = h + 1 \/ i = h + b + 2
             \/ \E k \in 1..b : i = h + 1 + k
             \/ \E k \in 1..Len(tail) : i = h + b + 2 + k
  <2>1. CASE i > h + 1 /\ i < h + b + 2
    <3>1. i - (h + 1) \in 1..b /\ i = h + 1 + (i - (h + 1))
      BY <1>0, <1>4, <2>1
    <3> QED BY <3>1
  <2>2. CASE i > h + b + 2
    <3>1. i - (h + b + 2) \in 1..Len(tail) /\ i = h + b + 2 + (i - (h + b + 2))
      BY <1>0, <1>4, <2>2
    <3> QED BY <3>1
  <2> QED BY <1>0, <1>4, <2>1, <2>2
<1>9. \A i \in 1..n : r[i].t \in {"list", "calls"} => i = h + 1
  <2> SUFFICES ASSUME NEW i \in 1..n, r[i].t \in {"list", "calls"} PROVE i = h + 1
    OBVIOUS
  <2>1. i \in 1..Len(full) /\ full[i].t \in {"list", "calls"}
    BY <1>7
  <2>2. \A k \in 1..b : full[h + 1 + k].t \in {"call", "args", "end_call"}
    BY <1>4, ZenonT(40) DEF b
  <2>3. full[h + b + 2].t = "end_list"
    BY <1>2, <1>4
  <2>4. ~(i \in 1..h)
    BY <1>5, <2>1
  <2>5. ~(\E k \in 1..b : i = h + 1 + k)
    BY <2>1, <2>2
  <2>6. ~(\E k \in 1..Len(tail) : i = h + b + 2 + k)
    BY <1>6, <2>1
  <2> QED BY ONLY <1>8, <2>1, <2>3, <2>4, <2>5, <2>6
<1>d. full[h + 1].t = "list" /\ full[h + b + 2].t = "end_list"
  BY <1>2, <1>4
<1>10. h + 1 \in 1..n /\ r[h + 1].t = "list" /\ Count(r, {"list", "calls"}) = 1
  <2>1. /\ Count(r, {"list", "calls"}) \in Nat /\ Count(r, {"end_list", "end_calls"}) \in Nat
        /\ Count(r, {"list", "calls"}) = Cardinality(PlacesOf(r, {"list", "calls"}))
        /\ Count(r, {"list", "calls"}) = 0 <=> PlacesOf(r, {"list", "calls"}) = {}
    BY <1>1, Placed
  <2>2. PlacesOf(r, {"list", "calls"}) # {}
    BY <2>1
  <2>3. PICK i \in 1..n : r[i].t \in {"list", "calls"}
    BY <2>2 DEF PlacesOf, n
  <2>4. i = h + 1
    BY <1>9, <2>3
  <2>5. PlacesOf(r, {"list", "calls"}) = {h + 1}
    BY <1>9, <2>3, <2>4 DEF PlacesOf, n
  <2>6. Cardinality({h + 1}) = 1
    BY FS_Singleton
  <2>7. r[h + 1].t = "list"
    BY <1>7, <1>d, <2>3, <2>4
  <2> QED BY <2>1, <2>3, <2>4, <2>5, <2>6, <2>7
<1>11. n < h + b + 2
  <2>1. SUFFICES ASSUME ~(n < h + b + 2) PROVE FALSE
    OBVIOUS
  <2>2. h + b + 2 \in 1..n
    BY <1>0, <1>1, <2>1 DEF n
  <2>3. r[h + b + 2].t = "end_list"
    BY <1>7, <1>d, <2>2
  <2>4. PlacesOf(r, {"end_list", "end_calls"}) # {}
    BY <2>2, <2>3 DEF PlacesOf, n
  <2>5. Count(r, {"end_list", "end_calls"}) # 0 /\ Count(r, {"end_list", "end_calls"}) \in Nat
    BY <1>1, <2>4, Placed
  <2> QED BY <1>10, <2>5
<1> DEFINE C == {i \in 1..n : r[i].t \in Closing}
           O == {i \in 1..n : Opens(r[i])}
           f == [j \in C |-> j - 2]
<1>12. ASSUME NEW j \in C PROVE j - 2 \in O \ {h + 1}
  <2>1. j \in 1..n /\ full[j].t \in Closing /\ j \in 1..Len(full)
    BY <1>7
  <2>2. PICK k \in 1..b : j = h + 1 + k
    <3>1. ~(j \in 1..h)
      BY <1>5, <2>1 DEF Closing
    <3>2. j # h + 1
      BY <1>d, <2>1 DEF Closing
    <3>3. j # h + b + 2 /\ ~(\E k \in 1..Len(tail) : j = h + b + 2 + k)
      BY <1>0, <1>1, <1>11, <2>1 DEF n
    <3> QED BY ONLY <1>8, <2>1, <3>1, <3>2, <3>3
  <2>3. full[j] = body[k]
    BY <1>4, <2>2
  <2>4. body[k].t = "end_call"
    BY <2>1, <2>3 DEF Closing, b
  <2>5. k - 2 \in 1..b /\ body[k - 2].t = "call"
    BY <2>4 DEF b
  <2>6. j - 2 = h + 1 + (k - 2) /\ j - 2 \in 1..n /\ j - 2 # h + 1
    BY <1>0, <1>1, <2>1, <2>2, <2>5 DEF n
  <2>7. r[j - 2].t = "call"
    <3>1. full[h + 1 + (k - 2)] = body[k - 2]
      BY <1>4, <2>5
    <3>2. r[j - 2].t = full[j - 2].t
      BY <1>7, <2>6
    <3> QED BY <2>5, <2>6, <3>1, <3>2
  <2> QED BY <2>6, <2>7 DEF Opens, Opening
<1>13. /\ IsFiniteSet(C) /\ IsFiniteSet(O)
       /\ Cardinality(C) \in Nat /\ Cardinality(O) \in Nat /\ h + 1 \in O
  <2>1. IsFiniteSet(1..n)
    <3>1. n \in Int /\ 1 \in Int
      BY <1>1 DEF n
    <3> QED BY <3>1, FS_Interval
  <2>2. C \in SUBSET (1..n) /\ O \in SUBSET (1..n)
    OBVIOUS
  <2>3. h + 1 \in O
    BY <1>10 DEF Opens, Opening
  <2> HIDE DEF C, O
  <2> QED BY <2>1, <2>2, <2>3, FS_Subset, FS_CardinalityType
<1>14. Cardinality(C) < Cardinality(O)
  <2>1. f \in Injection(C, O \ {h + 1})
    <3>1. \A j \in C : j \in Int
      BY <1>1 DEF n
    <3> HIDE DEF C, O
    <3>2. f \in [C -> O \ {h + 1}]
      BY <1>12
    <3>3. \A i, j \in C : f[i] = f[j] => i = j
      BY <3>1
    <3> QED BY <3>2, <3>3 DEF Injection, IsInjective
  <2> HIDE DEF C, O, f
  <2>2. /\ IsFiniteSet(O \ {h + 1}) /\ Cardinality(O \ {h + 1}) = Cardinality(O) - 1
    BY <1>13, FS_RemoveElement
  <2>3. Cardinality(C) <= Cardinality(O \ {h + 1})
    BY <2>1, <2>2, FS_Injection
  <2> QED BY <1>13, <2>2, <2>3
<1>15. /\ Cardinality({i \in DOMAIN r : Opens(r[i])}) = Cardinality(O)
       /\ Count(r, Closing) = Cardinality(C)
  <2>1. PlacesOf(r, Closing) = C
    BY DEF PlacesOf, n
  <2>2. Count(r, Closing) = Cardinality(PlacesOf(r, Closing))
    BY <1>1, Placed
  <2>3. {i \in DOMAIN r : Opens(r[i])} = O
    BY <1>1 DEF n
  <2> QED BY ONLY <2>1, <2>2, <2>3
<1>16. Count(r, Dsml \cup {"list", "tag"}) > 0
  <2>1. h + 1 \in PlacesOf(r, Dsml \cup {"list", "tag"})
    BY <1>10 DEF PlacesOf, n
  <2>2. Count(r, Dsml \cup {"list", "tag"}) \in Nat /\ Count(r, Dsml \cup {"list", "tag"}) # 0
    BY <1>1, <2>1, Placed
  <2> QED BY <2>2
<1> HIDE DEF C, O, f
<1> QED BY <1>13, <1>14, <1>15, <1>16 DEF LooksTruncated

\* A reply in a list or in blocks is a cut of what the upstream wrote, and an answer comes
\* after it.
ArrivedInv ==
  /\ format \in {"list", "loose", "dsml"} =>
       wanted \in Wanted /\ around \in Arounds /\ reply \in Cuts(FullText(format, wanted, around))
  /\ outcome # NoOutcome => format # "none"

\* What is written in those formats.
LEMMA WrittenTokens ==
  ASSUME NEW fmt \in {"list", "loose", "dsml"}, NEW wants \in Wanted, NEW said \in Arounds
  PROVE  FullText(fmt, wants, said) \in Seq(ReplyToken)
<1>1. wants \in Seq(WantedCall)
  BY ToolAssumption DEF WantedCall
<1>2. said[1] \in Seq(ReplyToken) /\ said[2] \in Seq(ReplyToken)
  <2>1. said[1] \in Seq(Ahead) /\ said[2] \in Seq(Behind)
    BY SaidTokens
  <2> QED BY <2>1 DEF Ahead, Behind
<1>3. Written(fmt, wants) \in Seq(ReplyToken)
  <2>1. CASE fmt = "dsml"
    <3>1. Written(fmt, wants) \in Seq(BlockToken)
      BY <1>1, <2>1, BlockTokens
    <3> QED BY <3>1 DEF BlockToken
  <2>2. CASE fmt \in {"list", "loose"}
    <3>1. PICK p \in Seq(Seq(ReplyToken)) :
            Written(fmt, wants) = (<<Sign("list")>> \o FlattenSeq(p)) \o <<Sign("end_list")>>
      BY <1>1, <2>2, ListText
    <3>2. Sign("list") \in ReplyToken /\ Sign("end_list") \in ReplyToken
      BY DEF Sign, Mark, ReplyToken, TokenKind, Opening, Closing
    <3>3. /\ <<Sign("list")>> \in Seq(ReplyToken) /\ <<Sign("end_list")>> \in Seq(ReplyToken)
          /\ FlattenSeq(p) \in Seq(ReplyToken)
      BY <3>2, FlattenType
    <3> QED BY <3>1, <3>3, ConcatProperties
  <2> QED BY <2>1, <2>2
<1> QED BY <1>2, <1>3, ConcatProperties DEF FullText

\* Cut before its end, such a reply looks truncated.
LEMMA CutLooksTruncated ==
  ASSUME NEW fmt \in {"list", "loose", "dsml"}, NEW wants \in Wanted, NEW said \in Arounds,
         NEW r \in Cuts(FullText(fmt, wants, said)),
         Count(r, {"list", "calls"}) > Count(r, {"end_list", "end_calls"})
  PROVE  LooksTruncated(r)
<1>1. wants \in Seq(WantedCall)
  BY ToolAssumption DEF WantedCall
<1>2. said[1] \in Seq(Ahead) /\ said[2] \in Seq(Behind)
  BY SaidTokens
<1>3. CASE fmt = "dsml"
  <2>1. Written(fmt, wants) \in Seq(BlockToken)
    BY <1>1, <1>3, BlockTokens
  <2>2. said[1] \in Seq(BlockToken) /\ said[2] \in Seq(BlockToken)
    <3>1. Ahead \subseteq BlockToken /\ Behind \subseteq BlockToken
      BY DEF Ahead, Behind, BlockToken
    <3> QED BY <1>2, <3>1
  <2>3. FullText(fmt, wants, said) \in Seq(BlockToken)
    BY <2>1, <2>2, ConcatProperties DEF FullText
  <2> QED BY <2>3, BlocksTruncated
<1>4. CASE fmt \in {"list", "loose"}
  <2>1. PICK p \in Seq(Seq(ReplyToken)) :
          /\ Written(fmt, wants) = (<<Sign("list")>> \o FlattenSeq(p)) \o <<Sign("end_list")>>
          /\ \A i \in 1..Len(p) :
               Len(p[i]) = 3 /\ p[i][1].t = "call" /\ p[i][2].t = "args" /\ p[i][3].t = "end_call"
    BY <1>1, <1>4, ListText
  <2> DEFINE body == FlattenSeq(p)
  <2>2. /\ body \in Seq(ReplyToken)
        /\ \A k \in 1..Len(body) :
             /\ body[k].t \in {"call", "args", "end_call"}
             /\ body[k].t = "end_call" => k - 2 \in 1..Len(body) /\ body[k - 2].t = "call"
    BY <2>1, JsonBody
  <2>3. FullText(fmt, wants, said)
          = (said[1] \o ((<<Sign("list")>> \o body) \o <<Sign("end_list")>>)) \o said[2]
    BY <2>1 DEF FullText
  <2> HIDE DEF body
  <2> QED BY <1>2, <2>2, <2>3, ListTruncated
<1> QED BY <1>3, <1>4

\* A reply of any number of calls that is cut in a list or a block, at whatever token, does
\* not end with "stop": the brackets that the code counts, or the tags, tell.
THEOREM CutEndsInLengthHolds == ToolSpec => []CutEndsInLength
<1>1. ToolInit => ArrivedInv /\ CutEndsInLength
  BY DEF ToolInit, ArrivedInv, CutEndsInLength, Answered
<1>2. ASSUME ArrivedInv, CutEndsInLength, [ToolNext]_toolVars PROVE ArrivedInv' /\ CutEndsInLength'
  <2>1. CASE UNCHANGED toolVars
    BY <1>2, <2>1 DEF toolVars, ArrivedInv, CutEndsInLength, Answered
  <2>2. CASE Answer
    <3>1. UNCHANGED <<format, wanted, around, reply>> /\ format # "none" /\ outcome' = Message(reply)
      BY <2>2 DEF Answer
    <3>2. ArrivedInv'
      BY <1>2, <3>1 DEF ArrivedInv
    <3>3. ASSUME format \in {"list", "loose", "dsml"},
                 Count(reply, {"list", "calls"}) > Count(reply, {"end_list", "end_calls"})
          PROVE  Message(reply).finish # "stop"
      <4>1. LooksTruncated(reply)
        BY <1>2, <3>3, CutLooksTruncated DEF ArrivedInv
      <4> QED BY <4>1 DEF Message, Ended
    <3> QED BY <3>1, <3>2, <3>3 DEF CutEndsInLength
  <2>3. ASSUME NEW fmt \in ReplyFormats, NEW wants \in Wanted, NEW said \in Arounds,
               WriteReply(fmt, wants, said)
        PROVE  ArrivedInv' /\ CutEndsInLength'
    <3>1. /\ format = "none" /\ format' = fmt /\ wanted' = wants /\ around' = said
          /\ UNCHANGED outcome
          /\ \E n \in 0..Len(FullText(fmt, wants, said)) :
               \/ reply' = SubSeq(FullText(fmt, wants, said), 1, n)
               \/ /\ n > 0
                  /\ reply' = [SubSeq(FullText(fmt, wants, said), 1, n) EXCEPT ![n].val = "part"]
      BY <2>3 DEF WriteReply, FullText
    <3>3. fmt \in {"list", "loose", "dsml"} => reply' \in Cuts(FullText(fmt, wants, said))
      BY <3>1, WrittenTokens, CutReply
    <3>4. outcome' = NoOutcome
      BY <1>2, <3>1 DEF ArrivedInv
    <3>5. CutEndsInLength'
      BY <3>4 DEF CutEndsInLength, Answered
    <3>6. ArrivedInv'
      BY <3>1, <3>3, <3>4 DEF ArrivedInv
    <3> QED BY <3>5, <3>6, SMTT(30)
  <2> QED BY <1>2, <2>1, <2>2, <2>3 DEF ToolNext
<1> QED
  BY <1>1, <1>2, PTL DEF ToolSpec

-----------------------------------------------------------------------------
(* Side by side                                                            *)

\* A step of the components is a step of one, and the others stutter.
LEMMA EachPart ==
  Spec => ProfileSpec /\ McpSpec /\ LoginSpec /\ UpstreamSpec /\ RepairSpec /\ ToolSpec
<1> DEFINE vars == <<part, profileVars, mcpVars, loginVars, upstreamVars, text, toolVars>>
<1>1. ASSUME [Next]_vars PROVE [ProfileNext]_profileVars
  BY <1>1 DEF Next, ProfilePart, McpPart, LoginPart, UpstreamPart, RepairPart, ToolsPart
<1>2. ASSUME [Next]_vars PROVE [McpNext]_mcpVars
  BY <1>2 DEF Next, ProfilePart, McpPart, LoginPart, UpstreamPart, RepairPart, ToolsPart
<1>3. ASSUME [Next]_vars PROVE [LoginNext]_loginVars
  BY <1>3 DEF Next, ProfilePart, McpPart, LoginPart, UpstreamPart, RepairPart, ToolsPart
<1>4. ASSUME [Next]_vars PROVE [UpstreamNext]_upstreamVars
  BY <1>4 DEF Next, ProfilePart, McpPart, LoginPart, UpstreamPart, RepairPart, ToolsPart
<1>5. ASSUME [Next]_vars PROVE [RepairNext]_text
  BY <1>5 DEF Next, ProfilePart, McpPart, LoginPart, UpstreamPart, RepairPart, ToolsPart
<1>6. ASSUME [Next]_vars PROVE [ToolNext]_toolVars
  BY <1>6 DEF Next, ProfilePart, McpPart, LoginPart, UpstreamPart, RepairPart, ToolsPart
<1>7. Init => ProfileInit /\ McpInit /\ LoginInit /\ UpstreamInit /\ RepairInit /\ ToolInit
  BY DEF Init
<1> QED
  BY <1>1, <1>2, <1>3, <1>4, <1>5, <1>6, <1>7, PTL
  DEF Spec, ProfileSpec, McpSpec, LoginSpec, UpstreamSpec, RepairSpec, ToolSpec

\* Every component keeps its types, side by side with the others.
THEOREM ComponentsTypeCorrect == Spec => []ComponentsTypeOK
<1>1. ProfileTypeOK /\ McpTypeOK /\ LoginTypeOK /\ UpstreamTypeOK /\ RepairTypeOK
        => ComponentsTypeOK
  BY DEF ComponentsTypeOK
<1> QED
  BY <1>1, EachPart, ProfileTypeCorrect, McpTypeCorrect, LoginTypeCorrect, UpstreamTypeCorrect,
     RepairTypeCorrect, PTL

\* What is proved of a component holds where TLC checks it.
THEOREM ComponentsSafe ==
  Spec => [](/\ OneBrowserPerProfile /\ OwnAnswer /\ VerdictEarned
             /\ ReplyReassembled /\ BanAnswered /\ RepairsSafe /\ CutEndsInLength)
BY EachPart, OneBrowserPerProfileHolds, OwnAnswerHolds, VerdictEarnedHolds, ReplyReassembledHolds,
   BanAnsweredHolds, RepairsSafeHolds, CutEndsInLengthHolds, PTL
=============================================================================
