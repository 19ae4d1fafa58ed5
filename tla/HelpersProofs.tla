---------------------------- MODULE HelpersProofs ----------------------------
(***************************************************************************)
(* Proofs about the pure helpers, for inputs of every length:              *)
(*   CommandLinesSurvive  the escaping of runKernel.py                     *)
(*   PlatformsSound       the platform configuration of optimus.py         *)
(*   TransfersAreSound    simple memory transfers, register operations     *)
(*   ChecksumsAreOne      the three additive checksums                     *)
(* each with the invariant that says what the inputs are made of.          *)
(***************************************************************************)
EXTENDS Helpers, SequenceTheorems, WellFoundedInduction, TLAPS

----------------------------------------------------------------------------
(* Recursion over numbers. *)

\* What holds of 0 and passes from a number to the next holds up to N.
LEMMA SetInduction ==
  ASSUME NEW N \in Nat, NEW P, 0 \in P,
         \A n \in 0 .. N - 1 : n \in P => n + 1 \in P
  PROVE 0 .. N \subseteq P
<1>. DEFINE R == OpToRel(<, Nat)
            Out == (0 .. N) \ P
<1>. SUFFICES ASSUME Out # {} PROVE FALSE
  OBVIOUS
<1>1. \A x, y \in Nat : <<x, y>> \in R <=> x < y
  BY DEF OpToRel
<1>2. IsWellFoundedOn(R, Nat)
  BY NatLessThanWellFounded
<1>3. Out \subseteq Nat /\ Out # {}
  OBVIOUS
<1>. HIDE DEF R, Out
<1>4. PICK m \in Out : \A n \in Out : ~ (<<n, m>> \in R)
  BY <1>2, <1>3, WFMin
<1>5. m \in 0 .. N /\ m # 0 /\ \A n \in Out : ~ (n < m)
  BY <1>1, <1>3, <1>4 DEF Out
<1>6. m - 1 \in 0 .. N - 1 /\ m - 1 < m /\ (m - 1) + 1 = m
  BY <1>5
<1>7. m - 1 \in P
  BY <1>5, <1>6 DEF Out
<1>. QED
  BY <1>4, <1>6, <1>7 DEF Out

\* The functions on 0 .. N that begin with base and go on step by step.
Stepwise(N, S, base, step) ==
    {f \in [0 .. N -> S] : f[0] = base /\ \A n \in 1 .. N : f[n] = step[n][f[n - 1]]}

\* There is one.
LEMMA StepwiseExists ==
  ASSUME NEW N \in Nat, NEW S, NEW base \in S, NEW step \in [1 .. N -> [S -> S]]
  PROVE \E f : f \in Stepwise(N, S, base, step)
<1>. DEFINE Is(f, m) == /\ f = [n \in 0 .. m |-> IF n = 0 THEN base ELSE step[n][f[n - 1]]]
                        /\ f \in [0 .. m -> S]
            P == {m \in Nat : \E f : Is(f, m)}
<1>1. 0 \in P
  <2>1. Is([n \in {0} |-> base], 0)
    OBVIOUS
  <2>. QED
    BY <2>1
<1>2. ASSUME NEW m \in 0 .. N - 1, m \in P PROVE m + 1 \in P
  <2>1. PICK f : Is(f, m)
    BY <1>2
  <2>. DEFINE g == [n \in 0 .. m + 1 |-> IF n = m + 1 THEN step[m + 1][f[m]] ELSE f[n]]
  <2>2. ASSUME NEW n \in 0 .. m + 1
        PROVE g[n] = (IF n = 0 THEN base ELSE step[n][g[n - 1]]) /\ g[n] \in S
    <3>1. CASE n = m + 1
      <4>1. n # 0 /\ n - 1 = m /\ m \in 0 .. m + 1 /\ m # m + 1 /\ m + 1 \in 1 .. N
            /\ f[m] \in S
        BY <2>1, <3>1
      <4>. QED
        BY <3>1, <4>1
    <3>2. CASE n # m + 1
      <4>1. n \in 0 .. m
        BY <3>2
      <4>2. f[n] = (IF n = 0 THEN base ELSE step[n][f[n - 1]]) /\ f[n] \in S
        BY <2>1, <4>1
      <4>3. n # 0 => n - 1 \in 0 .. m + 1 /\ n - 1 # m + 1
        BY <4>1
      <4>. QED
        BY <3>2, <4>2, <4>3
    <3>. QED
      BY <3>1, <3>2
  <2>3. Is(g, m + 1)
    BY <2>2
  <2>4. m + 1 \in Nat
    OBVIOUS
  <2>. HIDE DEF g, Is
  <2>. QED
    BY <2>3, <2>4
<1>. HIDE DEF P
<1>3. 0 .. N \subseteq P
  BY <1>1, <1>2, SetInduction
<1>4. \E f : Is(f, N)
  <2>1. N \in P
    BY <1>3
  <2>. HIDE DEF Is
  <2>. QED
    BY <2>1 DEF P
<1>5. PICK f : Is(f, N)
  BY <1>4
<1>6. f \in [0 .. N -> S] /\ f[0] = base
  BY <1>5
<1>7. \A n \in 1 .. N : f[n] = step[n][f[n - 1]]
  BY <1>5
<1>. QED
  BY <1>6, <1>7 DEF Stepwise

----------------------------------------------------------------------------
(* The command line (runKernel.py): what the escaping puts on, the shell   *)
(* takes off again, character by character.                                *)

\* What becomes of one more character.
ReplacesEach(C, c, by) ==
    /\ Replace(<<>>, c, by) = <<>>
    /\ \A text \in Seq(C) : Replace(text, c, by) \in Seq(C)
    /\ \A text \in Seq(C), x \in C :
          Replace(Append(text, x), c, by)
            = Replace(text, c, by) \o (IF x = c THEN by ELSE <<x>>)

LEMMA ReplaceStep ==
  ASSUME NEW C, NEW c, NEW by \in Seq(C)
  PROVE ReplacesEach(C, c, by)
<1>. DEFINE Piece(x) == IF x = c THEN by ELSE <<x>>
            Is(f, text) == f = [n \in 0 .. Len(text) |->
                                   IF n = 0 THEN <<>> ELSE f[n - 1] \o Piece(text[n])]
<1>0. \A x \in C : Piece(x) \in Seq(C)
  OBVIOUS
<1>1. ASSUME NEW text \in Seq(C) PROVE \E f : Is(f, text)
  <2>. DEFINE step == [n \in 1 .. Len(text) |-> [s \in Seq(C) |-> s \o Piece(text[n])]]
  <2>1. \A n \in 1 .. Len(text) : \A s \in Seq(C) : s \o Piece(text[n]) \in Seq(C)
    <3>. SUFFICES ASSUME NEW n \in 1 .. Len(text), NEW s \in Seq(C)
                  PROVE s \o Piece(text[n]) \in Seq(C)
      OBVIOUS
    <3>2. text[n] \in C
      OBVIOUS
    <3>. HIDE DEF Piece, step
    <3>3. PICK t : t = Piece(text[n]) /\ t \in Seq(C)
      BY <1>0, <3>2
    <3>. QED
      BY <3>3, ConcatProperties
  <2>2. <<>> \in Seq(C) /\ Len(text) \in Nat
    OBVIOUS
  <2>. HIDE DEF Piece
  <2>3. PICK N, base, S, st : N = Len(text) /\ base = <<>> /\ S = Seq(C) /\ st = step
    OBVIOUS
  <2>4. st \in [1 .. N -> [S -> S]]
    BY <2>1, <2>3
  <2>5. N \in Nat /\ base \in S
    BY <2>2, <2>3
  <2>6. PICK f : f \in Stepwise(N, S, base, st)
    BY <2>4, <2>5, StepwiseExists
  <2>7. /\ f \in [0 .. N -> S] /\ f[0] = base
        /\ \A n \in 1 .. N : f[n] = st[n][f[n - 1]]
    BY <2>6 DEF Stepwise
  <2>10. \A n \in 1 .. N : f[n] = f[n - 1] \o Piece(text[n])
    <3>. SUFFICES ASSUME NEW n \in 1 .. N
                  PROVE f[n] = f[n - 1] \o Piece(text[n])
      OBVIOUS
    <3>1. n - 1 \in 0 .. N
      BY <2>5
    <3>2. PICK s \in S : s = f[n - 1]
      BY <2>7, <3>1
    <3>3. st[n][s] = s \o Piece(text[n])
      BY <2>3
    <3>. QED
      BY <2>7, <3>2, <3>3
  <2>8. \A n \in 0 .. N : f[n] = (IF n = 0 THEN <<>> ELSE f[n - 1] \o Piece(text[n]))
    <3>1. \A n \in 0 .. N : n = 0 \/ n \in 1 .. N
      BY <2>5
    <3>. QED
      BY <2>3, <2>7, <2>10, <3>1
  <2>9. f = [n \in 0 .. Len(text) |-> IF n = 0 THEN <<>> ELSE f[n - 1] \o Piece(text[n])]
    BY <2>3, <2>7, <2>8
  <2>. QED
    BY <2>9
<1>2. ASSUME NEW text \in Seq(C)
      PROVE \E f : Is(f, text) /\ Replace(text, c, by) = f[Len(text)]
  BY <1>1, Zenon DEF Replace
<1>. HIDE DEF Piece
<1>3. ASSUME NEW text \in Seq(C), NEW f, Is(f, text)
      PROVE /\ f[0] = <<>>
            /\ \A n \in 1 .. Len(text) : f[n] = f[n - 1] \o Piece(text[n])
            /\ \A n \in 0 .. Len(text) : f[n] \in Seq(C)
  <2>1. Len(text) \in Nat /\ 0 \in 0 .. Len(text)
    OBVIOUS
  <2>2. f[0] = <<>>
    BY <1>3, <2>1
  <2>3. \A n \in 1 .. Len(text) : f[n] = f[n - 1] \o Piece(text[n])
    <3>. SUFFICES ASSUME NEW n \in 1 .. Len(text)
                  PROVE f[n] = f[n - 1] \o Piece(text[n])
      OBVIOUS
    <3>1. n \in 0 .. Len(text) /\ n # 0
      BY <2>1
    <3>. QED
      BY <1>3, <3>1
  <2>. DEFINE P == {n \in 0 .. Len(text) : f[n] \in Seq(C)}
  <2>4. 0 \in P
    <3>1. <<>> \in Seq(C)
      OBVIOUS
    <3>. QED
      BY <2>1, <2>2, <3>1
  <2>5. ASSUME NEW n \in 0 .. Len(text) - 1, n \in P PROVE n + 1 \in P
    <3>1. n + 1 \in 1 .. Len(text) /\ (n + 1) - 1 = n /\ n + 1 \in 0 .. Len(text)
      BY <2>1
    <3>5. text[n + 1] \in C
      BY <3>1
    <3>2. text[n + 1] \in C /\ f[n + 1] = f[n] \o Piece(text[n + 1])
      BY <2>3, <3>1, <3>5
    <3>3. PICK s, t : s = f[n] /\ t = Piece(text[n + 1]) /\ s \in Seq(C) /\ t \in Seq(C)
      BY <1>0, <2>5, <3>2
    <3>4. s \o t \in Seq(C)
      BY <3>3, ConcatProperties
    <3>. QED
      BY <3>1, <3>2, <3>3, <3>4
  <2>. HIDE DEF P
  <2>6. 0 .. Len(text) \subseteq P
    BY <2>1, <2>4, <2>5, SetInduction
  <2>. QED
    BY <2>2, <2>3, <2>6 DEF P
<1>. HIDE DEF Is
<1>4. Replace(<<>>, c, by) = <<>>
  <2>1. <<>> \in Seq(C) /\ Len(<<>>) = 0
    OBVIOUS
  <2>. QED
    BY <1>2, <1>3, <2>1
<1>5. ASSUME NEW text \in Seq(C) PROVE Replace(text, c, by) \in Seq(C)
  <2>1. Len(text) \in 0 .. Len(text)
    OBVIOUS
  <2>. QED
    BY <1>2, <1>3, <2>1
<1>6. ASSUME NEW text \in Seq(C), NEW x \in C
      PROVE Replace(Append(text, x), c, by) = Replace(text, c, by) \o Piece(x)
  <2>1. PICK f : Is(f, text) /\ Replace(text, c, by) = f[Len(text)]
    BY <1>2
  <2>2. PICK more : more = Append(text, x) /\ more \in Seq(C) /\ Len(more) = Len(text) + 1
                      /\ more[Len(text) + 1] = x
                      /\ \A n \in 1 .. Len(text) : more[n] = text[n]
    <3>1. PICK more : more = Append(text, x)
      OBVIOUS
    <3>2. more \in Seq(C) /\ Len(more) = Len(text) + 1 /\ more[Len(text) + 1] = x
      BY <3>1, AppendProperties
    <3>3. \A n \in 1 .. Len(text) : more[n] = text[n]
      BY <3>1, AppendProperties
    <3>. QED
      BY <3>1, <3>2, <3>3
  <2>3. PICK g : Is(g, more) /\ Replace(more, c, by) = g[Len(more)]
    BY <1>2, <2>2
  <2>4. Len(text) \in Nat
    OBVIOUS
  <2>5. /\ f[0] = <<>> /\ \A n \in 1 .. Len(text) : f[n] = f[n - 1] \o Piece(text[n])
        /\ g[0] = <<>> /\ \A n \in 1 .. Len(text) + 1 : g[n] = g[n - 1] \o Piece(more[n])
    <3>1. /\ f[0] = <<>> /\ \A n \in 1 .. Len(text) : f[n] = f[n - 1] \o Piece(text[n])
      BY <1>3, <2>1
    <3>2. /\ g[0] = <<>> /\ \A n \in 1 .. Len(more) : g[n] = g[n - 1] \o Piece(more[n])
      BY <1>3, <2>2, <2>3
    <3>. QED
      BY <2>2, <3>1, <3>2
  <2>. DEFINE P == {n \in 0 .. Len(text) : f[n] = g[n]}
  <2>6. 0 \in P
    BY <2>4, <2>5
  <2>7. ASSUME NEW n \in 0 .. Len(text) - 1, n \in P PROVE n + 1 \in P
    <3>1. n + 1 \in 1 .. Len(text) /\ (n + 1) - 1 = n /\ n + 1 \in 0 .. Len(text)
            /\ n + 1 \in 1 .. Len(text) + 1
      BY <2>4
    <3>2. f[n + 1] = f[n] \o Piece(text[n + 1]) /\ g[n + 1] = g[n] \o Piece(more[n + 1])
      BY <2>5, <3>1
    <3>. QED
      BY <2>2, <2>7, <3>1, <3>2
  <2>. HIDE DEF P
  <2>8. 0 .. Len(text) \subseteq P
    BY <2>4, <2>6, <2>7, SetInduction
  <2>9. f[Len(text)] = g[Len(text)]
    BY <2>4, <2>8 DEF P
  <2>10. Len(text) + 1 \in 1 .. Len(text) + 1 /\ (Len(text) + 1) - 1 = Len(text)
    BY <2>4
  <2>. QED
    BY <2>1, <2>2, <2>3, <2>5, <2>9, <2>10
<1>. QED
  BY <1>4, <1>5, <1>6 DEF Piece, ReplacesEach

----------------------------------------------------------------------------
\* What the shell makes of one more character.
HushStates(C) == [slash : BOOLEAN, quoted : BOOLEAN, out : Seq(C)]
HushFrom == [slash |-> FALSE, quoted |-> FALSE, out |-> <<>>]

LEMMA HushStepType ==
  ASSUME NEW C, NEW state \in HushStates(C), NEW x \in C
  PROVE HushStep(state, x) \in HushStates(C)
<1>1. Append(state.out, x) \in Seq(C)
  BY AppendProperties DEF HushStates
<1>. QED
  BY <1>1 DEF HushStates, HushStep

LEMMA HushAppend ==
  ASSUME NEW C
  PROVE /\ Hush(<<>>) = HushFrom
        /\ \A text \in Seq(C) : Hush(text) \in HushStates(C)
        /\ \A text \in Seq(C), x \in C : Hush(Append(text, x)) = HushStep(Hush(text), x)
<1>. DEFINE Is(f, text) == f = [n \in 0 .. Len(text) |->
                                   IF n = 0 THEN HushFrom ELSE HushStep(f[n - 1], text[n])]
<1>0. HushFrom \in HushStates(C)
  <2>1. <<>> \in Seq(C)
    OBVIOUS
  <2>. QED
    BY <2>1 DEF HushFrom, HushStates
<1>1. ASSUME NEW text \in Seq(C) PROVE \E f : Is(f, text)
  <2>. DEFINE step == [n \in 1 .. Len(text) |-> [s \in HushStates(C) |-> HushStep(s, text[n])]]
  <2>1. \A n \in 1 .. Len(text) : \A s \in HushStates(C) : HushStep(s, text[n]) \in HushStates(C)
    BY HushStepType
  <2>2. Len(text) \in Nat
    OBVIOUS
  <2>3. PICK N, base, S, st : N = Len(text) /\ base = HushFrom /\ S = HushStates(C) /\ st = step
    OBVIOUS
  <2>4. st \in [1 .. N -> [S -> S]]
    BY <2>1, <2>3
  <2>5. N \in Nat /\ base \in S
    BY <1>0, <2>2, <2>3
  <2>6. PICK f : f \in Stepwise(N, S, base, st)
    BY <2>4, <2>5, StepwiseExists
  <2>7. /\ f \in [0 .. N -> S] /\ f[0] = base
        /\ \A n \in 1 .. N : f[n] = st[n][f[n - 1]]
    BY <2>6 DEF Stepwise
  <2>8. \A n \in 1 .. N : f[n] = HushStep(f[n - 1], text[n])
    <3>. SUFFICES ASSUME NEW n \in 1 .. N PROVE f[n] = HushStep(f[n - 1], text[n])
      OBVIOUS
    <3>1. n - 1 \in 0 .. N
      BY <2>5
    <3>2. PICK s \in S : s = f[n - 1]
      BY <2>7, <3>1
    <3>3. st[n][s] = HushStep(s, text[n])
      BY <2>3
    <3>. QED
      BY <2>7, <3>2, <3>3
  <2>9. \A n \in 0 .. N : f[n] = (IF n = 0 THEN HushFrom ELSE HushStep(f[n - 1], text[n]))
    <3>1. \A n \in 0 .. N : n = 0 \/ n \in 1 .. N
      BY <2>5
    <3>. QED
      BY <2>3, <2>7, <2>8, <3>1
  <2>10. f = [n \in 0 .. Len(text) |-> IF n = 0 THEN HushFrom ELSE HushStep(f[n - 1], text[n])]
    BY <2>3, <2>7, <2>9
  <2>. QED
    BY <2>10
<1>2. ASSUME NEW text \in Seq(C)
      PROVE \E f : Is(f, text) /\ Hush(text) = f[Len(text)]
  BY <1>1, Zenon DEF Hush, HushFrom
<1>3. ASSUME NEW text \in Seq(C), NEW f, Is(f, text)
      PROVE /\ f[0] = HushFrom
            /\ \A n \in 1 .. Len(text) : f[n] = HushStep(f[n - 1], text[n])
            /\ \A n \in 0 .. Len(text) : f[n] \in HushStates(C)
  <2>1. Len(text) \in Nat /\ 0 \in 0 .. Len(text)
    OBVIOUS
  <2>2. f[0] = HushFrom
    BY <1>3, <2>1
  <2>3. \A n \in 1 .. Len(text) : f[n] = HushStep(f[n - 1], text[n])
    <3>. SUFFICES ASSUME NEW n \in 1 .. Len(text)
                  PROVE f[n] = HushStep(f[n - 1], text[n])
      OBVIOUS
    <3>1. n \in 0 .. Len(text) /\ n # 0
      BY <2>1
    <3>. QED
      BY <1>3, <3>1
  <2>. DEFINE P == {n \in 0 .. Len(text) : f[n] \in HushStates(C)}
  <2>4. 0 \in P
    BY <1>0, <2>1, <2>2
  <2>5. ASSUME NEW n \in 0 .. Len(text) - 1, n \in P PROVE n + 1 \in P
    <3>1. n + 1 \in 1 .. Len(text) /\ (n + 1) - 1 = n /\ n + 1 \in 0 .. Len(text)
      BY <2>1
    <3>2. text[n + 1] \in C
      BY <3>1
    <3>3. f[n + 1] = HushStep(f[n], text[n + 1])
      BY <2>3, <3>1
    <3>4. HushStep(f[n], text[n + 1]) \in HushStates(C)
      BY <2>5, <3>2, HushStepType
    <3>. QED
      BY <3>1, <3>3, <3>4
  <2>. HIDE DEF P
  <2>6. 0 .. Len(text) \subseteq P
    BY <2>1, <2>4, <2>5, SetInduction
  <2>. QED
    BY <2>2, <2>3, <2>6 DEF P
<1>. HIDE DEF Is
<1>4. Hush(<<>>) = HushFrom
  <2>1. <<>> \in Seq(C) /\ Len(<<>>) = 0
    OBVIOUS
  <2>. QED
    BY <1>2, <1>3, <2>1
<1>5. ASSUME NEW text \in Seq(C) PROVE Hush(text) \in HushStates(C)
  <2>1. Len(text) \in 0 .. Len(text)
    OBVIOUS
  <2>. QED
    BY <1>2, <1>3, <2>1
<1>6. ASSUME NEW text \in Seq(C), NEW x \in C
      PROVE Hush(Append(text, x)) = HushStep(Hush(text), x)
  <2>1. PICK f : Is(f, text) /\ Hush(text) = f[Len(text)]
    BY <1>2
  <2>2. PICK more : more = Append(text, x) /\ more \in Seq(C) /\ Len(more) = Len(text) + 1
                      /\ more[Len(text) + 1] = x
                      /\ \A n \in 1 .. Len(text) : more[n] = text[n]
    <3>1. PICK more : more = Append(text, x)
      OBVIOUS
    <3>2. more \in Seq(C) /\ Len(more) = Len(text) + 1 /\ more[Len(text) + 1] = x
      BY <3>1, AppendProperties
    <3>3. \A n \in 1 .. Len(text) : more[n] = text[n]
      BY <3>1, AppendProperties
    <3>. QED
      BY <3>1, <3>2, <3>3
  <2>3. PICK g : Is(g, more) /\ Hush(more) = g[Len(more)]
    BY <1>2, <2>2
  <2>4. Len(text) \in Nat
    OBVIOUS
  <2>5. /\ f[0] = HushFrom /\ \A n \in 1 .. Len(text) : f[n] = HushStep(f[n - 1], text[n])
        /\ g[0] = HushFrom /\ \A n \in 1 .. Len(text) + 1 : g[n] = HushStep(g[n - 1], more[n])
    <3>1. f[0] = HushFrom /\ \A n \in 1 .. Len(text) : f[n] = HushStep(f[n - 1], text[n])
      BY <1>3, <2>1
    <3>2. g[0] = HushFrom /\ \A n \in 1 .. Len(more) : g[n] = HushStep(g[n - 1], more[n])
      BY <1>3, <2>2, <2>3
    <3>. QED
      BY <2>2, <3>1, <3>2
  <2>. DEFINE P == {n \in 0 .. Len(text) : f[n] = g[n]}
  <2>6. 0 \in P
    BY <2>4, <2>5
  <2>7. ASSUME NEW n \in 0 .. Len(text) - 1, n \in P PROVE n + 1 \in P
    <3>1. n + 1 \in 1 .. Len(text) /\ (n + 1) - 1 = n /\ n + 1 \in 0 .. Len(text)
            /\ n + 1 \in 1 .. Len(text) + 1
      BY <2>4
    <3>2. f[n + 1] = HushStep(f[n], text[n + 1]) /\ g[n + 1] = HushStep(g[n], more[n + 1])
      BY <2>5, <3>1
    <3>. QED
      BY <2>2, <2>7, <3>1, <3>2
  <2>. HIDE DEF P
  <2>8. 0 .. Len(text) \subseteq P
    BY <2>4, <2>6, <2>7, SetInduction
  <2>9. f[Len(text)] = g[Len(text)]
    BY <2>4, <2>8 DEF P
  <2>10. Len(text) + 1 \in 1 .. Len(text) + 1 /\ (Len(text) + 1) - 1 = Len(text)
    BY <2>4
  <2>. QED
    BY <2>1, <2>2, <2>3, <2>5, <2>9, <2>10
<1>. QED
  BY <1>4, <1>5, <1>6

----------------------------------------------------------------------------
(* The command line survives: with every character typed, the shell, having *)
(* read the opening quote and what the escaping made of the text so far, is *)
(* within the quotes and has put out that text.                             *)
Chars == {"a", Quote, Slash}
Body(text) == Replace(Replace(text, Slash, <<Slash, Slash>>), Quote, <<Quote, Slash, Quote, Quote>>)
Typed == helper = "cmdline" => /\ input \in Seq(Chars)
                               /\ Hush(<<Quote>> \o Body(input))
                                    = [slash |-> FALSE, quoted |-> TRUE, out |-> input]

\* The opening quote, the escaped text: one more character.
LEMMA BodyAppend ==
  /\ Body(<<>>) = <<>>
  /\ \A text \in Seq(Chars) : Body(text) \in Seq(Chars)
  /\ \A text \in Seq(Chars), x \in Chars :
        Body(Append(text, x)) =
          IF x = Slash THEN Append(Append(Body(text), Slash), Slash)
          ELSE IF x = Quote
               THEN Append(Append(Append(Append(Body(text), Quote), Slash), Quote), Quote)
          ELSE Append(Body(text), x)
<1>. DEFINE two == <<Slash, Slash>>
            four == <<Quote, Slash, Quote, Quote>>
<1>1. two \in Seq(Chars) /\ four \in Seq(Chars) /\ Slash \in Chars /\ Quote \in Chars
  BY DEF Chars
<1>2. Slash # Quote
  BY DEF Slash, Quote
<1>3. \A text \in Seq(Chars) :
        /\ text \o two = Append(Append(text, Slash), Slash)
        /\ text \o four = Append(Append(Append(Append(text, Quote), Slash), Quote), Quote)
        /\ \A x \in Chars : text \o <<x>> = Append(text, x)
  <2>. SUFFICES ASSUME NEW text \in Seq(Chars)
                PROVE  /\ text \o two = Append(Append(text, Slash), Slash)
                       /\ text \o four = Append(Append(Append(Append(text, Quote), Slash), Quote), Quote)
                       /\ \A x \in Chars : text \o <<x>> = Append(text, x)
    OBVIOUS
  <2>1. \A s \in Seq(Chars), t \in Seq(Chars), x \in Chars : s \o Append(t, x) = Append(s \o t, x)
    <3>. SUFFICES ASSUME NEW s \in Seq(Chars), NEW t \in Seq(Chars), NEW x \in Chars
                  PROVE s \o Append(t, x) = Append(s \o t, x)
      OBVIOUS
    <3>. QED
      OBVIOUS
  <2>2. \A x \in Chars : text \o <<x>> = Append(text, x)
    BY AppendIsConcat
  <2>9. \A x, y : <<x, y>> = Append(<<x>>, y)
    OBVIOUS
  <2>10. \A x, y, z : <<x, y, z>> = Append(<<x, y>>, z)
    OBVIOUS
  <2>11. \A x, y, z, u : <<x, y, z, u>> = Append(<<x, y, z>>, u)
    OBVIOUS
  <2>3. <<Quote, Slash>> = Append(<<Quote>>, Slash) /\ two = Append(<<Slash>>, Slash)
         /\ <<Quote, Slash, Quote>> = Append(<<Quote, Slash>>, Quote)
         /\ four = Append(<<Quote, Slash, Quote>>, Quote)
    <3>1. two = Append(<<Slash>>, Slash)
      BY <2>9, Zenon
    <3>2. four = Append(<<Quote, Slash, Quote>>, Quote)
      BY <2>11, Zenon
    <3>3. <<Quote, Slash>> = Append(<<Quote>>, Slash)
      BY <2>9, Zenon
    <3>4. <<Quote, Slash, Quote>> = Append(<<Quote, Slash>>, Quote)
      BY <2>10, Zenon
    <3>. QED
      BY <3>1, <3>2, <3>3, <3>4
  <2>4. <<Quote>> \in Seq(Chars) /\ <<Slash>> \in Seq(Chars) /\ <<Quote, Slash>> \in Seq(Chars)
          /\ <<Quote, Slash, Quote>> \in Seq(Chars)
    BY <1>1
  <2>. HIDE DEF two, four
  <2>5. text \o two = Append(Append(text, Slash), Slash)
    BY <1>1, <2>1, <2>2, <2>3, <2>4
  <2>6. text \o <<Quote, Slash>> = Append(Append(text, Quote), Slash)
    BY <1>1, <2>1, <2>2, <2>3, <2>4
  <2>7. text \o <<Quote, Slash, Quote>> = Append(Append(Append(text, Quote), Slash), Quote)
    BY <1>1, <2>1, <2>3, <2>4, <2>6
  <2>8. text \o four = Append(Append(Append(Append(text, Quote), Slash), Quote), Quote)
    BY <1>1, <2>1, <2>3, <2>4, <2>7
  <2>. QED
    BY <2>2, <2>5, <2>8
<1>. HIDE DEF two, four
<1>4. /\ Replace(<<>>, Slash, two) = <<>>
      /\ \A text \in Seq(Chars) : Replace(text, Slash, two) \in Seq(Chars)
      /\ \A text \in Seq(Chars), x \in Chars :
            Replace(Append(text, x), Slash, two)
              = Replace(text, Slash, two) \o (IF x = Slash THEN two ELSE <<x>>)
  <2>1. ReplacesEach(Chars, Slash, two)
    BY <1>1, ReplaceStep
  <2>. QED
    BY <2>1 DEF ReplacesEach
<1>5. /\ Replace(<<>>, Quote, four) = <<>>
      /\ \A text \in Seq(Chars) : Replace(text, Quote, four) \in Seq(Chars)
      /\ \A text \in Seq(Chars), x \in Chars :
            Replace(Append(text, x), Quote, four)
              = Replace(text, Quote, four) \o (IF x = Quote THEN four ELSE <<x>>)
  <2>1. ReplacesEach(Chars, Quote, four)
    BY <1>1, ReplaceStep
  <2>. QED
    BY <2>1 DEF ReplacesEach
<1>6. \A text : Body(text) = Replace(Replace(text, Slash, two), Quote, four)
  BY DEF Body, two, four
<1>7. Body(<<>>) = <<>>
  BY <1>4, <1>5, <1>6
<1>8. \A text \in Seq(Chars) : Body(text) \in Seq(Chars)
  BY <1>4, <1>5, <1>6
<1>9. ASSUME NEW text \in Seq(Chars), NEW x \in Chars
      PROVE Body(Append(text, x)) =
              IF x = Slash THEN Append(Append(Body(text), Slash), Slash)
              ELSE IF x = Quote
                   THEN Append(Append(Append(Append(Body(text), Quote), Slash), Quote), Quote)
              ELSE Append(Body(text), x)
  <2>1. PICK r : r = Replace(text, Slash, two) /\ r \in Seq(Chars)
    BY <1>4
  <2>2. PICK b : b = Replace(r, Quote, four) /\ b \in Seq(Chars) /\ b = Body(text)
    BY <1>5, <1>6, <2>1
  <2>3. CASE x = Slash
    <3>1. Replace(Append(text, x), Slash, two) = Append(Append(r, Slash), Slash)
      BY <1>3, <1>4, <2>1, <2>3
    <3>2. Append(r, Slash) \in Seq(Chars)
      BY <1>1, <2>1, AppendProperties
    <3>3. Replace(Append(r, Slash), Quote, four) = Append(b, Slash)
      <4>1. Replace(Append(r, Slash), Quote, four) = b \o <<Slash>>
        <5>1. Replace(Append(r, Slash), Quote, four)
                = Replace(r, Quote, four) \o (IF Slash = Quote THEN four ELSE <<Slash>>)
          BY <1>1, <1>5, <2>1, Zenon
        <5>. QED
          <6>1. (IF Slash = Quote THEN four ELSE <<Slash>>) = <<Slash>>
            BY <1>2, Zenon
          <6>. QED
            BY <2>2, <5>1, <6>1, Zenon
      <4>. QED
        BY <1>1, <1>3, <2>2, <4>1
    <3>4. Append(b, Slash) \in Seq(Chars)
      BY <1>1, <2>2, AppendProperties
    <3>5. Replace(Append(Append(r, Slash), Slash), Quote, four) = Append(Append(b, Slash), Slash)
      <4>1. PICK s, t : s = Append(r, Slash) /\ t = Append(b, Slash)
        OBVIOUS
      <4>2. s \in Seq(Chars) /\ t \in Seq(Chars) /\ Replace(s, Quote, four) = t
        BY <3>2, <3>3, <3>4, <4>1
      <4>3. Replace(Append(s, Slash), Quote, four) = t \o <<Slash>>
        BY <1>1, <1>2, <1>5, <4>2
      <4>4. t \o <<Slash>> = Append(t, Slash)
        BY <1>1, <1>3, <4>2
      <4>. QED
        BY <4>1, <4>3, <4>4
    <3>. QED
      BY <1>6, <2>2, <2>3, <3>1, <3>5
  <2>4. CASE x # Slash
    <3>1. Replace(Append(text, x), Slash, two) = Append(r, x)
      <4>1. Replace(Append(text, x), Slash, two) = r \o <<x>>
        BY <1>4, <2>1, <2>4, Zenon
      <4>. QED
        BY <1>3, <2>1, <4>1
    <3>2. Replace(Append(r, x), Quote, four) = b \o (IF x = Quote THEN four ELSE <<x>>)
      BY <1>5, <2>1, <2>2
    <3>3. x = Quote => Body(Append(text, x))
                         = Append(Append(Append(Append(b, Quote), Slash), Quote), Quote)
      BY <1>3, <1>6, <2>2, <3>1, <3>2
    <3>4. x # Quote => Body(Append(text, x)) = Append(b, x)
      BY <1>3, <1>6, <2>2, <3>1, <3>2
    <3>. QED
      BY <2>2, <2>4, <3>3, <3>4
  <2>. QED
    BY <2>3, <2>4
<1>. QED
  BY <1>7, <1>8, <1>9

\* Within the quotes, with this text put out.
Within(text) == [slash |-> FALSE, quoted |-> TRUE, out |-> text]

\* What each character of the escaped text does to the shell.
LEMMA HushMoves ==
  ASSUME NEW text
  PROVE /\ \A x : x # Slash /\ x # Quote => HushStep(Within(text), x) = Within(Append(text, x))
        /\ HushStep(HushStep(Within(text), Slash), Slash) = Within(Append(text, Slash))
        /\ HushStep(HushStep(HushStep(HushStep(Within(text), Quote), Slash), Quote), Quote)
             = Within(Append(text, Quote))
        /\ HushStep(Within(text), Quote) = [slash |-> FALSE, quoted |-> FALSE, out |-> text]
        /\ HushStep(HushFrom, Quote) = Within(<<>>)
<1>1. Slash # Quote
  BY DEF Slash, Quote
<1>2. \A x : x # Slash /\ x # Quote => HushStep(Within(text), x) = Within(Append(text, x))
  BY DEF Within, HushStep
<1>3. HushStep(Within(text), Slash) = [slash |-> TRUE, quoted |-> TRUE, out |-> text]
  BY DEF Within, HushStep
<1>4. HushStep([slash |-> TRUE, quoted |-> TRUE, out |-> text], Slash) = Within(Append(text, Slash))
  BY DEF Within, HushStep
<1>5. HushStep(Within(text), Quote) = [slash |-> FALSE, quoted |-> FALSE, out |-> text]
  BY <1>1 DEF Within, HushStep
<1>6. HushStep([slash |-> FALSE, quoted |-> FALSE, out |-> text], Slash)
        = [slash |-> TRUE, quoted |-> FALSE, out |-> text]
  BY <1>1 DEF HushStep
<1>7. HushStep([slash |-> TRUE, quoted |-> FALSE, out |-> text], Quote)
        = [slash |-> FALSE, quoted |-> FALSE, out |-> Append(text, Quote)]
  BY <1>1 DEF HushStep
<1>8. \A t : HushStep([slash |-> FALSE, quoted |-> FALSE, out |-> t], Quote) = Within(t)
  BY <1>1 DEF HushStep, Within
<1>. QED
  BY <1>2, <1>3, <1>4, <1>5, <1>6, <1>7, <1>8 DEF HushFrom

\* The shell has read the opening quote and the escaped text so far.
LEMMA HushBody ==
  /\ Hush(<<Quote>> \o Body(<<>>)) = Within(<<>>)
  /\ \A text \in Seq(Chars), x \in Chars :
        Hush(<<Quote>> \o Body(text)) = Within(text)
          => Hush(<<Quote>> \o Body(Append(text, x))) = Within(Append(text, x))
  /\ \A text \in Seq(Chars) :
        Hush(<<Quote>> \o Body(text) \o <<Quote>>) = HushStep(Hush(<<Quote>> \o Body(text)), Quote)
<1>1. Slash \in Chars /\ Quote \in Chars /\ Slash # Quote /\ <<Quote>> \in Seq(Chars)
  BY DEF Chars, Slash, Quote
<1>2. /\ Hush(<<>>) = HushFrom
      /\ \A text \in Seq(Chars), x \in Chars : Hush(Append(text, x)) = HushStep(Hush(text), x)
  BY HushAppend
<1>3. \A s \in Seq(Chars), x \in Chars : Append(s, x) \in Seq(Chars)
  BY AppendProperties
<1>4. \A s \in Seq(Chars), x \in Chars :
        <<Quote>> \o s \in Seq(Chars) /\ <<Quote>> \o Append(s, x) = Append(<<Quote>> \o s, x)
                                      /\ s \o <<x>> = Append(s, x)
  <2>. SUFFICES ASSUME NEW s \in Seq(Chars), NEW x \in Chars
                PROVE  <<Quote>> \o s \in Seq(Chars) /\ <<Quote>> \o Append(s, x) = Append(<<Quote>> \o s, x)
                                      /\ s \o <<x>> = Append(s, x)
    OBVIOUS
  <2>1. PICK q : q = <<Quote>> /\ q \in Seq(Chars)
    BY <1>1
  <2>2. q \o s \in Seq(Chars)
    BY <2>1, ConcatProperties
  <2>3. q \o Append(s, x) = Append(q \o s, x)
    BY <2>1
  <2>. QED
    BY <2>1, <2>2, <2>3, AppendIsConcat
<1>5. Hush(<<Quote>> \o Body(<<>>)) = Within(<<>>)
  <2>1. <<>> \in Seq(Chars) /\ Append(<<>>, Quote) = <<Quote>> /\ <<Quote>> \o <<>> = <<Quote>>
    BY <1>1, ConcatEmptySeq
  <2>2. Hush(<<Quote>>) = HushStep(HushFrom, Quote)
    BY <1>1, <1>2, <2>1
  <2>. QED
    BY <2>1, <2>2, BodyAppend, HushMoves
<1>6. ASSUME NEW text \in Seq(Chars), NEW x \in Chars,
             Hush(<<Quote>> \o Body(text)) = Within(text)
      PROVE Hush(<<Quote>> \o Body(Append(text, x))) = Within(Append(text, x))
  <2>1. PICK b : b = Body(text) /\ b \in Seq(Chars)
    BY BodyAppend
  <2>2. PICK f : f = <<Quote>> \o b /\ f \in Seq(Chars) /\ Hush(f) = Within(text)
    BY <1>4, <1>6, <2>1
  <2>3. CASE x = Slash
    <3>1. Body(Append(text, x)) = Append(Append(b, Slash), Slash)
      BY <2>1, <2>3, BodyAppend
    <3>2. PICK b1 : b1 = Append(b, Slash) /\ b1 \in Seq(Chars)
      BY <1>1, <1>3, <2>1
    <3>3. PICK f1 : f1 = Append(f, Slash) /\ f1 \in Seq(Chars) /\ f1 = <<Quote>> \o b1
      BY <1>1, <1>3, <1>4, <2>1, <2>2, <3>2
    <3>4. <<Quote>> \o Body(Append(text, x)) = Append(f1, Slash)
      BY <1>1, <1>4, <3>1, <3>2, <3>3
    <3>5. Hush(Append(f1, Slash)) = HushStep(HushStep(Within(text), Slash), Slash)
      BY <1>1, <1>2, <2>2, <3>3
    <3>. QED
      BY <2>3, <3>4, <3>5, HushMoves
  <2>4. CASE x = Quote
    <3>1. Body(Append(text, x)) = Append(Append(Append(Append(b, Quote), Slash), Quote), Quote)
      BY <1>1, <2>1, <2>4, BodyAppend
    <3>2. PICK b1 : b1 = Append(b, Quote) /\ b1 \in Seq(Chars)
      BY <1>1, <1>3, <2>1
    <3>3. PICK f1 : f1 = Append(f, Quote) /\ f1 \in Seq(Chars) /\ f1 = <<Quote>> \o b1
      BY <1>1, <1>3, <1>4, <2>1, <2>2, <3>2
    <3>4. PICK b2 : b2 = Append(b1, Slash) /\ b2 \in Seq(Chars)
      BY <1>1, <1>3, <3>2
    <3>5. PICK f2 : f2 = Append(f1, Slash) /\ f2 \in Seq(Chars) /\ f2 = <<Quote>> \o b2
      <4>1. Append(f1, Slash) \in Seq(Chars)
        BY <1>1, <1>3, <3>2, <3>3, <3>4
      <4>2. <<Quote>> \o Append(b1, Slash) = Append(<<Quote>> \o b1, Slash)
        BY <1>1, <1>4, <3>2, <3>3, <3>4
      <4>. QED
        BY <4>1, <4>2, <3>2, <3>3, <3>4
    <3>6. PICK b3 : b3 = Append(b2, Quote) /\ b3 \in Seq(Chars)
      BY <1>1, <1>3, <3>4
    <3>7. PICK f3 : f3 = Append(f2, Quote) /\ f3 \in Seq(Chars) /\ f3 = <<Quote>> \o b3
      <4>1. Append(f2, Quote) \in Seq(Chars)
        BY <1>1, <1>3, <3>4, <3>5, <3>6
      <4>2. <<Quote>> \o Append(b2, Quote) = Append(<<Quote>> \o b2, Quote)
        BY <1>1, <1>4, <3>4, <3>5, <3>6
      <4>. QED
        BY <4>1, <4>2, <3>4, <3>5, <3>6
    <3>8. <<Quote>> \o Body(Append(text, x)) = Append(f3, Quote)
      BY <1>1, <1>4, <3>1, <3>2, <3>4, <3>6, <3>7
    <3>9. Hush(Append(f3, Quote))
            = HushStep(HushStep(HushStep(HushStep(Within(text), Quote), Slash), Quote), Quote)
      <4>1. Hush(f1) = HushStep(Within(text), Quote)
        BY <1>1, <1>2, <2>2, <3>3
      <4>2. Hush(f2) = HushStep(Hush(f1), Slash)
        BY <1>1, <1>2, <3>3, <3>5
      <4>3. Hush(f3) = HushStep(Hush(f2), Quote)
        BY <1>1, <1>2, <3>5, <3>7
      <4>4. Hush(Append(f3, Quote)) = HushStep(Hush(f3), Quote)
        BY <1>1, <1>2, <3>7
      <4>. QED
        BY <4>1, <4>2, <4>3, <4>4
    <3>. QED
      BY <2>4, <3>8, <3>9, HushMoves
  <2>5. CASE x # Slash /\ x # Quote
    <3>1. Body(Append(text, x)) = Append(b, x)
      BY <2>1, <2>5, BodyAppend
    <3>2. <<Quote>> \o Body(Append(text, x)) = Append(f, x)
      BY <1>4, <2>1, <2>2, <3>1
    <3>3. Hush(Append(f, x)) = HushStep(Within(text), x)
      BY <1>2, <2>2
    <3>. QED
      BY <2>5, <3>2, <3>3, HushMoves
  <2>. QED
    BY <2>3, <2>4, <2>5
<1>7. ASSUME NEW text \in Seq(Chars)
      PROVE Hush(<<Quote>> \o Body(text) \o <<Quote>>) = HushStep(Hush(<<Quote>> \o Body(text)), Quote)
  <2>1. PICK f : f = <<Quote>> \o Body(text) /\ f \in Seq(Chars)
    BY <1>1, <1>4, BodyAppend
  <2>2. f \o <<Quote>> = Append(f, Quote)
    BY <1>1, <1>4, <2>1
  <2>. QED
    BY <1>1, <1>2, <2>1, <2>2
<1>. QED
  BY <1>5, <1>6, <1>7

\* After any number of characters the escaped text (runKernel.py:75) has left
\* the shell within the quotes, having put out exactly the command line.
THEOREM Typing == Spec => []Typed
<1>1. Init => Typed
  <2>1. <<>> \in Seq(Chars)
    OBVIOUS
  <2>. QED
    BY <2>1, HushBody DEF Init, Typed, Within
<1>2. Typed /\ [Next]_<<helper, input>> => Typed'
  <2>. SUFFICES ASSUME Typed, [Next]_<<helper, input>>, helper' = "cmdline"
                PROVE input' \in Seq(Chars) /\ Hush(<<Quote>> \o Body(input')) = Within(input')
    BY DEF Typed, Within, Hush, Body, Replace, Chars, HushStep, Quote, Slash
  <2>1. CASE UNCHANGED <<helper, input>>
    BY <2>1 DEF Typed, Within
  <2>2. CASE AppendChar
    <3>1. PICK x \in Chars : helper = "cmdline" /\ input' = Append(input, x)
      BY <2>2 DEF AppendChar, Extend, Chars
    <3>2. input \in Seq(Chars) /\ Hush(<<Quote>> \o Body(input)) = Within(input)
      BY <3>1 DEF Typed, Within
    <3>3. Append(input, x) \in Seq(Chars)
      BY <3>2, AppendProperties
    <3>. QED
      BY <3>1, <3>2, <3>3, HushBody
  <2>3. ~ (AppendByte \/ AppendLine \/ Further("address") \/ Further("length") \/ Operate)
    BY DEF AppendByte, AppendLine, Extend, Further, Operate
  <2>. QED
    BY <2>1, <2>2, <2>3 DEF Next
<1>. QED
  BY <1>1, <1>2, PTL DEF Spec

\* Every command line of runKernel.py (75-81), however long and whatever it is
\* made of, comes out of U-Boot's shell as it was given once it is escaped,
\* with the quotes closed again.
THEOREM CommandLinesSurvive == Spec => []CmdlineSurvives
<1>1. Typed => CmdlineSurvives
  <2>. SUFFICES ASSUME Typed, helper = "cmdline"
                PROVE LET shell == Hush(Escape(input))
                      IN  shell.out = input /\ ~shell.quoted /\ ~shell.slash
    BY DEF CmdlineSurvives
  <2>1. input \in Seq(Chars) /\ Hush(<<Quote>> \o Body(input)) = Within(input)
    BY DEF Typed, Within
  <2>2. Escape(input) = <<Quote>> \o Body(input) \o <<Quote>>
    BY DEF Escape, Body
  <2>3. Hush(Escape(input)) = [slash |-> FALSE, quoted |-> FALSE, out |-> input]
    BY <2>1, <2>2, HushBody, HushMoves
  <2>. QED
    BY <2>3
<1>. QED
  BY <1>1, Typing, PTL

----------------------------------------------------------------------------
(* The platform configuration (optimus.py): after n lines every known key   *)
(* that had one holds the value of its first, unless one could not be       *)
(* parsed.                                                                  *)
LinesTo(lines, n, key) == {k \in 1 .. n : lines[k].key = key}
Earliest(S) == CHOOSE k \in S : \A j \in S : k <= j
FirstTo(lines, n, key) == lines[Earliest(LinesTo(lines, n, key))].value

Confs == [bad : BOOLEAN, value : UNION {[D -> Int] : D \in SUBSET Keys}]

\* What the configuration is after n lines.
ParsedTo(lines, n, conf) ==
    /\ conf \in Confs
    /\ conf.bad <=> \E key \in Keys : LinesTo(lines, n, key) # {} /\ FirstTo(lines, n, key) = Bad
    /\ ~conf.bad => /\ DOMAIN conf.value = {key \in Keys : LinesTo(lines, n, key) # {}}
                    /\ \A key \in DOMAIN conf.value : conf.value[key] = FirstTo(lines, n, key)

\* A further line adds at most itself, and is the first only where none was.
LEMMA EarliestIs ==
  ASSUME NEW n \in Nat, NEW S \in SUBSET (1 .. n)
  PROVE /\ S # {} => Earliest(S) \in S /\ Earliest(S \cup {n + 1}) = Earliest(S)
        /\ Earliest({n + 1}) = n + 1
<1>1. Earliest({n + 1}) = n + 1
  BY DEF Earliest
<1>2. ASSUME S # {} PROVE \E m \in S : \A j \in S : m <= j
  <2>. DEFINE R == OpToRel(<, Nat)
  <2>1. \A x, y \in Nat : <<x, y>> \in R <=> x < y
    BY DEF OpToRel
  <2>2. IsWellFoundedOn(R, Nat)
    BY NatLessThanWellFounded
  <2>3. S \subseteq Nat /\ S # {}
    BY <1>2
  <2>. HIDE DEF R
  <2>4. PICK m \in S : \A j \in S : ~ (<<j, m>> \in R)
    BY <2>2, <2>3, WFMin
  <2>5. ASSUME NEW j \in S PROVE m <= j
    <3>1. m \in Nat /\ j \in Nat /\ ~ (j < m)
      BY <2>1, <2>3, <2>4
    <3>. QED
      BY <3>1
  <2>. QED
    BY <2>5
<1>3. ASSUME S # {}
      PROVE Earliest(S) \in S /\ Earliest(S \cup {n + 1}) = Earliest(S)
  <2>1. PICK m \in S : \A j \in S : m <= j
    BY <1>2, <1>3
  <2>2. \A k \in S : (\A j \in S : k <= j) => k = m
    BY <2>1
  <2>3. Earliest(S) = m
    BY <2>1, <2>2, Zenon DEF Earliest
  <2>4. m \in S \cup {n + 1} /\ \A j \in S \cup {n + 1} : m <= j
    BY <2>1
  <2>5. \A k \in S \cup {n + 1} : (\A j \in S \cup {n + 1} : k <= j) => k = m
    BY <2>1
  <2>6. Earliest(S \cup {n + 1}) = m
    BY <2>4, <2>5, Zenon DEF Earliest
  <2>. QED
    BY <2>1, <2>3, <2>6
<1>. QED
  BY <1>1, <1>3

LEMMA LinesStep ==
  ASSUME NEW K, NEW lines \in Seq([key : K, value : Int]), NEW n \in 0 .. Len(lines) - 1, NEW key
  PROVE /\ lines[n + 1].key # key => /\ LinesTo(lines, n + 1, key) = LinesTo(lines, n, key)
                                     /\ FirstTo(lines, n + 1, key) = FirstTo(lines, n, key)
        /\ lines[n + 1].key = key =>
              /\ LinesTo(lines, n + 1, key) # {}
              /\ LinesTo(lines, n, key) # {} => FirstTo(lines, n + 1, key) = FirstTo(lines, n, key)
              /\ LinesTo(lines, n, key) = {} => FirstTo(lines, n + 1, key) = lines[n + 1].value
<1>1. Len(lines) \in Nat /\ n \in Nat
  OBVIOUS
<1>2. LinesTo(lines, n, key) \in SUBSET (1 .. n)
  BY DEF LinesTo
<1>3. 1 .. n + 1 = (1 .. n) \cup {n + 1}
  BY <1>1
<1>4. lines[n + 1].key # key => LinesTo(lines, n + 1, key) = LinesTo(lines, n, key)
  BY <1>3 DEF LinesTo
<1>5. lines[n + 1].key = key => LinesTo(lines, n + 1, key) = LinesTo(lines, n, key) \cup {n + 1}
  BY <1>3 DEF LinesTo
<1>6. LinesTo(lines, n, key) # {}
        => Earliest(LinesTo(lines, n, key) \cup {n + 1}) = Earliest(LinesTo(lines, n, key))
  BY <1>1, <1>2, EarliestIs
<1>7. LinesTo(lines, n, key) = {} => LinesTo(lines, n, key) \cup {n + 1} = {n + 1}
  OBVIOUS
<1>8. Earliest({n + 1}) = n + 1
  BY <1>1, <1>2, EarliestIs
<1>. QED
  BY <1>4, <1>5, <1>6, <1>7, <1>8 DEF FirstTo

LEMMA ParsedOne ==
  ASSUME NEW K, NEW lines \in Seq([key : K, value : Int]), NEW n \in 0 .. Len(lines) - 1,
         NEW conf, ParsedTo(lines, n, conf)
  PROVE ParsedTo(lines, n + 1, ParseLine(conf, lines[n + 1]))
<1>. DEFINE had(key) == LinesTo(lines, n, key) # {}
            has(key) == LinesTo(lines, n + 1, key) # {}
            old(key) == FirstTo(lines, n, key)
            new(key) == FirstTo(lines, n + 1, key)
<1>1. PICK x \in [key : K, value : Int] : x = lines[n + 1]
  <2>1. n + 1 \in 1 .. Len(lines)
    OBVIOUS
  <2>2. PICK L : L = [key : K, value : Int] /\ lines \in Seq(L)
    OBVIOUS
  <2>3. lines[n + 1] \in L
    BY <2>1, <2>2, ElementOfSeq
  <2>. QED
    BY <2>2, <2>3
<1>2. \A key : /\ x.key # key => (has(key) <=> had(key)) /\ new(key) = old(key)
               /\ x.key = key => /\ has(key)
                                 /\ had(key) => new(key) = old(key)
                                 /\ ~had(key) => new(key) = x.value
  BY <1>1, LinesStep
<1>. HIDE DEF had, has, old, new
<1>3. /\ conf \in Confs
      /\ conf.bad <=> \E key \in Keys : had(key) /\ old(key) = Bad
      /\ ~conf.bad => /\ DOMAIN conf.value = {key \in Keys : had(key)}
                      /\ \A key \in DOMAIN conf.value : conf.value[key] = old(key)
  BY DEF ParsedTo, had, old
<1>. SUFFICES ASSUME NEW c, c = ParseLine(conf, x)
              PROVE /\ c \in Confs
                    /\ c.bad <=> \E key \in Keys : has(key) /\ new(key) = Bad
                    /\ ~c.bad => /\ DOMAIN c.value = {key \in Keys : has(key)}
                                 /\ \A key \in DOMAIN c.value : c.value[key] = new(key)
  BY <1>1 DEF ParsedTo, has, new
<1>4. CASE conf.bad
  <2>1. c = conf
    BY <1>4 DEF ParseLine
  <2>2. PICK key \in Keys : had(key) /\ old(key) = Bad
    BY <1>3, <1>4
  <2>3. has(key) /\ new(key) = Bad
    BY <1>2, <2>2
  <2>. QED
    BY <1>3, <1>4, <2>1, <2>3
<1>5. CASE ~conf.bad /\ x.key \notin Keys \ DOMAIN conf.value
  <2>1. c = conf
    BY <1>5 DEF ParseLine
  <2>2. \A key \in Keys : (has(key) <=> had(key)) /\ (had(key) => new(key) = old(key))
    BY <1>2, <1>3, <1>5
  <2>3. {key \in Keys : has(key)} = {key \in Keys : had(key)}
    BY <2>2
  <2>4. \A key \in DOMAIN conf.value : conf.value[key] = new(key)
    BY <1>3, <1>5, <2>2
  <2>. QED
    BY <1>3, <1>5, <2>1, <2>2, <2>3, <2>4
<1>6. CASE ~conf.bad /\ x.key \in Keys \ DOMAIN conf.value
  <2>1. PICK D : D = DOMAIN conf.value
    OBVIOUS
  <2>2. D \subseteq Keys /\ \A key \in D : conf.value[key] \in Int
    BY <1>3, <2>1 DEF Confs
  <2>3. c = [bad |-> x.value = Bad,
             value |-> [k \in D \cup {x.key} |-> IF k = x.key THEN x.value ELSE conf.value[k]]]
    BY <1>6, <2>1 DEF ParseLine
  <2>4. PICK v : v = [k \in D \cup {x.key} |-> IF k = x.key THEN x.value ELSE conf.value[k]]
    OBVIOUS
  <2>5. c.value = v /\ (c.bad <=> x.value = Bad)
    <3>1. CASE x.value = Bad
      <4>1. (x.value = Bad) = TRUE
        BY <3>1, Zenon
      <4>2. c = [bad |-> TRUE, value |-> v]
        BY <2>3, <2>4, <4>1, Zenon
      <4>3. c.value = v /\ c.bad
        BY <4>2
      <4>. QED
        BY <3>1, <4>3
    <3>2. CASE x.value # Bad
      <4>1. (x.value = Bad) = FALSE
        BY <3>2, Zenon
      <4>2. c = [bad |-> FALSE, value |-> v]
        BY <2>3, <2>4, <4>1, Zenon
      <4>3. c.value = v /\ ~c.bad
        BY <4>2
      <4>. QED
        BY <3>2, <4>3
    <3>. QED
      BY <3>1, <3>2
  <2>6. v \in [D \cup {x.key} -> Int] /\ D \cup {x.key} \in SUBSET Keys
    BY <1>6, <2>2, <2>4
  <2>7. c \in Confs
    <3>1. v \in UNION {[E -> Int] : E \in SUBSET Keys}
      BY <2>6
    <3>. QED
      <4>1. PICK V, b : V = UNION {[E -> Int] : E \in SUBSET Keys} /\ b = (x.value = Bad)
        OBVIOUS
      <4>2. b \in BOOLEAN
        BY <4>1, Zenon
      <4>3. c = [bad |-> b, value |-> v]
        BY <2>3, <2>4, <4>1, Zenon
      <4>4. c \in [bad : BOOLEAN, value : V]
        BY <3>1, <4>1, <4>2, <4>3
      <4>. QED
        BY <4>1, <4>4, Zenon DEF Confs
  <2>8. ~had(x.key)
    BY <1>3, <1>6, <2>1
  <2>9. has(x.key) /\ new(x.key) = x.value
    BY <1>2, <2>8
  <2>10. \A key \in Keys : key # x.key => (has(key) <=> had(key)) /\ new(key) = old(key)
    BY <1>2
  <2>11. c.bad <=> \E key \in Keys : has(key) /\ new(key) = Bad
    BY <1>3, <1>6, <2>5, <2>9, <2>10
  <2>12. D \cup {x.key} = {key \in Keys : has(key)}
    BY <1>3, <1>6, <2>1, <2>9, <2>10
  <2>13. \A key \in D \cup {x.key} : v[key] = new(key)
    <3>1. \A key \in D : key # x.key /\ conf.value[key] = old(key) /\ new(key) = old(key)
      BY <1>3, <1>6, <2>1, <2>2, <2>10
    <3>. QED
      BY <2>4, <2>9, <3>1
  <2>14. DOMAIN v = D \cup {x.key}
    BY <2>4
  <2>. QED
    BY <2>5, <2>7, <2>11, <2>12, <2>13, <2>14
<1>. QED
  BY <1>4, <1>5, <1>6

LEMMA ParseLineType ==
  ASSUME NEW K, NEW conf \in Confs, NEW x \in [key : K, value : Int]
  PROVE ParseLine(conf, x) \in Confs
<1>1. CASE conf.bad \/ x.key \notin Keys \ DOMAIN conf.value
  BY <1>1 DEF ParseLine
<1>2. CASE ~ (conf.bad \/ x.key \notin Keys \ DOMAIN conf.value)
  <2>1. PICK D, b : D = DOMAIN conf.value /\ b = (x.value = Bad)
    OBVIOUS
  <2>2. D \subseteq Keys /\ \A key \in D : conf.value[key] \in Int
    BY <2>1 DEF Confs
  <2>3. PICK v : v = [k \in D \cup {x.key} |-> IF k = x.key THEN x.value ELSE conf.value[k]]
    OBVIOUS
  <2>4. ParseLine(conf, x) = [bad |-> b, value |-> v]
    BY <1>2, <2>1, <2>3, Zenon DEF ParseLine
  <2>5. v \in [D \cup {x.key} -> Int] /\ D \cup {x.key} \in SUBSET Keys
    BY <1>2, <2>2, <2>3
  <2>6. PICK V : V = UNION {[E -> Int] : E \in SUBSET Keys}
    OBVIOUS
  <2>7. v \in V
    BY <2>5, <2>6
  <2>8. b \in BOOLEAN
    BY <2>1, Zenon
  <2>9. [bad |-> b, value |-> v] \in [bad : BOOLEAN, value : V]
    BY <2>7, <2>8
  <2>. QED
    BY <2>4, <2>6, <2>9, Zenon DEF Confs
<1>. QED
  BY <1>1, <1>2

\* The loop over the lines, and the configuration it leaves.
LEMMA ParsedAll ==
  ASSUME NEW K, NEW lines \in Seq([key : K, value : Int])
  PROVE ParsedTo(lines, Len(lines), Parsed(lines))
<1>. DEFINE base == [bad |-> FALSE, value |-> NoConf]
            L == [key : K, value : Int]
            Is(f) == f = [n \in 0 .. Len(lines) |->
                             IF n = 0 THEN base ELSE ParseLine(f[n - 1], lines[n])]
<1>1. base \in Confs /\ ~base.bad /\ DOMAIN base.value = {}
  <2>1. PICK V : V = UNION {[E -> Int] : E \in SUBSET Keys}
    OBVIOUS
  <2>2. PICK no : no = NoConf /\ no \in [{} -> Int] /\ DOMAIN no = {}
    <3>1. PICK no : no = [k \in {} |-> 0]
      OBVIOUS
    <3>. QED
      <4>1. no = NoConf
        BY <3>1, Zenon DEF NoConf
      <4>2. no \in [{} -> Int] /\ DOMAIN no = {}
        BY <3>1
      <4>. QED
        BY <4>1, <4>2, Zenon
  <2>3. {} \in SUBSET Keys
    OBVIOUS
  <2>4. no \in V
    BY <2>1, <2>2, <2>3, Zenon
  <2>5. base \in [bad : BOOLEAN, value : V]
    BY <2>2, <2>4
  <2>6. base \in Confs
    BY <2>1, <2>5, Zenon DEF Confs
  <2>. QED
    BY <2>2, <2>6
<1>. HIDE DEF base
<1>2. Len(lines) \in Nat
  OBVIOUS
<1>3. \A n \in 1 .. Len(lines) : lines[n] \in L
  BY ElementOfSeq
<1>4. \E f : Is(f)
  <2>. DEFINE step == [n \in 1 .. Len(lines) |-> [s \in Confs |-> ParseLine(s, lines[n])]]
  <2>1. \A n \in 1 .. Len(lines) : \A s \in Confs : ParseLine(s, lines[n]) \in Confs
    BY <1>3, ParseLineType
  <2>3. PICK N, S, st : N = Len(lines) /\ S = Confs /\ st = step
    OBVIOUS
  <2>4. st \in [1 .. N -> [S -> S]]
    BY <2>1, <2>3
  <2>5. N \in Nat /\ base \in S
    BY <1>1, <1>2, <2>3
  <2>6. PICK f : f \in Stepwise(N, S, base, st)
    BY <2>4, <2>5, StepwiseExists
  <2>7. /\ f \in [0 .. N -> S] /\ f[0] = base
        /\ \A n \in 1 .. N : f[n] = st[n][f[n - 1]]
    BY <2>6 DEF Stepwise
  <2>8. \A n \in 1 .. N : f[n] = ParseLine(f[n - 1], lines[n])
    <3>. SUFFICES ASSUME NEW n \in 1 .. N PROVE f[n] = ParseLine(f[n - 1], lines[n])
      OBVIOUS
    <3>1. n - 1 \in 0 .. N
      BY <2>5
    <3>2. PICK s \in S : s = f[n - 1]
      BY <2>7, <3>1
    <3>3. st[n][s] = ParseLine(s, lines[n])
      BY <2>3
    <3>. QED
      BY <2>7, <3>2, <3>3
  <2>9. \A n \in 0 .. N : f[n] = (IF n = 0 THEN base ELSE ParseLine(f[n - 1], lines[n]))
    <3>1. \A n \in 0 .. N : n = 0 \/ n \in 1 .. N
      BY <2>5
    <3>. QED
      BY <2>3, <2>7, <2>8, <3>1
  <2>10. f = [n \in 0 .. Len(lines) |-> IF n = 0 THEN base ELSE ParseLine(f[n - 1], lines[n])]
    BY <2>3, <2>7, <2>9
  <2>. QED
    BY <2>10
<1>5. PICK f : Is(f) /\ Parsed(lines) = f[Len(lines)]
  BY <1>4, Zenon DEF Parsed, base
<1>6. f[0] = base /\ \A n \in 1 .. Len(lines) : f[n] = ParseLine(f[n - 1], lines[n])
  <2>1. 0 \in 0 .. Len(lines) /\ \A n \in 1 .. Len(lines) : n \in 0 .. Len(lines) /\ n # 0
    BY <1>2
  <2>. QED
    BY <1>5, <2>1
<1>. HIDE DEF Is
<1>. DEFINE P == {n \in 0 .. Len(lines) : ParsedTo(lines, n, f[n])}
<1>7. 0 \in P
  <2>1. \A key : LinesTo(lines, 0, key) = {}
    BY DEF LinesTo
  <2>2. ParsedTo(lines, 0, base)
    BY <1>1, <2>1 DEF ParsedTo
  <2>. QED
    BY <1>2, <1>6, <2>2
<1>8. ASSUME NEW n \in 0 .. Len(lines) - 1, n \in P PROVE n + 1 \in P
  <2>1. n + 1 \in 1 .. Len(lines) /\ (n + 1) - 1 = n /\ n + 1 \in 0 .. Len(lines)
    BY <1>2
  <2>2. f[n + 1] = ParseLine(f[n], lines[n + 1])
    BY <1>6, <2>1
  <2>3. ParsedTo(lines, n + 1, ParseLine(f[n], lines[n + 1]))
    BY <1>8, ParsedOne
  <2>. QED
    BY <2>1, <2>2, <2>3
<1>. HIDE DEF P
<1>9. 0 .. Len(lines) \subseteq P
  BY <1>2, <1>7, <1>8, SetInduction
<1>10. Len(lines) \in P
  BY <1>2, <1>9
<1>. QED
  BY <1>5, <1>10 DEF P

\* What Platform makes of a list of lines: the property without the state.
LEMMA PlatformIs ==
  ASSUME NEW K, NEW lines \in Seq([key : K, value : Int])
  PROVE LET platform == Platform(lines)
            Has(key) == LinesTo(lines, Len(lines), key) # {}
            Fst(key) == FirstTo(lines, Len(lines), key)
        IN  /\ (platform # NoConf)
                 <=> /\ \A key \in Required : Has(key)
                     /\ \A key \in Keys : Has(key) => Fst(key) # Bad
            /\ platform # NoConf =>
                 /\ \A key \in Keys :
                       platform[key] =
                          IF Has(key) THEN Fst(key)
                          ELSE IF key = "UbootLoad" THEN Fst("DDRLoad")
                          ELSE IF key = "UbootRun" THEN Fst("DDRRun")
                          ELSE 0
                 /\ UsedAttributes \ DOMAIN platform = {"enc_reg1", "enc_reg2"}
<1>. DEFINE Has(key) == LinesTo(lines, Len(lines), key) # {}
            Fst(key) == FirstTo(lines, Len(lines), key)
<1>1. PICK conf : conf = Parsed(lines)
  OBVIOUS
<1>2. /\ conf.bad <=> \E key \in Keys : Has(key) /\ Fst(key) = Bad
      /\ ~conf.bad => /\ DOMAIN conf.value = {key \in Keys : Has(key)}
                      /\ \A key \in DOMAIN conf.value : conf.value[key] = Fst(key)
  BY <1>1, ParsedAll DEF ParsedTo
<1>3. PICK platform : platform = Platform(lines)
  OBVIOUS
<1>. HIDE DEF Has, Fst
<1>4. Required \subseteq Keys
  BY DEF Keys
<1>5. CASE conf.bad \/ ~(Required \subseteq DOMAIN conf.value)
  <2>1. platform = NoConf
    BY <1>1, <1>3, <1>5 DEF Platform
  <2>2. ~ (/\ \A key \in Required : Has(key)
           /\ \A key \in Keys : Has(key) => Fst(key) # Bad)
    BY <1>2, <1>4, <1>5
  <2>. QED
    BY <1>3, <2>1, <2>2 DEF Has, Fst
<1>6. CASE ~conf.bad /\ Required \subseteq DOMAIN conf.value
  <2>1. platform = [k \in Keys |-> Default(conf, k)]
    BY <1>1, <1>3, <1>6 DEF Platform
  <2>2. DOMAIN platform = Keys /\ \A k \in Keys : platform[k] = Default(conf, k)
    BY <2>1
  <2>3. "Platform" \in Keys /\ "DDRLoad" \in Required /\ "DDRRun" \in Required
    BY DEF Keys, Required
  <2>4. platform # NoConf
    BY <2>2, <2>3 DEF NoConf
  <2>5. /\ \A key \in Required : Has(key)
        /\ \A key \in Keys : Has(key) => Fst(key) # Bad
    BY <1>2, <1>4, <1>6
  <2>6. ASSUME NEW key \in Keys
        PROVE platform[key] = IF Has(key) THEN Fst(key)
                              ELSE IF key = "UbootLoad" THEN Fst("DDRLoad")
                              ELSE IF key = "UbootRun" THEN Fst("DDRRun")
                              ELSE 0
    <3>1. CASE Has(key)
      BY <1>2, <1>6, <2>2, <3>1 DEF Default
    <3>2. CASE ~Has(key)
      <4>1. key \notin DOMAIN conf.value
        BY <1>2, <1>6, <3>2
      <4>2. platform[key] = IF key \in DOMAIN Borrowed THEN conf.value[Borrowed[key]] ELSE 0
        BY <2>2, <4>1 DEF Default
      <4>3. conf.value["DDRLoad"] = Fst("DDRLoad") /\ conf.value["DDRRun"] = Fst("DDRRun")
        BY <1>2, <1>6, <2>3
      <4>4. DOMAIN Borrowed = {"UbootLoad", "UbootRun"} /\ Borrowed["UbootLoad"] = "DDRLoad"
              /\ Borrowed["UbootRun"] = "DDRRun"
        BY DEF Borrowed
      <4>. QED
        BY <3>2, <4>2, <4>3, <4>4
    <3>. QED
      BY <3>1, <3>2
  <2>7. UsedAttributes \ Keys = {"enc_reg1", "enc_reg2"}
    BY DEF UsedAttributes, Keys, Required, Optional, Borrowed
  <2>. QED
    BY <1>3, <2>2, <2>4, <2>5, <2>6, <2>7 DEF Has, Fst
<1>. QED
  BY <1>5, <1>6

\* The configuration is a sequence of lines, whatever is appended.
AllLines == [key : LineKeys \cup Keys, value : Int]
LinesTyped == helper = "platform" => input \in Seq(AllLines)

\* The lines given and every line appended are those of a configuration, whose
\* keys and values Platform (optimus.py:697-708) splits at the colon.
THEOREM LinesInvariance == Spec => []LinesTyped
<1>1. Init => LinesTyped
  BY LinesAssumption DEF Init, LinesTyped, AllLines
<1>2. LinesTyped /\ [Next]_<<helper, input>> => LinesTyped'
  <2>. SUFFICES ASSUME LinesTyped, [Next]_<<helper, input>>, helper' = "platform"
                PROVE input' \in Seq(AllLines)
    BY DEF LinesTyped, AllLines
  <2>1. CASE UNCHANGED <<helper, input>>
    BY <2>1 DEF LinesTyped
  <2>2. CASE AppendLine
    <3>1. PICK x \in [key : LineKeys, value : {Bad, 1, 2}] :
            helper = "platform" /\ input' = Append(input, x)
      BY <2>2 DEF AppendLine, Extend
    <3>2. x \in AllLines
      BY DEF AllLines, Bad
    <3>. QED
      BY <3>1, <3>2, AppendProperties DEF LinesTyped
  <2>3. ~ (AppendByte \/ AppendChar \/ Further("address") \/ Further("length") \/ Operate)
    BY DEF AppendByte, AppendChar, Extend, Further, Operate
  <2>. QED
    BY <2>1, <2>2, <2>3 DEF Next
<1>. QED
  BY <1>1, <1>2, PTL DEF Spec

\* For every configuration Platform (optimus.py:671-719) takes the first line of
\* each key, the defaults from the lines they are taken from, and fails exactly
\* when a required line is missing or the line that counts cannot be parsed.
THEOREM PlatformsSound == Spec => []PlatformSound
<1>1. LinesTyped => PlatformSound
  <2>. SUFFICES ASSUME LinesTyped, helper = "platform" PROVE PlatformSound
    BY DEF PlatformSound
  <2>1. PICK K : K = LineKeys \cup Keys
    OBVIOUS
  <2>2. input \in Seq([key : K, value : Int])
    BY <2>1 DEF LinesTyped, AllLines
  <2>3. \A key : Lines(key) = LinesTo(input, Len(input), key)
    BY <2>2 DEF Lines, LinesTo
  <2>4. \A key : First(key) = FirstTo(input, Len(input), key)
    BY <2>3 DEF First, FirstTo, Earliest
  <2>. HIDE DEF LinesTyped
  <2>. QED
    BY <2>2, <2>3, <2>4, PlatformIs DEF PlatformSound
<1>. QED
  BY <1>1, LinesInvariance, PTL

----------------------------------------------------------------------------
(* Transfers and registers (pyamlboot.py).                                  *)
TransferTyped ==
    /\ helper = "transfer" => input \in [address : Nat, length : Nat]
    /\ helper = "transfer" => input.address <= MaxSpan /\ input.length <= MaxSpan
    /\ helper = "registers" => input \in Registers

\* A register write is nothing else.
LEMMA WriteIs ==
  ASSUME NEW regs \in Registers, NEW a \in Places, NEW v \in Values
  PROVE DevModify(regs, writeReg(a, v)) = [regs EXCEPT ![a] = v]
BY DEF DevModify, writeReg, Modify

\* Addresses and lengths stay natural numbers within their bound, and register
\* operations (pyamlboot.py:142-187) keep the registers registers.
THEOREM TransferInvariance == Spec => []TransferTyped
<1>1. Init => TransferTyped
  BY HelpersAssumption DEF Init, TransferTyped, Registers, Values
<1>2. TransferTyped /\ [Next]_<<helper, input>> => TransferTyped'
  <2>. SUFFICES ASSUME TransferTyped, [Next]_<<helper, input>> PROVE TransferTyped'
    OBVIOUS
  <2>1. CASE UNCHANGED <<helper, input>>
    BY <2>1 DEF TransferTyped, Registers, Values
  <2>2. CASE AppendByte \/ AppendLine \/ AppendChar
    <3>1. helper' # "transfer" /\ helper' # "registers"
      BY <2>2 DEF AppendByte, AppendLine, AppendChar, Extend
    <3>. QED
      BY <3>1 DEF TransferTyped
  <2>3. CASE Further("address") \/ Further("length")
    <3>1. PICK field \in {"address", "length"} : Further(field)
      BY <2>3
    <3>2. helper = "transfer" /\ helper' = helper /\ input[field] < MaxSpan
            /\ input' = [input EXCEPT ![field] = @ + 1]
      BY <3>1 DEF Further
    <3>. QED
      BY <3>2, HelpersAssumption DEF TransferTyped
  <2>4. CASE Operate
    <3>1. PICK a \in Places, v \in Values :
            helper = "registers" /\ helper' = helper /\ input' = DevModify(input, writeReg(a, v))
      BY <2>4 DEF Operate
    <3>2. input' = [input EXCEPT ![a] = v] /\ input \in Registers
      BY <3>1, WriteIs DEF TransferTyped
    <3>3. input' \in Registers
      BY <3>2 DEF Registers
    <3>. QED
      BY <3>1, <3>3 DEF TransferTyped, Registers, Values
  <2>. QED
    BY <2>1, <2>2, <2>3, <2>4 DEF Next
<1>. QED
  BY <1>1, <1>2, PTL DEF Spec

\* Every register operation changes its address as its docstring says, and no other.
LEMMA Registered ==
  ASSUME input \in Registers
  PROVE RegistersSound
<1>1. ASSUME NEW a \in Places, NEW v \in Values, NEW m \in Values
      PROVE /\ Only(writeReg(a, v), a, v)
            /\ Only(maskRegAND(a, m), a, input[a] \cap m)
            /\ Only(maskRegOR(a, m), a, input[a] \cup m)
            /\ Only(maskRegNAND(a, m), a, input[a] \ m)
            /\ Only(writeRegBits(a, m, v), a, {b \in Bits : IF b \in m THEN b \in v ELSE b \in input[a]})
  <2>1. Only(writeReg(a, v), a, v)
    BY DEF Only, DevModify, writeReg, Modify
  <2>2. Only(maskRegAND(a, m), a, input[a] \cap m)
    BY DEF Only, DevModify, maskRegAND, Modify
  <2>3. Only(maskRegOR(a, m), a, input[a] \cup m)
    BY DEF Only, DevModify, maskRegOR, Modify
  <2>4. Only(maskRegNAND(a, m), a, input[a] \ m)
    BY DEF Only, DevModify, maskRegNAND, Modify
  <2>5. Only(writeRegBits(a, m, v), a, {b \in Bits : IF b \in m THEN b \in v ELSE b \in input[a]})
    <3>1. {b \in Bits : IF b \in m THEN b \in v ELSE b \in input[a]} = (input[a] \ m) \cup (v \cap m)
      BY DEF Registers, Values
    <3>. QED
      <4>1. DevModify(input, writeRegBits(a, m, v)) = [input EXCEPT ![a] = (input[a] \ m) \cup (v \cap m)]
        BY DEF DevModify, writeRegBits, Modify
      <4>. QED
        BY <3>1, <4>1, Zenon DEF Only
  <2>. QED
    BY <2>1, <2>2, <2>3, <2>4, <2>5
<1>2. ASSUME NEW src \in Places, NEW dest \in Places, NEW m \in Values
      PROVE /\ Only(copyReg(src, dest), dest, input[src])
            /\ Only(copyRegMaskAND(src, dest, m), dest, input[src] \cap m)
  <2>1. Only(copyReg(src, dest), dest, input[src])
    BY DEF Only, DevModify, copyReg, Modify
  <2>2. Only(copyRegMaskAND(src, dest, m), dest, input[src] \cap m)
    BY DEF Only, DevModify, copyRegMaskAND, Modify
  <2>. QED
    BY <2>1, <2>2
<1>3. ASSUME NEW src \in Places, NEW dest \in Places, NEW n \in 0 .. Cardinality(Places),
             NEW a \in Places
      PROVE DevModify(input, memcpy(dest, src, n))[a]
              = IF a \in dest .. dest + n - 1 THEN input[src + a - dest] ELSE input[a]
  <2>1. a \in Int /\ src \in Int /\ dest \in Int /\ n \in Int
    BY TransferAssumption
  <2>2. DevModify(input, memcpy(dest, src, n))
          = [p \in DOMAIN input |-> IF p - dest \in 0 .. n - 1 THEN input[p - dest + src] ELSE input[p]]
    BY DEF DevModify, memcpy, Modify
  <2>3. DOMAIN input = Places
    BY DEF Registers
  <2>4. (a - dest \in 0 .. n - 1) <=> (a \in dest .. dest + n - 1)
    BY <2>1
  <2>5. a - dest + src = src + a - dest
    BY <2>1
  <2>. QED
    BY <2>2, <2>3, <2>4, <2>5
<1>. QED
  BY <1>1, <1>2, <1>3, ZenonT(60) DEF RegistersSound

\* A chunk of a transfer: its number, and what is left from it on.
LEMMA ChunkNumber ==
  ASSUME NEW c \in Nat \ {0}, NEW length \in Nat
  PROVE /\ (length + c - 1) \div c \in Nat
        /\ \A k \in Nat \ {0} : k <= (length + c - 1) \div c <=> (k - 1) * c < length
        /\ \A i \in 0 .. length - 1 :
              \E k \in 1 .. (length + c - 1) \div c : (k - 1) * c <= i /\ i < (k - 1) * c + c
<1>1. PICK n \in Nat, q \in Nat, r \in 0 .. c - 1 :
        n = length + c - 1 /\ q = n \div c /\ n = c * q + r
  <2>1. PICK n \in Nat : n = length + c - 1
    OBVIOUS
  <2>2. n \div c \in Nat /\ n % c \in 0 .. c - 1 /\ n = c * (n \div c) + (n % c)
    OBVIOUS
  <2>. QED
    BY <2>1, <2>2
<1>2. ASSUME NEW k \in Nat \ {0} PROVE k <= q <=> (k - 1) * c < length
  <2>1. PICK p \in Nat : p = (k - 1) * c /\ k * c = p + c
    OBVIOUS
  <2>2. CASE k <= q
    <3>1. k * c <= q * c
      BY <2>2
    <3>2. q * c = c * q
      OBVIOUS
    <3>3. PICK z \in Nat : z = c * q
      OBVIOUS
    <3>. QED
      BY <1>1, <2>1, <2>2, <3>1, <3>2, <3>3
  <2>3. CASE ~ (k <= q)
    <3>1. PICK d \in Nat : k - 1 = q + d
      BY <2>3
    <3>2. (k - 1) * c = q * c + d * c /\ d * c \in Nat /\ q * c = c * q
      BY <3>1
    <3>3. PICK z \in Nat, y \in Nat : z = c * q /\ y = d * c
      BY <3>2
    <3>. QED
      BY <1>1, <2>1, <2>3, <3>2, <3>3
  <2>. QED
    BY <2>2, <2>3
<1>3. ASSUME NEW i \in 0 .. length - 1
      PROVE \E k \in 1 .. q : (k - 1) * c <= i /\ i < (k - 1) * c + c
  <2>1. PICK j \in Nat, s \in 0 .. c - 1 : i = c * j + s
    <3>1. i = c * (i \div c) + (i % c) /\ i \div c \in Nat /\ i % c \in 0 .. c - 1
      OBVIOUS
    <3>. QED
      BY <3>1
  <2>2. PICK k \in Nat \ {0} : k = j + 1 /\ k - 1 = j
    OBVIOUS
  <2>3. PICK z \in Nat : z = c * j /\ z = (k - 1) * c
    BY <2>2
  <2>4. z <= i /\ i < z + c /\ z < length
    BY <2>1, <2>3
  <2>5. k <= q
    BY <1>2, <2>3, <2>4
  <2>. QED
    BY <2>3, <2>4, <2>5
<1>. QED
  BY <1>1, <1>2, <1>3

\* A byte is in one chunk.
LEMMA SameChunk ==
  ASSUME NEW c \in Nat \ {0}, NEW k \in Nat \ {0}, NEW l \in Nat \ {0}, NEW i \in Nat,
         (k - 1) * c <= i, i < (k - 1) * c + c, (l - 1) * c <= i, i < (l - 1) * c + c
  PROVE l = k
<1>1. ASSUME NEW a \in Nat, NEW b \in Nat, a < b PROVE a * c + c <= b * c
  <2>1. PICK d \in Nat : b = a + 1 + d
    BY <1>1
  <2>2. b * c = a * c + c + d * c /\ d * c \in Nat /\ a * c \in Nat
    BY <2>1
  <2>. QED
    BY <2>2
<1>2. PICK a \in Nat, b \in Nat : a = k - 1 /\ b = l - 1
  OBVIOUS
<1>3. a * c \in Nat /\ b * c \in Nat
  OBVIOUS
<1>4. ~ (a < b) /\ ~ (b < a)
  BY <1>1, <1>2, <1>3
<1>. QED
  BY <1>2, <1>4

\* The transfers of writeMemory, and the bytes each one carries.
LEMMA Transfers ==
  ASSUME NEW address \in Nat, NEW length \in Nat, NEW N, N = (length + ChunkSize - 1) \div ChunkSize
  PROVE /\ N \in Nat
        /\ DOMAIN WriteMemory(address, length) = 1 .. N
        /\ \A k \in 1 .. N :
             LET t == WriteMemory(address, length)[k]
             IN  /\ t.from = (k - 1) * ChunkSize /\ t.from \in Nat /\ t.from < length
                 /\ t.length = IF length - t.from > ChunkSize THEN ChunkSize ELSE length - t.from
                 /\ t.to.wValue * HalfWord + t.to.wIndex = address + t.from
                 /\ t.to.wIndex < HalfWord
<1>1. N \in Nat /\ \A k \in Nat \ {0} : k <= N <=> (k - 1) * ChunkSize < length
  BY TransferAssumption, ChunkNumber
<1>2. PICK from : from = [k \in 1 .. N |-> (k - 1) * ChunkSize]
  OBVIOUS
<1>3. WriteMemory(address, length) =
        [k \in DOMAIN from |->
            Transfer(address, from[k],
                     IF length - from[k] > ChunkSize THEN ChunkSize ELSE length - from[k])]
  BY <1>2, Zenon DEF WriteMemory
<1>4. DOMAIN from = 1 .. N /\ \A k \in 1 .. N : from[k] = (k - 1) * ChunkSize
  BY <1>2
<1>5. DOMAIN WriteMemory(address, length) = 1 .. N
  BY <1>3, <1>4
<1>6. ASSUME NEW k \in 1 .. N, NEW t, t = WriteMemory(address, length)[k]
      PROVE /\ t.from = (k - 1) * ChunkSize /\ t.from \in Nat /\ t.from < length
            /\ t.length = IF length - t.from > ChunkSize THEN ChunkSize ELSE length - t.from
            /\ t.to.wValue * HalfWord + t.to.wIndex = address + t.from
            /\ t.to.wIndex < HalfWord
  <2>1. PICK f : f = from[k]
    OBVIOUS
  <2>2. t = Transfer(address, f, IF length - f > ChunkSize THEN ChunkSize ELSE length - f)
    BY <1>3, <1>4, <1>6, <2>1
  <2>3. f = (k - 1) * ChunkSize /\ f \in Nat /\ f < length
    <3>1. k \in Nat \ {0} /\ k <= N
      BY <1>1
    <3>2. k - 1 \in Nat /\ ChunkSize \in Nat
      BY <3>1, TransferAssumption
    <3>. QED
      BY <1>1, <1>4, <2>1, <3>1, <3>2
  <2>4. /\ t.from = f /\ t.length = (IF length - f > ChunkSize THEN ChunkSize ELSE length - f)
        /\ t.to = Split(address + f)
    BY <2>2 DEF Transfer
  <2>5. PICK a \in Nat : a = address + f
    BY <2>3
  <2>6. t.to.wValue = a \div HalfWord /\ t.to.wIndex = a % HalfWord
    BY <2>4, <2>5 DEF Split
  <2>7. a = HalfWord * (a \div HalfWord) + (a % HalfWord) /\ a % HalfWord \in 0 .. HalfWord - 1
          /\ a \div HalfWord \in Nat
    BY TransferAssumption
  <2>8. (a \div HalfWord) * HalfWord = HalfWord * (a \div HalfWord)
    BY <2>7, TransferAssumption
  <2>9. PICK u \in Nat, w \in Nat, z \in Nat :
          u = a \div HalfWord /\ w = a % HalfWord /\ z = u * HalfWord /\ z = HalfWord * u
    BY <2>7, <2>8, TransferAssumption
  <2>10. z + w = a /\ w < HalfWord
    BY <2>7, <2>9, TransferAssumption
  <2>. QED
    BY <2>3, <2>4, <2>5, <2>6, <2>9, <2>10
<1>. QED
  BY <1>1, <1>5, <1>6

\* readMemory is done after one round: it has read everything, or it raised.
LEMMA ReadMemoryIs ==
  ASSUME NEW address \in Nat, NEW length \in Nat
  PROVE /\ length < ChunkSize => ~ReadMemory(address, length).raised
        /\ ~ReadMemory(address, length).raised =>
              ReadMemory(address, length).data = [k \in 1 .. length |-> address + k - 1]
<1>. DEFINE first == ReadRound(address, ReadStart(length))
            Runs(f) == f = [k \in 0 .. length |->
                              IF k = 0 THEN ReadStart(length) ELSE ReadRound(address, f[k - 1])]
<1>1. PICK c \in Nat \ {0} : c = ChunkSize
  BY TransferAssumption
<1>2. /\ first.raised \/ first.left = 0
      /\ length < ChunkSize => ~first.raised
      /\ ~first.raised => first.data = [k \in 1 .. length |-> address + k - 1]
  <2>1. CASE length = 0
    <3>1. first = ReadStart(length)
      BY <2>1 DEF ReadRound, ReadStart
    <3>2. <<>> = [k \in 1 .. length |-> address + k - 1]
      BY <2>1
    <3>. QED
      BY <2>1, <3>1, <3>2 DEF ReadStart
  <2>2. CASE length # 0 /\ length >= c
    <3>1. first.raised
      BY <1>1, <2>2 DEF ReadRound, ReadStart, AppendChunk
    <3>. QED
      BY <1>1, <2>2, <3>1
  <2>3. CASE length # 0 /\ ~(length >= c)
    <3>1. first = [ReadStart(length) EXCEPT
                      !.left = 0, !.data = <<>> \o Chunk(address + 0, length)]
      BY <1>1, <2>3 DEF ReadRound, ReadStart
    <3>2. Chunk(address + 0, length) = [k \in 1 .. length |-> address + k - 1]
      BY DEF Chunk
    <3>3. <<>> \o Chunk(address + 0, length) = Chunk(address + 0, length)
      <4>1. Chunk(address + 0, length) \in Seq(Int)
        BY <3>2
      <4>. QED
        BY <4>1
    <3>. QED
      BY <3>1, <3>2, <3>3 DEF ReadStart
  <2>. QED
    BY <2>1, <2>2, <2>3
<1>. HIDE DEF first
<1>3. ReadRound(address, first) = first
  BY <1>2 DEF ReadRound
<1>4. ASSUME length # 0
      PROVE Runs([k \in 0 .. length |-> IF k = 0 THEN ReadStart(length) ELSE first])
  <2>. DEFINE g == [k \in 0 .. length |-> IF k = 0 THEN ReadStart(length) ELSE first]
  <2>1. ASSUME NEW k \in 0 .. length
        PROVE g[k] = IF k = 0 THEN ReadStart(length) ELSE ReadRound(address, g[k - 1])
    <3>1. CASE k = 0
      BY <3>1
    <3>2. CASE k = 1
      <4>1. g[k - 1] = ReadStart(length) /\ g[k] = first
        BY <3>2
      <4>. QED
        BY <3>2, <4>1 DEF first
    <3>3. CASE k # 0 /\ k # 1
      <4>1. k - 1 \in 0 .. length /\ k - 1 # 0
        BY <3>3
      <4>2. g[k - 1] = first /\ g[k] = first
        BY <3>3, <4>1
      <4>. QED
        BY <1>3, <3>3, <4>2
    <3>. QED
      BY <3>1, <3>2, <3>3
  <2>2. g = [k \in 0 .. length |->
                IF k = 0 THEN ReadStart(length) ELSE ReadRound(address, g[k - 1])]
    BY <2>1
  <2>. QED
    BY <2>2
<1>5. Runs([k \in {0} |-> ReadStart(length)]) \/ length # 0
  OBVIOUS
<1>6. PICK f : Runs(f) /\ ReadMemory(address, length) = f[length]
  <2>1. \E f : Runs(f)
    <3>. HIDE DEF Runs
    <3>. QED
      BY <1>4, <1>5
  <2>2. ReadMemory(address, length) = (CHOOSE f : Runs(f))[length]
    BY DEF ReadMemory
  <2>. HIDE DEF Runs
  <2>3. Runs(CHOOSE f : Runs(f))
    BY <2>1
  <2>. QED
    BY <2>2, <2>3
<1>7. f[0] = ReadStart(length) /\ \A k \in 1 .. length : f[k] = ReadRound(address, f[k - 1])
  BY <1>6
<1>8. CASE length = 0
  <2>1. f[length] = ReadStart(length)
    BY <1>7, <1>8
  <2>2. <<>> = [k \in 1 .. length |-> address + k - 1]
    BY <1>8
  <2>3. ReadMemory(address, length) = ReadStart(length)
    <3>. HIDE DEF Runs
    <3>. QED
      BY <1>6, <2>1
  <2>. QED
    BY <1>8, <2>2, <2>3 DEF ReadStart
<1>9. CASE length # 0
  <2>. DEFINE P == {k \in 0 .. length - 1 : f[k + 1] = first}
  <2>1. 0 \in P
    <3>1. 1 \in 1 .. length /\ 1 - 1 = 0 /\ 0 \in 0 .. length - 1 /\ 0 + 1 = 1
      BY <1>9
    <3>2. f[1] = ReadRound(address, f[0])
      BY <1>7, <3>1
    <3>. QED
      BY <1>7, <3>1, <3>2 DEF first
  <2>2. ASSUME NEW k \in 0 .. length - 2, k \in P PROVE k + 1 \in P
    <3>1. (k + 1) + 1 \in 1 .. length /\ ((k + 1) + 1) - 1 = k + 1 /\ k + 1 \in 0 .. length - 1
      BY <2>2
    <3>2. f[(k + 1) + 1] = ReadRound(address, f[k + 1])
      BY <1>7, <3>1
    <3>3. f[k + 1] = first
      BY <2>2
    <3>. QED
      BY <1>3, <3>1, <3>2, <3>3
  <2>3. 0 .. length - 1 \subseteq P
    <3>1. PICK N \in Nat : N = length - 1
      BY <1>9
    <3>2. \A n \in 0 .. N - 1 : n \in P => n + 1 \in P
      BY <2>2, <3>1
    <3>. HIDE DEF P
    <3>. QED
      BY <2>1, <3>1, <3>2, SetInduction
  <2>4. length - 1 \in 0 .. length - 1 /\ (length - 1) + 1 = length
    BY <1>9
  <2>5. f[length] = first
    BY <2>3, <2>4
  <2>. QED
    BY <1>2, <1>6, <2>5
<1>. QED
  BY <1>8, <1>9

LEMMA Spans ==
  ASSUME helper = "transfer", TransferTyped
  PROVE SpanSound
<1>. DEFINE address == input.address
            length == input.length
            transfers == WriteMemory(address, length)
<1>1. address \in Nat /\ length \in Nat /\ address <= MaxSpan /\ length <= MaxSpan /\ MaxSpan \in Nat
  BY HelpersAssumption DEF TransferTyped
<1>2. PICK N : N = (length + ChunkSize - 1) \div ChunkSize
  OBVIOUS
<1>3. PICK c \in Nat \ {0} : c = ChunkSize
  BY TransferAssumption
<1>4. N \in Nat /\ DOMAIN transfers = 1 .. N
  <2>1. address \in Nat /\ length \in Nat
    BY <1>1
  <2>. HIDE DEF address, length
  <2>. QED
    BY <1>2, <2>1, Transfers
<1>5. \A k \in 1 .. N :
        /\ transfers[k].from = (k - 1) * c /\ transfers[k].from \in Nat /\ transfers[k].from < length
        /\ transfers[k].length = IF length - transfers[k].from > c THEN c ELSE length - transfers[k].from
        /\ transfers[k].to.wValue * HalfWord + transfers[k].to.wIndex = address + transfers[k].from
        /\ transfers[k].to.wIndex < HalfWord
  <2>1. \A k \in 1 .. N :
          /\ transfers[k].from = (k - 1) * ChunkSize /\ transfers[k].from \in Nat
          /\ transfers[k].from < length
          /\ transfers[k].length = IF length - transfers[k].from > ChunkSize THEN ChunkSize
                                   ELSE length - transfers[k].from
          /\ transfers[k].to.wValue * HalfWord + transfers[k].to.wIndex = address + transfers[k].from
          /\ transfers[k].to.wIndex < HalfWord
    <3>. HIDE DEF address, length
    <3>1. \A k \in 1 .. N :
            LET t == WriteMemory(address, length)[k]
            IN  /\ t.from = (k - 1) * ChunkSize /\ t.from \in Nat /\ t.from < length
                /\ t.length = IF length - t.from > ChunkSize THEN ChunkSize ELSE length - t.from
                /\ t.to.wValue * HalfWord + t.to.wIndex = address + t.from
                /\ t.to.wIndex < HalfWord
      BY <1>1, <1>2, Transfers
    <3>. QED
      BY <3>1, Zenon
  <2>. HIDE DEF transfers, address, length
  <2>. QED
    BY <1>3, <2>1
<1>6. \A i \in 0 .. length - 1 : \E k \in 1 .. N : (k - 1) * c <= i /\ i < (k - 1) * c + c
  BY <1>1, <1>2, <1>3, ChunkNumber
<1>. HIDE DEF transfers, address, length
<1>7. ASSUME NEW place \in Nat, NEW p
      PROVE p \in PutAt(transfers, place) <=>
              /\ p \in (1 .. N) \X (0 .. MaxSpan)
              /\ p[2] = place - address
              /\ (p[1] - 1) * c <= p[2] /\ p[2] < (p[1] - 1) * c + c /\ p[2] < length
  <2>. SUFFICES ASSUME p \in (1 .. N) \X (0 .. MaxSpan)
                PROVE p \in PutAt(transfers, place) <=>
                        /\ p[2] = place - address
                        /\ (p[1] - 1) * c <= p[2] /\ p[2] < (p[1] - 1) * c + c /\ p[2] < length
    BY <1>4 DEF PutAt
  <2>1. PICK k \in 1 .. N, i \in 0 .. MaxSpan : k = p[1] /\ i = p[2]
    OBVIOUS
  <2>2. PICK t : t = transfers[k]
    OBVIOUS
  <2>3. p \in PutAt(transfers, place) <=>
          i - t.from \in 0 .. t.length - 1 /\ t.to.wValue * HalfWord + t.to.wIndex + i - t.from = place
    BY <1>4, <2>1, <2>2 DEF PutAt
  <2>4. PICK f \in Nat : f = t.from /\ f = (k - 1) * c /\ f < length
    BY <1>5, <2>2
  <2>5. t.length = IF length - f > c THEN c ELSE length - f
    BY <1>5, <2>2, <2>4
  <2>6. t.to.wValue * HalfWord + t.to.wIndex = address + f
    BY <1>5, <2>2, <2>4
  <2>7. i \in Int /\ i - f \in Int
    BY <2>4
  <2>8. i - f \in 0 .. t.length - 1 <=> f <= i /\ i < f + c /\ i < length
    BY <1>1, <2>1, <2>4, <2>5
  <2>9. t.to.wValue * HalfWord + t.to.wIndex + i - t.from = place <=> i = place - address
    BY <1>1, <2>4, <2>6, <2>7
  <2>. QED
    BY <2>1, <2>3, <2>4, <2>8, <2>9
<1>8. ASSUME NEW i \in 0 .. length - 1
      PROVE \E k \in 1 .. N : PutAt(transfers, address + i) = {<<k, i>>}
  <2>1. PICK k \in 1 .. N : (k - 1) * c <= i /\ i < (k - 1) * c + c
    BY <1>6
  <2>2. address + i \in Nat /\ (address + i) - address = i /\ i \in 0 .. MaxSpan
    BY <1>1
  <2>3. <<k, i>> \in PutAt(transfers, address + i)
    <3>1. <<k, i>> \in (1 .. N) \X (0 .. MaxSpan) /\ <<k, i>>[1] = k /\ <<k, i>>[2] = i
      BY <2>2
    <3>2. i < length
      BY <1>1
    <3>. QED
      BY <1>7, <2>1, <2>2, <3>1, <3>2
  <2>4. ASSUME NEW p \in PutAt(transfers, address + i) PROVE p = <<k, i>>
    <3>1. /\ p \in (1 .. N) \X (0 .. MaxSpan) /\ p[2] = i
          /\ (p[1] - 1) * c <= i /\ i < (p[1] - 1) * c + c
      BY <1>7, <2>2
    <3>2. PICK l \in 1 .. N : l = p[1] /\ (l - 1) * c <= i /\ i < (l - 1) * c + c
      BY <3>1
    <3>3. l = k
      <4>1. k \in Nat \ {0} /\ l \in Nat \ {0} /\ i \in Nat
        BY <1>1, <1>4
      <4>. QED
        BY <2>1, <3>2, <4>1, SameChunk, Zenon
    <3>4. p = <<p[1], p[2]>>
      BY <3>1
    <3>. QED
      BY <3>1, <3>2, <3>3, <3>4, Zenon
  <2>. QED
    BY <2>3, <2>4
<1>9. ASSUME NEW place \in 0 .. 2 * MaxSpan
      PROVE PutAt(transfers, place) = {} <=> place - address \notin 0 .. length - 1
  <2>1. place \in Nat
    BY <1>1
  <2>2. CASE place - address \in 0 .. length - 1
    <3>1. PICK i \in 0 .. length - 1 : i = place - address /\ address + i = place
      BY <1>1, <2>1, <2>2
    <3>2. PICK k \in 1 .. N : PutAt(transfers, place) = {<<k, i>>}
      BY <1>8, <3>1
    <3>. QED
      BY <2>2, <3>2
  <2>3. CASE place - address \notin 0 .. length - 1
    <3>1. ASSUME NEW p \in PutAt(transfers, place) PROVE FALSE
      <4>1. p \in (1 .. N) \X (0 .. MaxSpan) /\ p[2] = place - address /\ p[2] < length
        BY <1>7, <2>1
      <4>2. PICK i \in 0 .. MaxSpan : i = place - address /\ i < length
        BY <4>1
      <4>. QED
        BY <1>1, <2>3, <4>2
    <3>. QED
      BY <2>3, <3>1
  <2>. QED
    BY <2>2, <2>3
<1>10. ASSUME NEW k \in 1 .. N
       PROVE transfers[k].length \in 1 .. ChunkSize /\ transfers[k].to.wIndex < HalfWord
  <2>1. PICK f \in Nat : f = transfers[k].from /\ f < length
    BY <1>5
  <2>2. transfers[k].length = IF length - f > c THEN c ELSE length - f
    BY <1>5, <2>1
  <2>. QED
    BY <1>1, <1>3, <1>5, <2>1, <2>2
<1>11. /\ length < ChunkSize => ~ReadMemory(address, length).raised
       /\ ~ReadMemory(address, length).raised => ReadsAll
  <2>1. /\ length < ChunkSize => ~ReadMemory(address, length).raised
        /\ ~ReadMemory(address, length).raised =>
              ReadMemory(address, length).data = [k \in 1 .. length |-> address + k - 1]
    BY <1>1, ReadMemoryIs
  <2>. QED
    BY <2>1 DEF ReadsAll, address, length
<1>12. ~ChipInfoFails(address, length) /\ address < PageSize =>
          ChipInfoLength(address, length) =
             IF address + length <= PageSize THEN length ELSE PageSize - address
  BY <1>1, TransferAssumption DEF ChipInfoFails, ChipInfoLength
<1>13. address + length < PageSize => ~ChipInfoFails(address, length)
  BY <1>1, TransferAssumption DEF ChipInfoFails
<1>. QED
  BY <1>4, <1>8, <1>9, <1>10, <1>11, <1>12, <1>13
     DEF SpanSound, InPage, transfers, address, length

\* The transfers and the register operations do what they are asked for, for
\* every chunk size, width of the address fields, page, register and bit.
THEOREM TransfersAreSound == Spec => []TransfersSound
<1>1. TransferTyped => TransfersSound
  BY Spans, Registered DEF TransfersSound, TransferTyped
<1>. QED
  BY <1>1, TransferInvariance, PTL

----------------------------------------------------------------------------
(* The checksums (pyamlboot.py, optimus.py, adnl.py).                       *)
Sums(terms) == {f \in [0 .. Len(terms) -> Nat] :
                  f[0] = 0 /\ \A n \in 1 .. Len(terms) : f[n] = f[n - 1] + terms[n]}

LEMMA TotalIs ==
  ASSUME NEW terms \in Seq(Nat)
  PROVE \E f : f \in Sums(terms) /\ Total(terms) = f[Len(terms)]
<1>. DEFINE Is(f) == f = [n \in 0 .. Len(terms) |-> IF n = 0 THEN 0 ELSE f[n - 1] + terms[n]]
<1>1. Len(terms) \in Nat /\ \A n \in 1 .. Len(terms) : terms[n] \in Nat
  OBVIOUS
<1>2. \E f : Is(f)
  <2>1. PICK N, st : N = Len(terms) /\ st = [n \in 1 .. Len(terms) |-> [s \in Nat |-> s + terms[n]]]
    OBVIOUS
  <2>2. st \in [1 .. N -> [Nat -> Nat]] /\ N \in Nat /\ 0 \in Nat
    <3>1. \A n \in 1 .. Len(terms) : \A s \in Nat : s + terms[n] \in Nat
      BY <1>1
    <3>2. \A n \in 1 .. Len(terms) : [s \in Nat |-> s + terms[n]] \in [Nat -> Nat]
      BY <3>1
    <3>. QED
      BY <1>1, <2>1, <3>2
  <2>3. PICK f : f \in Stepwise(N, Nat, 0, st)
    BY <2>2, StepwiseExists
  <2>4. f \in [0 .. N -> Nat] /\ f[0] = 0 /\ \A n \in 1 .. N : f[n] = st[n][f[n - 1]]
    BY <2>3 DEF Stepwise
  <2>5. \A n \in 1 .. N : f[n] = f[n - 1] + terms[n]
    <3>. SUFFICES ASSUME NEW n \in 1 .. N PROVE f[n] = f[n - 1] + terms[n]
      OBVIOUS
    <3>1. n - 1 \in 0 .. N
      BY <2>2
    <3>2. PICK s \in Nat : s = f[n - 1]
      BY <2>4, <3>1
    <3>3. st[n][s] = s + terms[n]
      BY <2>1
    <3>. QED
      BY <2>4, <3>2, <3>3
  <2>6. \A n \in 0 .. N : f[n] = (IF n = 0 THEN 0 ELSE f[n - 1] + terms[n])
    <3>1. \A n \in 0 .. N : n = 0 \/ n \in 1 .. N
      BY <2>2
    <3>. QED
      BY <2>4, <2>5, <3>1
  <2>7. f = [n \in 0 .. Len(terms) |-> IF n = 0 THEN 0 ELSE f[n - 1] + terms[n]]
    BY <2>1, <2>4, <2>6
  <2>. QED
    BY <2>7
<1>3. PICK f : Is(f) /\ Total(terms) = f[Len(terms)]
  BY <1>2, Zenon DEF Total
<1>4. f[0] = 0 /\ \A n \in 1 .. Len(terms) : f[n] = f[n - 1] + terms[n]
  <2>1. 0 \in 0 .. Len(terms) /\ \A n \in 1 .. Len(terms) : n \in 0 .. Len(terms) /\ n # 0
    BY <1>1
  <2>. QED
    BY <1>3, <2>1
<1>5. DOMAIN f = 0 .. Len(terms) /\ f = [n \in 0 .. Len(terms) |-> f[n]]
  <2>1. DOMAIN f = 0 .. Len(terms)
    BY <1>3
  <2>2. f = [n \in DOMAIN f |-> f[n]]
    BY <1>3
  <2>. QED
    BY <2>1, <2>2
<1>. HIDE DEF Is
<1>. DEFINE P == {n \in 0 .. Len(terms) : f[n] \in Nat}
<1>6. 0 \in P
  BY <1>1, <1>4
<1>7. ASSUME NEW n \in 0 .. Len(terms) - 1, n \in P PROVE n + 1 \in P
  <2>1. n + 1 \in 1 .. Len(terms) /\ (n + 1) - 1 = n /\ n + 1 \in 0 .. Len(terms)
    BY <1>1
  <2>2. f[n + 1] = f[n] + terms[n + 1] /\ terms[n + 1] \in Nat
    BY <1>1, <1>4, <2>1
  <2>. QED
    BY <1>7, <2>1, <2>2
<1>. HIDE DEF P
<1>8. 0 .. Len(terms) \subseteq P
  BY <1>1, <1>6, <1>7, SetInduction
<1>9. f \in [0 .. Len(terms) -> Nat]
  BY <1>5, <1>8 DEF P
<1>. QED
  BY <1>3, <1>4, <1>9 DEF Sums

\* A run of terms adds up to the difference of the sums at its ends.
LEMMA RunOfTerms ==
  ASSUME NEW a \in Seq(Nat), NEW b \in Seq(Nat), NEW f \in Sums(a), NEW g \in Sums(b), NEW s \in Nat,
         s + Len(b) <= Len(a), \A j \in 1 .. Len(b) : b[j] = a[s + j]
  PROVE f[s + Len(b)] = f[s] + g[Len(b)]
<1>1. Len(a) \in Nat /\ Len(b) \in Nat
  OBVIOUS
<1>2. /\ f \in [0 .. Len(a) -> Nat] /\ \A n \in 1 .. Len(a) : f[n] = f[n - 1] + a[n]
      /\ g \in [0 .. Len(b) -> Nat] /\ g[0] = 0 /\ \A n \in 1 .. Len(b) : g[n] = g[n - 1] + b[n]
  BY DEF Sums
<1>3. \A n \in 1 .. Len(a) : a[n] \in Nat
  OBVIOUS
<1>. DEFINE P == {j \in 0 .. Len(b) : f[s + j] = f[s] + g[j]}
<1>4. 0 \in P
  <2>1. s \in 0 .. Len(a) /\ s + 0 = s /\ 0 \in 0 .. Len(b)
    BY <1>1
  <2>2. f[s] \in Nat /\ g[0] = 0
    BY <1>2, <2>1
  <2>3. f[s + 0] = f[s] + g[0]
    BY <2>1, <2>2
  <2>. QED
    BY <2>1, <2>3
<1>5. ASSUME NEW j \in 0 .. Len(b) - 1, j \in P PROVE j + 1 \in P
  <2>1. /\ j + 1 \in 1 .. Len(b) /\ (j + 1) - 1 = j /\ j + 1 \in 0 .. Len(b) /\ j \in 0 .. Len(b)
        /\ s + (j + 1) \in 1 .. Len(a) /\ (s + (j + 1)) - 1 = s + j /\ s + j \in 0 .. Len(a)
        /\ s \in 0 .. Len(a)
    BY <1>1
  <2>2. f[s + (j + 1)] = f[s + j] + a[s + (j + 1)]
    BY <1>2, <2>1
  <2>3. g[j + 1] = g[j] + b[j + 1] /\ b[j + 1] = a[s + (j + 1)]
    BY <1>2, <2>1
  <2>4. PICK x \in Nat, y \in Nat, z \in Nat : x = f[s] /\ y = g[j] /\ z = a[s + (j + 1)]
    BY <1>2, <1>3, <2>1
  <2>5. f[s + j] = x + y
    BY <1>5, <2>4
  <2>6. f[s + (j + 1)] = (x + y) + z /\ g[j + 1] = y + z
    BY <2>2, <2>3, <2>4, <2>5
  <2>7. f[s + (j + 1)] = f[s] + g[j + 1]
    <3>1. (x + y) + z = x + (y + z)
      OBVIOUS
    <3>. QED
      BY <2>4, <2>6, <3>1, Zenon
  <2>. QED
    BY <2>1, <2>7
<1>. HIDE DEF P
<1>6. 0 .. Len(b) \subseteq P
  BY <1>1, <1>4, <1>5, SetInduction
<1>7. Len(b) \in P
  <2>1. Len(b) \in 0 .. Len(b)
    BY <1>1
  <2>. QED
    BY <1>6, <2>1
<1>. QED
  BY <1>7 DEF P

\* Adding before or after the remainder is taken is the same.
LEMMA RemainderOfSum ==
  ASSUME NEW m \in Nat \ {0}, NEW x \in Nat, NEW w \in Nat
  PROVE ((x % m) + w) % m = (x + w) % m
<1>1. PICK q \in Nat, r \in 0 .. m - 1 : x = m * q + r /\ r = x % m
  <2>1. x = m * (x \div m) + (x % m) /\ x \div m \in Nat /\ x % m \in 0 .. m - 1
    OBVIOUS
  <2>. QED
    BY <2>1
<1>2. PICK s \in Nat : s = r + w
  OBVIOUS
<1>3. PICK p \in Nat, t \in 0 .. m - 1 : s = m * p + t /\ t = s % m
  <2>1. s = m * (s \div m) + (s % m) /\ s \div m \in Nat /\ s % m \in 0 .. m - 1
    OBVIOUS
  <2>. QED
    BY <2>1
<1>4. PICK u \in Nat, o \in Nat : u = x + w /\ o = q + p
  OBVIOUS
<1>5. u = m * o + t
  <2>1. m * o = m * q + m * p
    BY <1>4
  <2>2. PICK y \in Nat, z \in Nat : y = m * q /\ z = m * p
    OBVIOUS
  <2>. QED
    <3>1. x = y + r /\ s = z + t /\ m * o = y + z
      BY <1>1, <1>3, <2>1, <2>2
    <3>2. PICK v : v = m * o /\ v = y + z
      BY <3>1
    <3>3. u = v + t
      BY <1>2, <1>4, <3>1, <3>2
    <3>. QED
      BY <3>2, <3>3
<1>6. u % m = t
  <2>1. u = m * (u \div m) + (u % m) /\ u \div m \in Nat /\ u % m \in 0 .. m - 1
    OBVIOUS
  <2>2. u \div m = o
    BY <1>5
  <2>. QED
    BY <1>5, <2>1, <2>2
<1>. QED
  BY <1>1, <1>2, <1>3, <1>4, <1>6

LEMMA ModulusIs ==
  /\ Modulus \in Nat \ {0}
  /\ \A k \in 1 .. 4 : Unit[k] \in Nat
<1>1. Base \in Nat /\ Base > 0
  BY BaseAssumption
<1>2. \A x, y \in Nat : x > 0 /\ y > 0 => x * y \in Nat /\ x * y > 0
  OBVIOUS
<1>3. PICK b \in Nat : b = Base * Base /\ b > 0
  BY <1>1, <1>2
<1>4. PICK c \in Nat : c = b * Base /\ c > 0
  BY <1>1, <1>2, <1>3
<1>5. PICK d \in Nat : d = c * Base /\ d > 0
  BY <1>1, <1>2, <1>4
<1>6. Modulus = d
  BY <1>3, <1>4, <1>5, Zenon DEF Modulus
<1>7. Unit = <<1, Base, b, c>>
  BY <1>3, <1>4, Zenon DEF Unit
<1>8. Unit[1] \in Nat /\ Unit[2] \in Nat /\ Unit[3] \in Nat /\ Unit[4] \in Nat
  BY <1>1, <1>7
<1>. QED
  BY <1>5, <1>6, <1>8

\* The sum of words that is taken modulo Modulus at every step.
LEMMA SummedIs ==
  ASSUME NEW words \in Seq(Int)
  PROVE /\ (\A n \in 1 .. Len(words) : words[n] \in Nat) => Summed(words) = Total(words) % Modulus
        /\ Len(words) > 0 /\ words[Len(words)] = Error => Summed(words) = Error
<1>. DEFINE Step(x, w) == IF x = Error \/ w = Error THEN Error ELSE (x + w) % Modulus
            Is(f) == f = [n \in 0 .. Len(words) |-> IF n = 0 THEN 0 ELSE Step(f[n - 1], words[n])]
<1>1. Len(words) \in Nat /\ \A n \in 1 .. Len(words) : words[n] \in Int
  OBVIOUS
<1>2. \A x, w \in Int : Step(x, w) \in Int
  <2>1. \A u \in Int : u % Modulus \in Int
    BY ModulusIs
  <2>. QED
    BY <2>1 DEF Error
<1>. HIDE DEF Step
<1>3. \E f : Is(f)
  <2>1. PICK N, st : N = Len(words) /\ st = [n \in 1 .. Len(words) |-> [s \in Int |-> Step(s, words[n])]]
    OBVIOUS
  <2>2. st \in [1 .. N -> [Int -> Int]] /\ N \in Nat /\ 0 \in Int
    <3>1. \A n \in 1 .. Len(words) : \A s \in Int : Step(s, words[n]) \in Int
      BY <1>1, <1>2
    <3>2. \A n \in 1 .. Len(words) : [s \in Int |-> Step(s, words[n])] \in [Int -> Int]
      BY <3>1
    <3>. QED
      BY <1>1, <2>1, <3>2
  <2>3. PICK f : f \in Stepwise(N, Int, 0, st)
    BY <2>2, StepwiseExists
  <2>4. f \in [0 .. N -> Int] /\ f[0] = 0 /\ \A n \in 1 .. N : f[n] = st[n][f[n - 1]]
    BY <2>3 DEF Stepwise
  <2>5. \A n \in 1 .. N : f[n] = Step(f[n - 1], words[n])
    <3>. SUFFICES ASSUME NEW n \in 1 .. N PROVE f[n] = Step(f[n - 1], words[n])
      OBVIOUS
    <3>1. n - 1 \in 0 .. N
      BY <2>2
    <3>2. PICK s \in Int : s = f[n - 1]
      BY <2>4, <3>1
    <3>3. st[n][s] = Step(s, words[n])
      BY <2>1
    <3>. QED
      BY <2>4, <3>2, <3>3
  <2>6. \A n \in 0 .. N : f[n] = (IF n = 0 THEN 0 ELSE Step(f[n - 1], words[n]))
    <3>1. \A n \in 0 .. N : n = 0 \/ n \in 1 .. N
      BY <2>2
    <3>. QED
      BY <2>4, <2>5, <3>1
  <2>7. f = [n \in 0 .. Len(words) |-> IF n = 0 THEN 0 ELSE Step(f[n - 1], words[n])]
    BY <2>1, <2>4, <2>6
  <2>. QED
    BY <2>7
<1>4. PICK f : Is(f) /\ Summed(words) = f[Len(words)]
  BY <1>3, Zenon DEF Summed, Step
<1>5. f[0] = 0 /\ \A n \in 1 .. Len(words) : f[n] = Step(f[n - 1], words[n])
  <2>1. 0 \in 0 .. Len(words) /\ \A n \in 1 .. Len(words) : n \in 0 .. Len(words) /\ n # 0
    BY <1>1
  <2>. QED
    BY <1>4, <2>1
<1>. HIDE DEF Is
<1>6. ASSUME \A n \in 1 .. Len(words) : words[n] \in Nat
      PROVE Summed(words) = Total(words) % Modulus
  <2>1. words \in Seq(Nat)
    BY <1>6
  <2>2. PICK g : g \in Sums(words) /\ Total(words) = g[Len(words)]
    BY <2>1, TotalIs
  <2>3. g \in [0 .. Len(words) -> Nat] /\ g[0] = 0 /\ \A n \in 1 .. Len(words) : g[n] = g[n - 1] + words[n]
    BY <2>2 DEF Sums
  <2>. DEFINE P == {n \in 0 .. Len(words) : f[n] = g[n] % Modulus}
  <2>4. 0 \in P
    <3>1. 0 % Modulus = 0
      BY ModulusIs
    <3>. QED
      BY <1>1, <1>5, <2>3, <3>1
  <2>5. ASSUME NEW n \in 0 .. Len(words) - 1, n \in P PROVE n + 1 \in P
    <3>1. n + 1 \in 1 .. Len(words) /\ (n + 1) - 1 = n /\ n + 1 \in 0 .. Len(words) /\ n \in 0 .. Len(words)
      BY <1>1
    <3>2. f[n + 1] = Step(f[n], words[n + 1])
      BY <1>5, <3>1
    <3>3. PICK x \in Nat, w \in Nat : x = g[n] /\ w = words[n + 1]
      BY <1>6, <2>3, <3>1
    <3>4. g[n + 1] = x + w
      BY <2>3, <3>1, <3>3
    <3>5. f[n] = x % Modulus /\ x % Modulus \in Nat
      BY <2>5, <3>3, ModulusIs
    <3>6. f[n + 1] = ((x % Modulus) + w) % Modulus
      BY <3>2, <3>3, <3>5 DEF Step, Error
    <3>7. f[n + 1] = g[n + 1] % Modulus
      <4>1. ((x % Modulus) + w) % Modulus = (x + w) % Modulus
        BY ModulusIs, RemainderOfSum, Zenon
      <4>. QED
        BY <3>4, <3>6, <4>1, Zenon
    <3>. QED
      BY <3>1, <3>7
  <2>. HIDE DEF P
  <2>6. 0 .. Len(words) \subseteq P
    BY <1>1, <2>4, <2>5, SetInduction
  <2>7. Len(words) \in 0 .. Len(words)
    BY <1>1
  <2>. QED
    BY <1>4, <2>2, <2>6, <2>7 DEF P
<1>7. ASSUME Len(words) > 0, words[Len(words)] = Error
      PROVE Summed(words) = Error
  <2>1. Len(words) \in 1 .. Len(words)
    BY <1>1, <1>7
  <2>2. f[Len(words)] = Step(f[Len(words) - 1], words[Len(words)])
    BY <1>5, <2>1
  <2>. QED
    BY <1>4, <1>7, <2>2 DEF Step
<1>. QED
  BY <1>6, <1>7

\* The pieces of the data, as runs of it.
PiecesOf(B, data, N) ==
    /\ N \in Nat /\ DOMAIN Pieces(data) = 1 .. N
    /\ N = 0 => Len(data) = 0
    /\ \A k \in 1 .. N :
         /\ Pieces(data)[k] \in Seq(B)
         /\ Len(Pieces(data)[k]) = IF 4 * k > Len(data) THEN Len(data) - 4 * (k - 1) ELSE 4
         /\ Len(Pieces(data)[k]) \in 1 .. 4
         /\ \A j \in 1 .. Len(Pieces(data)[k]) : Pieces(data)[k][j] = data[4 * (k - 1) + j]
         /\ k < N => 4 * k <= Len(data)
         /\ k = N => 4 * k >= Len(data)

LEMMA PiecesAre ==
  ASSUME NEW B, NEW data \in Seq(B), NEW N, N = (Len(data) + 3) \div 4
  PROVE PiecesOf(B, data, N)
<1>1. PICK L \in Nat : L = Len(data) /\ N = (L + 3) \div 4
  OBVIOUS
<1>2. N \in Nat /\ 4 * N <= L + 3 /\ L + 3 < 4 * N + 4
  BY <1>1
<1>3. DOMAIN Pieces(data) = 1 .. N
  BY DEF Pieces
<1>4. ASSUME NEW k \in 1 .. N
      PROVE /\ Pieces(data)[k] \in Seq(B)
            /\ Len(Pieces(data)[k]) = IF 4 * k > Len(data) THEN Len(data) - 4 * (k - 1) ELSE 4
            /\ Len(Pieces(data)[k]) \in 1 .. 4
            /\ \A j \in 1 .. Len(Pieces(data)[k]) : Pieces(data)[k][j] = data[4 * (k - 1) + j]
            /\ k < N => 4 * k <= Len(data)
            /\ k = N => 4 * k >= Len(data)
  <2>9. k \in Nat /\ 4 * k \in Nat /\ 4 * (k - 1) = 4 * k - 4
    BY <1>2
  <2>1. PICK e \in Nat : e = IF 4 * k > L THEN L ELSE 4 * k
    BY <2>9
  <2>2. PICK s \in Nat : s = 4 * k - 3
    BY <1>2
  <2>3. s \in 1 .. Len(data) /\ e \in s .. Len(data) /\ e - s + 1 \in 1 .. 4
    BY <1>1, <1>2, <2>1, <2>2
  <2>4. Pieces(data)[k] = SubSeq(data, s, e)
    BY <1>1, <2>1, <2>2 DEF Pieces
  <2>5. /\ SubSeq(data, s, e) \in Seq(B) /\ Len(SubSeq(data, s, e)) = e - s + 1
        /\ \A j \in 1 .. e - s + 1 : SubSeq(data, s, e)[j] = data[s + j - 1]
    BY <2>3, SubSeqProperties
  <2>6. \A j \in 1 .. e - s + 1 : s + j - 1 = 4 * (k - 1) + j
    BY <1>2, <2>2
  <2>7. e - s + 1 = IF 4 * k > Len(data) THEN Len(data) - 4 * (k - 1) ELSE 4
    <3>1. PICK q \in Nat : q = 4 * k /\ 4 * (k - 1) = q - 4
      BY <2>9
    <3>2. e - s + 1 = IF q > L THEN L - (q - 4) ELSE 4
      <4>1. CASE q > L
        BY <2>1, <2>2, <3>1, <4>1
      <4>2. CASE ~ (q > L)
        BY <2>1, <2>2, <3>1, <4>2
      <4>. QED
        BY <4>1, <4>2
    <3>. QED
      BY <1>1, <3>1, <3>2
  <2>8. /\ k < N => 4 * k <= Len(data)
        /\ k = N => 4 * k >= Len(data)
    BY <1>1, <1>2
  <2>. QED
    BY <2>3, <2>4, <2>5, <2>6, <2>7, <2>8
<1>. QED
  BY <1>1, <1>2, <1>3, <1>4 DEF PiecesOf

\* The words of the pieces add up to the weighted bytes.
LEMMA WordsAddUp ==
  ASSUME NEW data \in Seq(0 .. Base - 1)
  PROVE LET words == [k \in DOMAIN Pieces(data) |-> Little(Pieces(data)[k])]
        IN  /\ words \in Seq(Nat)
            /\ Total(words) = Total([k \in DOMAIN data |-> data[k] * Weight(k)])
<1>. DEFINE words == [k \in DOMAIN Pieces(data) |-> Little(Pieces(data)[k])]
            terms == [k \in DOMAIN data |-> data[k] * Weight(k)]
<1>1. PICK L \in Nat, N \in Nat : L = Len(data) /\ N = (L + 3) \div 4 /\ L <= 4 * N
  <2>1. PICK L \in Nat : L = Len(data)
    OBVIOUS
  <2>2. (L + 3) \div 4 \in Nat /\ L <= 4 * ((L + 3) \div 4)
    OBVIOUS
  <2>. QED
    BY <2>1, <2>2
<1>2. 0 .. Base - 1 \subseteq Nat
  BY BaseAssumption
<1>3. terms \in Seq(Nat) /\ Len(terms) = L /\ \A n \in 1 .. L : terms[n] = data[n] * Weight(n)
  <2>1. DOMAIN data = 1 .. L
    BY <1>1
  <2>2. ASSUME NEW n \in 1 .. L PROVE data[n] * Weight(n) \in Nat
    <3>1. data[n] \in Nat
      BY <1>1, <1>2, ElementOfSeq
    <3>2. ((n - 1) % 4) + 1 \in 1 .. 4
      OBVIOUS
    <3>3. PICK x \in Nat, y \in Nat : x = data[n] /\ y = Weight(n)
      BY <3>1, <3>2, ModulusIs DEF Weight
    <3>4. x * y \in Nat
      OBVIOUS
    <3>. QED
      BY <3>3, <3>4
  <2>3. terms \in [1 .. L -> Nat]
    BY <2>1, <2>2
  <2>4. terms \in Seq(Nat) /\ Len(terms) = L
    <3>. HIDE DEF terms
    <3>. QED
      BY <2>3
  <2>. QED
    BY <2>1, <2>4
<1>4. PICK f : f \in Sums(terms) /\ Total(terms) = f[L]
  <2>. HIDE DEF terms
  <2>. QED
    BY <1>3, TotalIs
<1>. HIDE DEF terms
<1>5. ASSUME NEW k \in 1 .. N
      PROVE LET m == Len(Pieces(data)[k])
            IN  /\ Little(Pieces(data)[k]) \in Nat
                /\ f[4 * (k - 1) + m] = f[4 * (k - 1)] + Little(Pieces(data)[k])
                /\ 4 * (k - 1) + m = IF 4 * k > L THEN L ELSE 4 * k
                /\ 4 * (k - 1) <= L
  <2>1. PICK p, m :
           /\ m \in 1 .. 4
           /\ p = Pieces(data)[k] /\ p \in Seq(0 .. Base - 1) /\ m = Len(p)
           /\ m = IF 4 * k > L THEN L - 4 * (k - 1) ELSE 4
           /\ \A j \in 1 .. m : p[j] = data[4 * (k - 1) + j]
    <3>1. PICK p, m : p = Pieces(data)[k] /\ m = Len(Pieces(data)[k])
      OBVIOUS
    <3>2. /\ p \in Seq(0 .. Base - 1) /\ m = Len(p) /\ m \in 1 .. 4
          /\ m = IF 4 * k > Len(data) THEN Len(data) - 4 * (k - 1) ELSE 4
          /\ \A j \in 1 .. m : p[j] = data[4 * (k - 1) + j]
      <4>1. PICK B, n : B = 0 .. Base - 1 /\ n = (Len(data) + 3) \div 4
        OBVIOUS
      <4>2. data \in Seq(B) /\ k \in 1 .. n
        BY <1>1, <4>1
      <4>3. /\ Pieces(data)[k] \in Seq(B)
            /\ Len(Pieces(data)[k]) = IF 4 * k > Len(data) THEN Len(data) - 4 * (k - 1) ELSE 4
            /\ Len(Pieces(data)[k]) \in 1 .. 4
            /\ \A j \in 1 .. Len(Pieces(data)[k]) : Pieces(data)[k][j] = data[4 * (k - 1) + j]
        <5>1. PiecesOf(B, data, n)
          BY <4>1, <4>2, PiecesAre
        <5>. QED
          BY <4>2, <5>1 DEF PiecesOf
      <4>. QED
        BY <3>1, <4>1, <4>3, Zenon
    <3>3. m = IF 4 * k > L THEN L - 4 * (k - 1) ELSE 4
      BY <1>1, <3>2, Zenon
    <3>. QED
      BY <3>1, <3>2, <3>3, Zenon
  <2>2. PICK s \in Nat : s = 4 * (k - 1) /\ s = 4 * k - 4
    OBVIOUS
  <2>3. s + m = (IF 4 * k > L THEN L ELSE 4 * k) /\ s + m <= L /\ s <= L
    <3>1. PICK q \in Nat : q = 4 * k /\ s = q - 4
      BY <2>2
    <3>2. q - 4 < L
      <4>1. L + 3 >= 4 * N /\ 4 * N >= q
        BY <1>1, <3>1
      <4>. QED
        BY <3>1, <4>1
    <3>3. m = IF q > L THEN L - (q - 4) ELSE 4
      BY <2>1, <2>2, <3>1
    <3>4. CASE q > L
      BY <3>1, <3>2, <3>3, <3>4
    <3>5. CASE ~ (q > L)
      BY <3>1, <3>2, <3>3, <3>5
    <3>. QED
      BY <3>4, <3>5
  <2>4. PICK b : b = [j \in 1 .. m |-> p[j] * Unit[j]]
    OBVIOUS
  <2>5. Little(p) = Total(b)
    BY <2>1, <2>4, Zenon DEF Little
  <2>6. \A j \in 1 .. m : p[j] \in Nat /\ Unit[j] \in Nat
    <3>1. \A j \in 1 .. m : p[j] \in 0 .. Base - 1
      BY <2>1, ElementOfSeq
    <3>. QED
      <4>1. \A j \in 1 .. m : j \in 1 .. 4
        BY <2>1
      <4>2. \A j \in 1 .. m : Unit[j] \in Nat
        BY <4>1, ModulusIs
      <4>3. \A j \in 1 .. m : p[j] \in Nat
        BY <1>2, <3>1
      <4>. QED
        BY <4>2, <4>3
  <2>7. \A j \in 1 .. m : p[j] * Unit[j] \in Nat
    <3>1. \A x, y \in Nat : x * y \in Nat
      OBVIOUS
    <3>. QED
      BY <2>6, <3>1
  <2>8. b \in [1 .. m -> Nat]
    BY <2>4, <2>7
  <2>9. b \in Seq(Nat) /\ Len(b) = m
    <3>1. m \in Nat
      BY <2>1
    <3>. QED
      BY <2>8, <3>1
  <2>10. PICK g : g \in Sums(b) /\ Total(b) = g[m]
    BY <2>9, TotalIs
  <2>11. g[m] \in Nat
    BY <2>9, <2>10 DEF Sums
  <2>12. ASSUME NEW j \in 1 .. m PROVE b[j] = terms[s + j]
    <3>1. s + j \in 1 .. L /\ ((s + j - 1) % 4) + 1 = j
      BY <2>1, <2>2, <2>3
    <3>2. terms[s + j] = data[s + j] * Unit[j]
      BY <1>3, <3>1 DEF Weight
    <3>. QED
      BY <2>1, <2>2, <2>4, <3>2
  <2>13. f[s + m] = f[s] + g[m]
    BY <1>3, <1>4, <2>3, <2>9, <2>10, <2>12, RunOfTerms
  <2>. QED
    BY <2>1, <2>2, <2>3, <2>5, <2>10, <2>11, <2>13
<1>6. words \in Seq(Nat) /\ Len(words) = N /\ \A k \in 1 .. N : words[k] = Little(Pieces(data)[k])
  <2>1. DOMAIN Pieces(data) = 1 .. N
    <3>1. PiecesOf(0 .. Base - 1, data, N)
      BY <1>1, PiecesAre
    <3>. QED
      BY <3>1 DEF PiecesOf
  <2>2. words \in [1 .. N -> Nat] /\ \A k \in 1 .. N : words[k] = Little(Pieces(data)[k])
    BY <1>5, <2>1
  <2>. HIDE DEF words
  <2>. QED
    BY <2>2
<1>. HIDE DEF words
<1>7. PICK t : t \in Sums(words) /\ Total(words) = t[N]
  BY <1>6, TotalIs
<1>8. t \in [0 .. N -> Nat] /\ t[0] = 0 /\ \A k \in 1 .. N : t[k] = t[k - 1] + words[k]
  BY <1>6, <1>7 DEF Sums
<1>9. f \in [0 .. L -> Nat] /\ f[0] = 0
  BY <1>3, <1>4 DEF Sums
<1>. DEFINE Upto(k) == IF 4 * k > L THEN L ELSE 4 * k
            P == {k \in 0 .. N : t[k] = f[Upto(k)]}
<1>10. 0 \in P
  <2>1. Upto(0) = 0
    OBVIOUS
  <2>. QED
    BY <1>8, <1>9, <2>1
<1>11. ASSUME NEW k \in 0 .. N - 1, k \in P PROVE k + 1 \in P
  <2>1. k + 1 \in 1 .. N /\ (k + 1) - 1 = k /\ k + 1 \in 0 .. N
    OBVIOUS
  <2>2. t[k + 1] = t[k] + Little(Pieces(data)[k + 1])
    BY <1>6, <1>8, <2>1
  <2>3. PICK m : m = Len(Pieces(data)[k + 1])
    OBVIOUS
  <2>4. /\ f[4 * k + m] = f[4 * k] + Little(Pieces(data)[k + 1])
        /\ 4 * k + m = IF 4 * (k + 1) > L THEN L ELSE 4 * (k + 1)
        /\ 4 * k <= L
    BY <1>5, <2>1, <2>3
  <2>5. Upto(k) = 4 * k /\ Upto(k + 1) = 4 * k + m
    BY <2>4
  <2>. HIDE DEF Upto
  <2>6. t[k + 1] = f[Upto(k + 1)]
    BY <1>11, <2>2, <2>4, <2>5
  <2>. QED
    BY <2>1, <2>6
<1>. HIDE DEF P
<1>12. 0 .. N \subseteq P
  BY <1>10, <1>11, SetInduction
<1>13. t[N] = f[Upto(N)]
  <2>1. N \in 0 .. N
    OBVIOUS
  <2>. QED
    BY <1>12, <2>1 DEF P
<1>14. Upto(N) = L
  BY <1>1
<1>. QED
  BY <1>4, <1>6, <1>7, <1>13, <1>14 DEF words, terms

\* The bytes of the data, whatever is appended.
BytesTyped == helper = "checksum" => input \in Seq(0 .. Base - 1)

\* A buffer that grows byte by byte is a sequence of bytes, as the checksums of
\* pyamlboot.py, optimus.py and adnl.py are given.
THEOREM BytesInvariance == Spec => []BytesTyped
<1>1. Init => BytesTyped
  <2>1. <<>> \in Seq(0 .. Base - 1)
    OBVIOUS
  <2>. QED
    BY <2>1 DEF Init, BytesTyped
<1>2. BytesTyped /\ [Next]_<<helper, input>> => BytesTyped'
  <2>. SUFFICES ASSUME BytesTyped, [Next]_<<helper, input>>, helper' = "checksum"
                PROVE input' \in Seq(0 .. Base - 1)
    BY DEF BytesTyped
  <2>1. CASE UNCHANGED <<helper, input>>
    BY <2>1 DEF BytesTyped
  <2>2. CASE AppendByte
    <3>1. PICK x \in 0 .. Base - 1 : helper = "checksum" /\ input' = Append(input, x)
      BY <2>2 DEF AppendByte, Extend
    <3>. QED
      BY <3>1, AppendProperties DEF BytesTyped
  <2>3. ~ (AppendLine \/ AppendChar \/ Further("address") \/ Further("length") \/ Operate)
    BY DEF AppendLine, AppendChar, Extend, Further, Operate
  <2>. QED
    BY <2>1, <2>2, <2>3 DEF Next
<1>. QED
  BY <1>1, <1>2, PTL DEF Spec

\* A checksum whose words are those of the pieces, but for lengths of a last
\* piece that are an error.
LEMMA SummedPieces ==
  ASSUME NEW data \in Seq(0 .. Base - 1), NEW bad \in SUBSET (1 .. 3)
  PROVE LET words == [k \in DOMAIN Pieces(data) |->
                         IF Len(Pieces(data)[k]) \in bad THEN Error ELSE Little(Pieces(data)[k])]
        IN  Summed(words) = IF Len(data) % 4 \in bad THEN Error ELSE ByteSum(data)
<1>. DEFINE words == [k \in DOMAIN Pieces(data) |->
                         IF Len(Pieces(data)[k]) \in bad THEN Error ELSE Little(Pieces(data)[k])]
            plain == [k \in DOMAIN Pieces(data) |-> Little(Pieces(data)[k])]
<1>1. PICK L \in Nat : L = Len(data)
  OBVIOUS
<1>2. PICK N \in Nat : N = (L + 3) \div 4 /\ N = (Len(data) + 3) \div 4
  BY <1>1
<1>3. PiecesOf(0 .. Base - 1, data, N)
  BY <1>2, PiecesAre
<1>4. DOMAIN Pieces(data) = 1 .. N /\ N \in Nat
  BY <1>3 DEF PiecesOf
<1>5. /\ plain \in Seq(Nat)
      /\ Total(plain) = Total([k \in DOMAIN data |-> data[k] * Weight(k)])
  BY WordsAddUp
<1>6. \A k \in 1 .. N : Little(Pieces(data)[k]) \in Nat
  <2>1. \A k \in 1 .. N : plain[k] = Little(Pieces(data)[k])
    BY <1>4
  <2>2. Len(plain) = N
    BY <1>4
  <2>. HIDE DEF plain
  <2>. QED
    BY <1>5, <2>1, <2>2, ElementOfSeq
<1>7. words \in Seq(Int) /\ Len(words) = N
  <2>1. words \in [1 .. N -> Int]
    BY <1>4, <1>6 DEF Error
  <2>. HIDE DEF words
  <2>. QED
    BY <1>4, <2>1
<1>8. \A k \in 1 .. N : words[k] = IF Len(Pieces(data)[k]) \in bad THEN Error ELSE Little(Pieces(data)[k])
  BY <1>4
<1>9. \A k \in 1 .. N - 1 : Len(Pieces(data)[k]) = 4
  BY <1>1, <1>3 DEF PiecesOf
<1>10. N > 0 => Len(Pieces(data)[N]) = IF L % 4 = 0 THEN 4 ELSE L % 4
  <2>. SUFFICES ASSUME N > 0 PROVE Len(Pieces(data)[N]) = IF L % 4 = 0 THEN 4 ELSE L % 4
    OBVIOUS
  <2>1. N \in 1 .. N
    OBVIOUS
  <2>2. Len(Pieces(data)[N]) = IF 4 * N > L THEN L - 4 * (N - 1) ELSE 4
    BY <1>1, <1>3, <2>1 DEF PiecesOf
  <2>. QED
    BY <1>2, <2>2
<1>11. N = 0 => L % 4 = 0
  BY <1>2
<1>. HIDE DEF words
<1>12. CASE L % 4 \in bad
  <2>1. L % 4 # 0 /\ N > 0
    BY <1>11, <1>12
  <2>2. Len(words) > 0 /\ words[Len(words)] = Error
    BY <1>7, <1>8, <1>10, <1>12, <2>1
  <2>. QED
    BY <1>1, <1>7, <1>12, <2>2, SummedIs DEF words
<1>13. CASE L % 4 \notin bad
  <2>1. \A k \in 1 .. N : Len(Pieces(data)[k]) \notin bad
    <3>1. 4 \notin bad
      OBVIOUS
    <3>2. \A k \in 1 .. N : k = N \/ k \in 1 .. N - 1
      OBVIOUS
    <3>. QED
      <4>1. N > 0 => Len(Pieces(data)[N]) \notin bad
        BY <1>10, <1>13, <3>1
      <4>2. \A k \in 1 .. N - 1 : Len(Pieces(data)[k]) \notin bad
        BY <1>9, <3>1
      <4>3. \A k \in 1 .. N : N > 0
        OBVIOUS
      <4>. QED
        BY <3>2, <4>1, <4>2, <4>3
  <2>2. words = plain
    BY <1>4, <2>1 DEF words
  <2>3. \A k \in 1 .. Len(words) : words[k] \in Nat
    BY <1>6, <1>7, <1>8, <2>1
  <2>4. Summed(words) = Total(words) % Modulus
    BY <1>7, <2>3, SummedIs
  <2>. HIDE DEF plain
  <2>5. Summed(words) = ByteSum(data)
    BY <1>5, <2>2, <2>4 DEF ByteSum
  <2>. QED
    BY <1>1, <1>13, <2>5 DEF words
<1>. QED
  BY <1>12, <1>13

\* For buffers of every length adnl_checksum is the sum of the bytes by weight,
\* and so are _amlsChecksum and _chksum at every length at which they return.
THEOREM ChecksumsAreOne == Spec => []ChecksumsAgree
<1>1. BytesTyped => ChecksumsAgree
  <2>. SUFFICES ASSUME BytesTyped, helper = "checksum" PROVE ChecksumsAgree
    BY DEF ChecksumsAgree
  <2>1. input \in Seq(0 .. Base - 1)
    BY DEF BytesTyped
  <2>2. AdnlChecksum(input) = ByteSum(input)
    BY <2>1, WordsAddUp DEF AdnlChecksum, ByteSum
  <2>3. AmlsChecksum(input) = IF Len(input) % 4 \in {1} THEN Error ELSE ByteSum(input)
    <3>1. AmlsChecksum(input)
            = Summed([k \in DOMAIN Pieces(input) |->
                        IF Len(Pieces(input)[k]) \in {1} THEN Error ELSE Little(Pieces(input)[k])])
      BY DEF AmlsChecksum, AmlsWord
    <3>2. {1} \in SUBSET (1 .. 3)
      OBVIOUS
    <3>. QED
      BY <2>1, <3>1, <3>2, SummedPieces
  <2>4. UbootChecksum(input) = IF Len(input) % 4 \in {1, 3} THEN Error ELSE ByteSum(input)
    <3>1. UbootChecksum(input)
            = Summed([k \in DOMAIN Pieces(input) |->
                        IF Len(Pieces(input)[k]) \in {1, 3} THEN Error ELSE Little(Pieces(input)[k])])
      BY DEF UbootChecksum, UbootWord
    <3>2. {1, 3} \in SUBSET (1 .. 3)
      OBVIOUS
    <3>. QED
      BY <2>1, <3>1, <3>2, SummedPieces
  <2>5. Len(input) % 2 = 1 <=> Len(input) % 4 \in {1, 3}
    <3>1. PICK L \in Nat : L = Len(input)
      BY <2>1
    <3>. QED
      BY <3>1
  <2>. QED
    BY <2>2, <2>3, <2>4, <2>5 DEF ChecksumsAgree
<1>. QED
  BY <1>1, BytesInvariance, PTL
=============================================================================
