---------------------------- MODULE RetainedProofs ----------------------------
(***************************************************************************)
(* Proofs about Retained: the output pipeline of a terminal and its ring   *)
(* buffer, the JSONL stores, the canvases, the attachments of OS agents    *)
(* and the daily memory, for any streams, requests and faults.             *)
(***************************************************************************)
EXTENDS Retained, SequencesExt, FiniteSetTheorems, SequenceTheorems, WellFoundedInduction, TLAPS

(* Induction on natural numbers, for sets.                                 *)
LEMMA Induction ==
  ASSUME NEW S, 0 \in S, \A n \in Nat : n \in S => n + 1 \in S
  PROVE  \A n \in Nat : n \in S
<1> DEFINE R == OpToRel(<, Nat)
<1>1. IsWellFoundedOn(R, Nat)
  BY NatLessThanWellFounded
<1>2. \A x, y \in Nat : <<y, x>> \in R <=> y < x
  BY DEF OpToRel
<1> HIDE DEF R
<1> SUFFICES ASSUME Nat \ S # {} PROVE FALSE
  OBVIOUS
<1>3. PICK m \in Nat \ S : \A k \in Nat \ S : ~ (<<k, m>> \in R)
  BY <1>1, WFMin
<1>4. m # 0 /\ m - 1 \in Nat /\ m - 1 < m /\ m = (m - 1) + 1
  BY <1>3
<1>5. m - 1 \in S
  BY <1>2, <1>3, <1>4
<1> QED BY <1>3, <1>4, <1>5

LEMMA MaxOf ==
  ASSUME NEW k \in Nat, NEW s \in SUBSET (1 .. k), s # {}
  PROVE  /\ Max(s) \in s /\ \A y \in s : Max(s) >= y
<1> DEFINE Has(n) == \A t \in SUBSET (1 .. n) : t # {} => \E x \in t : \A y \in t : x >= y
           S == {n \in Nat : Has(n)}
<1>1. Has(0)
  <2>1. 1 .. 0 = {}
    OBVIOUS
  <2> QED BY <2>1
<1>2. ASSUME NEW n \in Nat, Has(n) PROVE Has(n + 1)
  <2> SUFFICES ASSUME NEW t \in SUBSET (1 .. n + 1), t # {}
               PROVE  \E x \in t : \A y \in t : x >= y
    OBVIOUS
  <2>1. CASE n + 1 \in t
    BY <2>1
  <2>2. CASE n + 1 \notin t
    <3>1. t \in SUBSET (1 .. n)
      BY <2>2
    <3> QED BY <1>2, <3>1
  <2> QED BY <2>1, <2>2
<1> HIDE DEF Has
<1>3. \A n \in Nat : n \in S
  <2>1. 0 \in S /\ \A n \in Nat : n \in S => n + 1 \in S
    BY <1>1, <1>2
  <2> HIDE DEF S
  <2> QED BY <2>1, Induction
<1>4. \E x \in s : \A y \in s : x >= y
  BY <1>3 DEF Has
<1> QED BY <1>4 DEF Max

(* What MapThenFoldSet computes for a sequence: it[1 .. k] is the value    *)
(* after k elements.                                                       *)
LEMMA MaxOfInterval ==
  ASSUME NEW k \in Nat
  PROVE  Max(1 .. k + 1) = k + 1 /\ (1 .. k + 1) \ {k + 1} = 1 .. k
<1> DEFINE s == 1 .. k + 1
<1>1. k + 1 \in Nat /\ s \in SUBSET (1 .. k + 1) /\ s # {}
  BY k + 1 \in s
<1> HIDE DEF s
<1>2. Max(s) \in s /\ \A y \in s : Max(s) >= y
  BY <1>1, MaxOf
<1> QED BY <1>2 DEF s

StepsAgree(g, h, N) ==
  /\ g[{}] = h[{}]
  /\ \A s \in SUBSET (1 .. N) : s # {} /\ g[s \ {Max(s)}] = h[s \ {Max(s)}] => g[s] = h[s]

AllAgree(g, h, N) == \A s \in SUBSET (1 .. N) : g[s] = h[s]

LEMMA SubsetsAgree ==
  ASSUME NEW N \in Nat, NEW g, NEW h, StepsAgree(g, h, N)
  PROVE  AllAgree(g, h, N)
<1> DEFINE Agree(n) == \A s \in SUBSET (1 .. N) : s \subseteq 1 .. n => g[s] = h[s]
           S == {n \in Nat : Agree(n)}
<1>1. Agree(0)
  <2>1. 1 .. 0 = {}
    OBVIOUS
  <2> QED BY <2>1 DEF StepsAgree
<1>2. ASSUME NEW n \in Nat, Agree(n) PROVE Agree(n + 1)
  <2> SUFFICES ASSUME NEW s \in SUBSET (1 .. N), s \subseteq 1 .. n + 1, s # {}
               PROVE  g[s] = h[s]
    BY DEF StepsAgree
  <2>1. Max(s) \in s /\ \A y \in s : Max(s) >= y
    <3>1. n + 1 \in Nat /\ s \in SUBSET (1 .. n + 1)
      OBVIOUS
    <3> QED BY <3>1, MaxOf
  <2>2. s \ {Max(s)} \subseteq 1 .. n /\ s \ {Max(s)} \in SUBSET (1 .. N)
    <3>1. ASSUME NEW y \in s, y # Max(s) PROVE y \in 1 .. n
      <4>1. y \in 1 .. n + 1 /\ Max(s) \in 1 .. n + 1 /\ Max(s) >= y
        BY <2>1
      <4> QED BY <3>1, <4>1
    <3> QED BY <3>1
  <2> QED BY <1>2, <2>2 DEF StepsAgree
<1> HIDE DEF Agree
<1>3. \A n \in Nat : n \in S
  <2>1. 0 \in S /\ \A n \in Nat : n \in S => n + 1 \in S
    BY <1>1, <1>2
  <2> HIDE DEF S
  <2> QED BY <2>1, Induction
<1>4. Agree(N)
  BY <1>3
<1> QED BY <1>4 DEF Agree, AllAgree

(* There is a function with the values of a fold.                          *)
IsRun(it, step, base, seq) ==
  it = [s \in SUBSET DOMAIN seq |->
          IF s = {} THEN base ELSE step[<<it[s \ {Max(s)}], seq[Max(s)]>>]]

(* A step takes a value and an element to a value.                         *)
IsStep(step, S, T) == step \in [S \X T -> S]

LEMMA RunExists ==
  ASSUME NEW S, NEW T, NEW step, IsStep(step, S, T), NEW base \in S, NEW seq \in Seq(T)
  PROVE  \E it \in [SUBSET DOMAIN seq -> S] : IsRun(it, step, base, seq)
<1> DEFINE Upto(n) == 1 .. (IF n <= Len(seq) THEN n ELSE Len(seq))
           Part(it, n) ==
             it = [s \in SUBSET Upto(n) |->
                    IF s = {} THEN base ELSE step[<<it[s \ {Max(s)}], seq[Max(s)]>>]]
           Has(n) == \E it \in [SUBSET Upto(n) -> S] : Part(it, n)
           G == {n \in Nat : Has(n)}
<1>1. Len(seq) \in Nat /\ DOMAIN seq = 1 .. Len(seq) /\ \A n \in DOMAIN seq : seq[n] \in T
  OBVIOUS
<1>2. Has(0)
  <2> DEFINE it == [s \in SUBSET Upto(0) |-> base]
  <2>1. Upto(0) = {}
    BY <1>1
  <2>2. it \in [SUBSET Upto(0) -> S] /\ Part(it, 0)
    BY <2>1
  <2> QED BY <2>2
<1>3. ASSUME NEW n \in Nat, Has(n) PROVE Has(n + 1)
  <2>1. CASE n >= Len(seq)
    <3>1. Upto(n + 1) = Upto(n)
      BY <1>1, <2>1
    <3> HIDE DEF Upto
    <3> QED BY <1>3, <3>1
  <2>2. CASE n < Len(seq)
    <3>1. Upto(n) = 1 .. n /\ Upto(n + 1) = 1 .. n + 1 /\ n + 1 \in DOMAIN seq
      <4>1. n <= Len(seq) /\ n + 1 <= Len(seq)
        BY <1>1, <2>2
      <4>2. n + 1 \in DOMAIN seq
        BY <1>1, <4>1
      <4> QED BY <4>1, <4>2
    <3>2. PICK it \in [SUBSET (1 .. n) -> S] : Part(it, n)
      BY <1>3, <3>1
    <3> DEFINE new == [s \in SUBSET (1 .. n + 1) |->
                         IF n + 1 \in s THEN step[<<it[s \ {n + 1}], seq[n + 1]>>] ELSE it[s]]
    <3>3. \A s \in SUBSET (1 .. n + 1) :
            /\ n + 1 \in s => Max(s) = n + 1 /\ s \ {n + 1} \in SUBSET (1 .. n)
            /\ n + 1 \notin s => s \in SUBSET (1 .. n)
      <4> TAKE s \in SUBSET (1 .. n + 1)
      <4>1. CASE n + 1 \in s
        <5>1. Max(s) \in s /\ \A y \in s : Max(s) >= y
          <6>1. n + 1 \in Nat
            OBVIOUS
          <6> QED BY <4>1, <6>1, MaxOf
        <5>2. Max(s) = n + 1
          <6>1. Max(s) \in 1 .. n + 1 /\ Max(s) >= n + 1
            BY <4>1, <5>1
          <6> QED BY <6>1
        <5> QED BY <4>1, <5>2
      <4>2. CASE n + 1 \notin s
        BY <4>2
      <4> QED BY <4>1, <4>2
    <3>4. \A s \in SUBSET (1 .. n) : s # {} => Max(s) \in 1 .. n /\ s \ {Max(s)} \in SUBSET (1 .. n)
      BY MaxOf
    <3>5. \A s \in SUBSET (1 .. n + 1) : new[s] \in S
      BY <1>1, <3>1, <3>2, <3>3 DEF IsStep
    <3>6. \A s \in SUBSET (1 .. n) : new[s] = it[s]
      BY <3>2
    <3>7. ASSUME NEW s \in SUBSET (1 .. n + 1)
          PROVE  new[s] = IF s = {} THEN base ELSE step[<<new[s \ {Max(s)}], seq[Max(s)]>>]
      <4>1. CASE n + 1 \in s
        BY <3>3, <3>6, <4>1
      <4>2. CASE n + 1 \notin s
        <5>1. it[s] = IF s = {} THEN base ELSE step[<<it[s \ {Max(s)}], seq[Max(s)]>>]
          BY <3>1, <3>2, <3>3, <4>2
        <5> QED BY <3>3, <3>4, <3>6, <4>2, <5>1
      <4> QED BY <4>1, <4>2
    <3> HIDE DEF new
    <3>8. new \in [SUBSET (1 .. n + 1) -> S]
      BY <3>5 DEF new
    <3>9. Part(new, n + 1)
      BY <3>1, <3>7, <3>8
    <3> QED BY <3>1, <3>8, <3>9
  <2>3. n >= Len(seq) \/ n < Len(seq)
    BY <1>1
  <2> HIDE DEF Has
  <2> QED BY <2>1, <2>2, <2>3
<1> HIDE DEF Has
<1>4. \A n \in Nat : n \in G
  <2>1. 0 \in G /\ \A n \in Nat : n \in G => n + 1 \in G
    BY <1>2, <1>3
  <2> HIDE DEF G
  <2> QED BY <2>1, Induction
<1>5. Has(Len(seq)) /\ Upto(Len(seq)) = DOMAIN seq
  BY <1>1, <1>4
<1> QED BY <1>5 DEF Has, IsRun

(* Two runs are the same.                                                  *)
LEMMA RunIsUnique ==
  ASSUME NEW T, NEW step, NEW base, NEW seq \in Seq(T), NEW g, NEW h,
         IsRun(g, step, base, seq), IsRun(h, step, base, seq)
  PROVE  g = h
<1>1. Len(seq) \in Nat /\ DOMAIN seq = 1 .. Len(seq)
  OBVIOUS
<1> DEFINE N == Len(seq)
<1>0. N \in Nat
  OBVIOUS
<1>2. \A s \in SUBSET (1 .. N) :
         /\ g[s] = IF s = {} THEN base ELSE step[<<g[s \ {Max(s)}], seq[Max(s)]>>]
         /\ h[s] = IF s = {} THEN base ELSE step[<<h[s \ {Max(s)}], seq[Max(s)]>>]
  BY <1>1 DEF IsRun
<1>3. g = [s \in SUBSET (1 .. N) |-> g[s]] /\ h = [s \in SUBSET (1 .. N) |-> h[s]]
  BY <1>1 DEF IsRun
<1> HIDE DEF N
<1>4. g[{}] = h[{}]
  BY <1>2
<1>5. \A s \in SUBSET (1 .. N) : s # {} /\ g[s \ {Max(s)}] = h[s \ {Max(s)}] => g[s] = h[s]
  BY <1>2
<1>6. \A s \in SUBSET (1 .. N) : g[s] = h[s]
  <2>1. StepsAgree(g, h, N)
    BY <1>4, <1>5 DEF StepsAgree
  <2> QED BY <1>0, <2>1, SubsetsAgree DEF AllAgree
<1> QED BY <1>3, <1>6

Value(step, base, seq) == (CHOOSE it : IsRun(it, step, base, seq))[DOMAIN seq]

LEMMA ValueIs ==
  ASSUME NEW T, NEW step, NEW base, NEW seq \in Seq(T), NEW it, IsRun(it, step, base, seq)
  PROVE  (CHOOSE f : IsRun(f, step, base, seq)) = it
<1>1. IsRun((CHOOSE f : IsRun(f, step, base, seq)), step, base, seq)
  OBVIOUS
<1> QED BY <1>1, RunIsUnique

LEMMA ValueEmpty ==
  ASSUME NEW S, NEW T, NEW step, IsStep(step, S, T), NEW base \in S
  PROVE  Value(step, base, <<>>) = base
<1>1. <<>> \in Seq(T) /\ DOMAIN <<>> = {}
  OBVIOUS
<1>2. PICK it \in [SUBSET DOMAIN <<>> -> S] : IsRun(it, step, base, <<>>)
  BY <1>1, RunExists
<1>3. (CHOOSE f : IsRun(f, step, base, <<>>)) = it
  BY <1>1, <1>2, ValueIs
<1>4. it[{}] = base
  BY <1>1, <1>2 DEF IsRun
<1> QED BY <1>1, <1>3, <1>4 DEF Value

LEMMA ValueAppend ==
  ASSUME NEW S, NEW T, NEW step, IsStep(step, S, T), NEW base \in S, NEW seq \in Seq(T), NEW c \in T
  PROVE  /\ Value(step, base, seq) \in S
         /\ Value(step, base, Append(seq, c)) = step[<<Value(step, base, seq), c>>]
<1> DEFINE L == Len(seq)  more == Append(seq, c)
<1>1. L \in Nat /\ DOMAIN seq = 1 .. L
  OBVIOUS
<1>2. /\ more \in Seq(T) /\ DOMAIN more = 1 .. L + 1 /\ more[L + 1] = c
      /\ \A n \in 1 .. L : more[n] = seq[n]
  OBVIOUS
<1> HIDE DEF L, more
<1>3. PICK it \in [SUBSET DOMAIN seq -> S] : IsRun(it, step, base, seq)
  BY RunExists
<1>4. PICK at \in [SUBSET DOMAIN more -> S] : IsRun(at, step, base, more)
  BY <1>2, RunExists
<1>5. /\ Value(step, base, seq) = it[1 .. L] /\ Value(step, base, more) = at[1 .. L + 1]
  BY <1>1, <1>2, <1>3, <1>4, ValueIs DEF Value
<1>6. /\ \A s \in SUBSET (1 .. L) : it[s] = IF s = {} THEN base ELSE step[<<it[s \ {Max(s)}], seq[Max(s)]>>]
      /\ \A s \in SUBSET (1 .. L + 1) : at[s] = IF s = {} THEN base ELSE step[<<at[s \ {Max(s)}], more[Max(s)]>>]
  BY <1>1, <1>2, <1>3, <1>4 DEF IsRun
<1>7. \A s \in SUBSET (1 .. L) : it[s] = at[s]
  <2>1. \A s \in SUBSET (1 .. L) : s \in SUBSET (1 .. L + 1)
    BY <1>1
  <2>2. it[{}] = at[{}]
    BY <1>6
  <2>3. ASSUME NEW s \in SUBSET (1 .. L), s # {}, it[s \ {Max(s)}] = at[s \ {Max(s)}]
        PROVE  it[s] = at[s]
    <3>1. Max(s) \in 1 .. L
      BY <1>1, <2>3, MaxOf
    <3>2. it[s] = step[<<it[s \ {Max(s)}], seq[Max(s)]>>]
      BY <1>6, <2>3
    <3>3. at[s] = step[<<at[s \ {Max(s)}], more[Max(s)]>>]
      BY <1>6, <2>1, <2>3
    <3>4. more[Max(s)] = seq[Max(s)]
      BY <1>2, <3>1
    <3> QED BY <2>3, <3>2, <3>3, <3>4
  <2>4. StepsAgree(it, at, L)
    BY <2>2, <2>3 DEF StepsAgree
  <2>5. AllAgree(it, at, L)
    BY <1>1, <2>4, SubsetsAgree
  <2> QED BY <2>5 DEF AllAgree
<1>8. at[1 .. L + 1] = step[<<at[1 .. L], c>>]
  <2>1. Max(1 .. L + 1) = L + 1 /\ (1 .. L + 1) \ {L + 1} = 1 .. L
    BY <1>1, MaxOfInterval
  <2> DEFINE s == 1 .. L + 1
  <2>2. s # {} /\ s \in SUBSET (1 .. L + 1)
    BY <1>1, L + 1 \in s
  <2>3. Max(s) = L + 1 /\ s \ {L + 1} = 1 .. L
    BY <2>1
  <2> HIDE DEF s
  <2>4. at[s] = step[<<at[s \ {Max(s)}], more[Max(s)]>>]
    BY <1>6, <2>2
  <2>5. at[s] = step[<<at[1 .. L], c>>]
    BY <1>2, <2>3, <2>4
  <2> QED BY <2>5 DEF s
<1>9. it[1 .. L] \in S /\ it[1 .. L] = at[1 .. L]
  BY <1>1, <1>3, <1>7
<1> QED BY <1>5, <1>8, <1>9 DEF more

(* Induction on sequences, for sets.                                       *)
LEMMA SeqInduction ==
  ASSUME NEW T, NEW G, <<>> \in G,
         \A s \in Seq(T) : \A c \in T : s \in G => Append(s, c) \in G
  PROVE  \A s \in Seq(T) : s \in G
<1> DEFINE K == {n \in Nat : \A s \in Seq(T) : Len(s) = n => s \in G}
<1>1. 0 \in K
  <2>1. \A s \in Seq(T) : Len(s) = 0 => s = <<>>
    OBVIOUS
  <2> QED BY <2>1
<1>2. ASSUME NEW n \in Nat, n \in K PROVE n + 1 \in K
  <2> SUFFICES ASSUME NEW s \in Seq(T), Len(s) = n + 1 PROVE s \in G
    OBVIOUS
  <2> DEFINE front == SubSeq(s, 1, n)
  <2>1. front \in Seq(T) /\ Len(front) = n /\ \A k \in 1 .. n : front[k] = s[k]
    OBVIOUS
  <2>2. s[n + 1] \in T
    OBVIOUS
  <2> HIDE DEF front
  <2>3. /\ Append(front, s[n + 1]) \in Seq(T) /\ Len(Append(front, s[n + 1])) = n + 1
        /\ \A k \in 1 .. n + 1 : Append(front, s[n + 1])[k] = s[k]
    BY <2>1, <2>2
  <2>4. s = Append(front, s[n + 1])
    BY <2>3, SeqEqual
  <2>5. front \in G
    BY <1>2, <2>1
  <2> QED BY <2>1, <2>2, <2>4, <2>5
<1> HIDE DEF K
<1>3. \A n \in Nat : n \in K
  BY <1>1, <1>2, Induction
<1> QED BY <1>3 DEF K

LEMMA ValueConcat ==
  ASSUME NEW S, NEW T, NEW step, IsStep(step, S, T), NEW base \in S, NEW s \in Seq(T)
  PROVE  \A t \in Seq(T) : Value(step, base, s \o t) = Value(step, Value(step, base, s), t)
<1> DEFINE mid == Value(step, base, s)
           G == {t \in Seq(T) : Value(step, base, s \o t) = Value(step, mid, t)}
<1>1. mid \in S
  <2>1. CASE T = {}
    <3>1. s = <<>>
      BY <2>1
    <3> QED BY <3>1, ValueEmpty
  <2>2. CASE T # {}
    <3>1. PICK c \in T : TRUE
      BY <2>2
    <3> QED BY <3>1, ValueAppend
  <2> QED BY <2>1, <2>2
<1>0. mid = Value(step, base, s)
  OBVIOUS
<1> HIDE DEF mid
<1>2. <<>> \in G
  <2>1. s \o <<>> = s
    OBVIOUS
  <2> QED BY <1>0, <1>1, <2>1, ValueEmpty
<1>3. ASSUME NEW t \in Seq(T), NEW c \in T, t \in G PROVE Append(t, c) \in G
  <2>1. s \o Append(t, c) = Append(s \o t, c) /\ s \o t \in Seq(T)
    BY AppendIsConcat
  <2>2. Value(step, base, Append(s \o t, c)) = step[<<Value(step, base, s \o t), c>>]
    <3> DEFINE u == s \o t
    <3>1. u \in Seq(T)
      BY <2>1
    <3> HIDE DEF u
    <3>2. Value(step, base, Append(u, c)) = step[<<Value(step, base, u), c>>]
      BY <3>1, ValueAppend
    <3> QED BY <3>2 DEF u
  <2>3. Value(step, mid, Append(t, c)) = step[<<Value(step, mid, t), c>>]
    BY <1>1, ValueAppend
  <2>4. Value(step, base, s \o t) = Value(step, mid, t)
    BY <1>3
  <2>5. Value(step, base, s \o Append(t, c)) = Value(step, mid, Append(t, c))
    BY <2>1, <2>2, <2>3, <2>4
  <2>6. Append(t, c) \in Seq(T)
    OBVIOUS
  <2> HIDE DEF mid
  <2> QED BY <2>5, <2>6
<1> HIDE DEF G
<1>4. \A t \in Seq(T) : t \in G
  BY <1>2, <1>3, SeqInduction
<1> QED BY <1>0, <1>4 DEF G

(* What a fold's function has to be to have the values of a step, as long  *)
(* as its own are values that the step takes.                              *)
IsRunIn(it, step, S, base, seq) ==
  /\ it = [s \in SUBSET DOMAIN seq |-> it[s]]
  /\ it[{}] = base
  /\ \A s \in SUBSET DOMAIN seq :
        s # {} /\ it[s \ {Max(s)}] \in S => it[s] = step[<<it[s \ {Max(s)}], seq[Max(s)]>>]

LEMMA RunIn ==
  ASSUME NEW S, NEW T, NEW step, IsStep(step, S, T), NEW base \in S, NEW seq \in Seq(T),
         NEW it, IsRunIn(it, step, S, base, seq)
  PROVE  it[DOMAIN seq] = Value(step, base, seq)
<1>1. PICK g \in [SUBSET DOMAIN seq -> S] : IsRun(g, step, base, seq)
  BY RunExists
<1> DEFINE L == Len(seq)
<1>2. L \in Nat /\ DOMAIN seq = 1 .. L
  OBVIOUS
<1> HIDE DEF L
<1>3. g[{}] = it[{}]
  BY <1>1 DEF IsRun, IsRunIn
<1>4. ASSUME NEW s \in SUBSET (1 .. L), s # {}, g[s \ {Max(s)}] = it[s \ {Max(s)}]
      PROVE  g[s] = it[s]
  <2>1. Max(s) \in 1 .. L
    BY <1>2, <1>4, MaxOf
  <2>2. g[s \ {Max(s)}] \in S
    BY <1>1, <1>2, <2>1
  <2>3. g[s] = step[<<g[s \ {Max(s)}], seq[Max(s)]>>]
    BY <1>1, <1>2, <1>4 DEF IsRun
  <2>4. it[s] = step[<<it[s \ {Max(s)}], seq[Max(s)]>>]
    BY <1>2, <1>4, <2>2 DEF IsRunIn
  <2> QED BY <1>4, <2>3, <2>4
<1>5. StepsAgree(g, it, L)
  BY <1>3, <1>4 DEF StepsAgree
<1>6. \A s \in SUBSET (1 .. L) : g[s] = it[s]
  <2>1. AllAgree(g, it, L)
    BY <1>2, <1>5, SubsetsAgree
  <2> QED BY <2>1 DEF AllAgree
<1>7. g[DOMAIN seq] = it[DOMAIN seq]
  BY <1>2, <1>6
<1> QED BY <1>1, <1>7, ValueIs DEF Value

(* What the fold of an operator needs: a run, and what its arguments are.  *)
IsTypedRun(it, step, S, T, base, seq) ==
  /\ it = [s \in SUBSET DOMAIN seq |-> it[s]]
  /\ it[{}] = base
  /\ \A s \in SUBSET DOMAIN seq : s # {} =>
       /\ it[s \ {Max(s)}] \in S /\ seq[Max(s)] \in T
       /\ it[s] = step[<<it[s \ {Max(s)}], seq[Max(s)]>>]

LEMMA RunFacts ==
  ASSUME NEW S, NEW T, NEW step, IsStep(step, S, T), NEW base \in S, NEW seq \in Seq(T)
  PROVE  \E it : IsTypedRun(it, step, S, T, base, seq)
<1>1. PICK g \in [SUBSET DOMAIN seq -> S] : IsRun(g, step, base, seq)
  BY RunExists
<1> DEFINE L == Len(seq)
<1>2. L \in Nat /\ DOMAIN seq = 1 .. L /\ \A n \in 1 .. L : seq[n] \in T
  OBVIOUS
<1> HIDE DEF L
<1>3. ASSUME NEW s \in SUBSET DOMAIN seq, s # {}
      PROVE  /\ g[s \ {Max(s)}] \in S /\ seq[Max(s)] \in T
             /\ g[s] = step[<<g[s \ {Max(s)}], seq[Max(s)]>>]
  <2>1. Max(s) \in 1 .. L
    BY <1>2, <1>3, MaxOf
  <2> QED BY <1>1, <1>2, <1>3, <2>1 DEF IsRun
<1>4. g[{}] = base /\ g = [s \in SUBSET DOMAIN seq |-> g[s]]
  BY <1>1 DEF IsRun
<1> QED BY <1>3, <1>4 DEF IsTypedRun

(* The same for a function of the elements that were taken, which is       *)
(* defined by recursion.                                                   *)
IsRecursion(h, step, S, base, seq) ==
  /\ h[0] = base
  /\ \A n \in 1 .. Len(seq) : h[n - 1] \in S => h[n] = step[<<h[n - 1], seq[n]>>]

IsTypedRecursion(h, step, S, T, base, seq) ==
  /\ h = [n \in 0 .. Len(seq) |-> h[n]]
  /\ h[0] = base
  /\ \A n \in 1 .. Len(seq) :
       h[n - 1] \in S /\ seq[n] \in T /\ h[n] = step[<<h[n - 1], seq[n]>>]

LEMMA RecursionFacts ==
  ASSUME NEW S, NEW T, NEW step, IsStep(step, S, T), NEW base \in S, NEW seq \in Seq(T)
  PROVE  \E h : IsTypedRecursion(h, step, S, T, base, seq) /\ h[Len(seq)] = Value(step, base, seq)
<1>1. PICK it \in [SUBSET DOMAIN seq -> S] : IsRun(it, step, base, seq)
  BY RunExists
<1> DEFINE L == Len(seq)  h == [n \in 0 .. L |-> it[1 .. n]]
<1>2. L \in Nat /\ DOMAIN seq = 1 .. L /\ (\A n \in 1 .. L : seq[n] \in T) /\ 1 .. 0 = {}
  OBVIOUS
<1>3. Value(step, base, seq) = it[1 .. L]
  BY <1>1, <1>2, ValueIs DEF Value
<1> HIDE DEF L
<1>4. h[0] = base
  BY <1>1, <1>2 DEF IsRun
<1>5. ASSUME NEW n \in 1 .. L
      PROVE  h[n - 1] \in S /\ seq[n] \in T /\ h[n] = step[<<h[n - 1], seq[n]>>]
  <2> DEFINE s == 1 .. n
  <2>1. n - 1 \in Nat /\ n - 1 \in 0 .. L /\ n \in 0 .. L /\ n = (n - 1) + 1
    BY <1>2
  <2>2. Max(1 .. n) = n /\ (1 .. n) \ {n} = 1 .. n - 1
    BY <2>1, MaxOfInterval
  <2>3. s \in SUBSET DOMAIN seq /\ s # {} /\ 1 .. n - 1 \in SUBSET DOMAIN seq
    <3>1. s \in SUBSET DOMAIN seq /\ n \in s
      BY <1>2, <2>1
    <3>2. 1 .. n - 1 \in SUBSET DOMAIN seq
      BY <1>2, <2>1
    <3> QED BY <3>1, <3>2
  <2>4. Max(s) = n /\ s \ {n} = 1 .. n - 1
    BY <2>2
  <2>5. h[n] = it[s] /\ h[n - 1] = it[1 .. n - 1]
    BY <2>1
  <2> HIDE DEF s, h
  <2>6. it[s] = step[<<it[s \ {Max(s)}], seq[Max(s)]>>]
    BY <1>1, <2>3 DEF IsRun
  <2>7. it[1 .. n - 1] \in S
    BY <1>1, <2>3
  <2> QED BY <1>2, <2>4, <2>5, <2>6, <2>7
<1>6. h = [n \in 0 .. L |-> h[n]] /\ h[L] = it[1 .. L]
  BY <1>2
<1> HIDE DEF h
<1>7. IsTypedRecursion(h, step, S, T, base, seq)
  BY <1>4, <1>5, <1>6 DEF IsTypedRecursion, L
<1>8. h[Len(seq)] = Value(step, base, seq)
  BY <1>3, <1>6 DEF L
<1> QED BY <1>7, <1>8

LEMMA RecursionIs ==
  ASSUME NEW S, NEW T, NEW step, IsStep(step, S, T), NEW base \in S, NEW seq \in Seq(T),
         NEW g, IsRecursion(g, step, S, base, seq)
  PROVE  g[Len(seq)] = Value(step, base, seq)
<1>1. PICK h : IsTypedRecursion(h, step, S, T, base, seq) /\ h[Len(seq)] = Value(step, base, seq)
  BY RecursionFacts
<1> DEFINE K == {n \in Nat : n <= Len(seq) => g[n] = h[n]}
<1>2. 0 \in K
  BY <1>1 DEF IsRecursion, IsTypedRecursion
<1>3. ASSUME NEW n \in Nat, n \in K PROVE n + 1 \in K
  <2> SUFFICES ASSUME n + 1 <= Len(seq) PROVE g[n + 1] = h[n + 1]
    OBVIOUS
  <2> DEFINE k == n + 1
  <2>1. k \in 1 .. Len(seq) /\ k - 1 = n /\ n <= Len(seq)
    OBVIOUS
  <2>2. g[n] = h[n]
    BY <1>3, <2>1
  <2> HIDE DEF k
  <2>3. h[k - 1] \in S /\ h[k] = step[<<h[k - 1], seq[k]>>]
    BY <1>1, <2>1 DEF IsTypedRecursion
  <2>4. g[k] = step[<<g[k - 1], seq[k]>>]
    BY <2>1, <2>2, <2>3 DEF IsRecursion
  <2>5. g[k] = h[k]
    BY <2>1, <2>2, <2>3, <2>4
  <2> QED BY <2>5 DEF k
<1>4. Len(seq) \in Nat /\ \A n \in Nat : n \in K
  <2>1. Len(seq) \in Nat
    OBVIOUS
  <2> HIDE DEF K
  <2> QED BY <1>2, <1>3, <2>1, Induction
<1>5. g[Len(seq)] = h[Len(seq)]
  BY <1>4
<1> QED BY <1>1, <1>5

(* What a sequence over T has of S, as a value of a fold.                  *)
Keep(T, S) == [p \in Seq(T) \X T |-> IF p[2] \in S THEN Append(p[1], p[2]) ELSE p[1]]
Pick(T, S, s) == Value(Keep(T, S), <<>>, s)

LEMMA KeepIsStep ==
  ASSUME NEW T, NEW S
  PROVE  IsStep(Keep(T, S), Seq(T), T)
BY DEF IsStep, Keep

LEMMA PickEmpty ==
  ASSUME NEW T, NEW S
  PROVE  Pick(T, S, <<>>) = <<>>
<1>1. <<>> \in Seq(T)
  OBVIOUS
<1> QED BY <1>1, KeepIsStep, ValueEmpty DEF Pick

LEMMA PickAppend ==
  ASSUME NEW T, NEW S, NEW s \in Seq(T), NEW c \in T
  PROVE  /\ Pick(T, S, s) \in Seq(T)
         /\ Pick(T, S, Append(s, c))
              = IF c \in S THEN Append(Pick(T, S, s), c) ELSE Pick(T, S, s)
<1>1. <<>> \in Seq(T) /\ IsStep(Keep(T, S), Seq(T), T)
  BY KeepIsStep
<1>2. /\ Value(Keep(T, S), <<>>, s) \in Seq(T)
      /\ Value(Keep(T, S), <<>>, Append(s, c)) = Keep(T, S)[<<Value(Keep(T, S), <<>>, s), c>>]
  <2> DEFINE base == <<>>
  <2>1. base \in Seq(T)
    BY <1>1
  <2> HIDE DEF base
  <2>2. /\ Value(Keep(T, S), base, s) \in Seq(T)
        /\ Value(Keep(T, S), base, Append(s, c)) = Keep(T, S)[<<Value(Keep(T, S), base, s), c>>]
    BY <1>1, <2>1, ValueAppend
  <2> QED BY <2>2 DEF base
<1>3. Pick(T, S, s) \in Seq(T) /\ Pick(T, S, Append(s, c)) = Keep(T, S)[<<Pick(T, S, s), c>>]
  BY <1>2 DEF Pick
<1> QED BY <1>3 DEF Keep

LEMMA ToSetAppend ==
  ASSUME NEW T, NEW s \in Seq(T), NEW c
  PROVE  ToSet(Append(s, c)) = ToSet(s) \cup {c}
<1>1. /\ DOMAIN Append(s, c) = 1 .. Len(s) + 1 /\ Len(s) \in Nat /\ DOMAIN s = 1 .. Len(s)
      /\ \A n \in 1 .. Len(s) : Append(s, c)[n] = s[n]
      /\ Append(s, c)[Len(s) + 1] = c
  OBVIOUS
<1>2. DOMAIN Append(s, c) = DOMAIN s \cup {Len(s) + 1}
  BY <1>1
<1> QED BY <1>1, <1>2 DEF ToSet

LEMMA PickElements ==
  ASSUME NEW T, NEW S, NEW s \in Seq(T)
  PROVE  Pick(T, S, s) \in Seq(T) /\ ToSet(Pick(T, S, s)) = ToSet(s) \cap S
<1> DEFINE G == {t \in Seq(T) : Pick(T, S, t) \in Seq(T) /\ ToSet(Pick(T, S, t)) = ToSet(t) \cap S}
<1>1. <<>> \in G
  <2>1. ToSet(<<>>) = {} /\ <<>> \in Seq(T)
    BY DEF ToSet
  <2>2. Pick(T, S, <<>>) = <<>>
    BY PickEmpty
  <2> QED BY <2>1, <2>2
<1>2. ASSUME NEW t \in Seq(T), NEW c \in T, t \in G PROVE Append(t, c) \in G
  <2>1. Append(t, c) \in Seq(T) /\ Pick(T, S, t) \in Seq(T)
    BY <1>2
  <2>2. Pick(T, S, Append(t, c)) = IF c \in S THEN Append(Pick(T, S, t), c) ELSE Pick(T, S, t)
    BY PickAppend
  <2>3. ToSet(Append(t, c)) = ToSet(t) \cup {c}
    BY ToSetAppend
  <2>4. CASE c \in S
    <3>1. ToSet(Append(Pick(T, S, t), c)) = ToSet(Pick(T, S, t)) \cup {c}
      BY <2>1, ToSetAppend
    <3>2. Append(Pick(T, S, t), c) \in Seq(T)
      BY <2>1
    <3> QED BY <1>2, <2>1, <2>2, <2>3, <2>4, <3>1, <3>2
  <2>5. CASE c \notin S
    BY <1>2, <2>1, <2>2, <2>3, <2>5
  <2> QED BY <2>4, <2>5
<1> HIDE DEF G
<1>3. \A t \in Seq(T) : t \in G
  BY <1>1, <1>2, SeqInduction
<1> QED BY <1>3 DEF G

Single(s, S) == \A i, j \in DOMAIN s : s[i] = s[j] /\ s[i] \in S => i = j

LEMMA PickSingle ==
  ASSUME NEW T, NEW S, NEW s \in Seq(T), Single(s, S)
  PROVE  IsInjective(Pick(T, S, s))
<1> DEFINE Unique(p) == \A i, j \in DOMAIN p : p[i] = p[j] => i = j
           G == {t \in Seq(T) : Single(t, S) => Unique(Pick(T, S, t))}
<1>1. <<>> \in G
  BY PickEmpty
<1>2. ASSUME NEW t \in Seq(T), NEW c \in T, t \in G PROVE Append(t, c) \in G
  <2> SUFFICES ASSUME Single(Append(t, c), S) PROVE Unique(Pick(T, S, Append(t, c)))
    OBVIOUS
  <2>1. /\ DOMAIN Append(t, c) = 1 .. Len(t) + 1 /\ Len(t) \in Nat /\ DOMAIN t = 1 .. Len(t)
        /\ \A n \in 1 .. Len(t) : Append(t, c)[n] = t[n]
        /\ Append(t, c)[Len(t) + 1] = c
    OBVIOUS
  <2>2. \A n \in DOMAIN t : n \in DOMAIN Append(t, c) /\ n # Len(t) + 1
    BY <2>1
  <2>3. Single(t, S)
    BY <2>1, <2>2 DEF Single
  <2>4. c \in S => c \notin ToSet(t)
    BY <2>1, <2>2 DEF Single, ToSet
  <2> DEFINE p == Pick(T, S, t)
  <2>5. p \in Seq(T) /\ ToSet(p) = ToSet(t) \cap S
    BY PickElements
  <2>6. Unique(p)
    BY <1>2, <2>3
  <2>7. Pick(T, S, Append(t, c)) = IF c \in S THEN Append(p, c) ELSE p
    BY PickAppend
  <2> HIDE DEF p
  <2>8. ASSUME c \in S PROVE Unique(Append(p, c))
    <3>1. /\ DOMAIN Append(p, c) = 1 .. Len(p) + 1 /\ Len(p) \in Nat /\ DOMAIN p = 1 .. Len(p)
          /\ \A n \in 1 .. Len(p) : Append(p, c)[n] = p[n]
          /\ Append(p, c)[Len(p) + 1] = c
      BY <2>5
    <3>2. \A n \in 1 .. Len(p) : p[n] # c
      BY <2>4, <2>5, <2>8, <3>1 DEF ToSet
    <3>3. \A n \in 1 .. Len(p) + 1 : n \in 1 .. Len(p) \/ n = Len(p) + 1
      BY <3>1
    <3> QED BY <2>6, <3>1, <3>2, <3>3
  <2> QED BY <2>6, <2>7, <2>8
<1> HIDE DEF G
<1>3. \A t \in Seq(T) : t \in G
  BY <1>1, <1>2, SeqInduction
<1> QED BY <1>3 DEF G, IsInjective

LEMMA PickSame ==
  ASSUME NEW T, NEW S, NEW R, NEW s \in Seq(T), ToSet(s) \cap S = ToSet(s) \cap R
  PROVE  Pick(T, S, s) = Pick(T, R, s)
<1> DEFINE G == {t \in Seq(T) : ToSet(t) \cap S = ToSet(t) \cap R => Pick(T, S, t) = Pick(T, R, t)}
<1>1. <<>> \in G
  BY PickEmpty
<1>2. ASSUME NEW t \in Seq(T), NEW c \in T, t \in G PROVE Append(t, c) \in G
  <2> SUFFICES ASSUME ToSet(Append(t, c)) \cap S = ToSet(Append(t, c)) \cap R
               PROVE  Pick(T, S, Append(t, c)) = Pick(T, R, Append(t, c))
    OBVIOUS
  <2>1. ToSet(Append(t, c)) = ToSet(t) \cup {c}
    BY ToSetAppend
  <2>2. ToSet(t) \cap S = ToSet(t) \cap R /\ (c \in S <=> c \in R)
    <3>1. c \in S <=> c \in R
      BY <2>1
    <3>2. \A x \in ToSet(t) : x \in S <=> x \in R
      BY <2>1
    <3> QED BY <3>1, <3>2
  <2>3. Pick(T, S, t) = Pick(T, R, t)
    BY <1>2, <2>2
  <2>4. /\ Pick(T, S, Append(t, c)) = IF c \in S THEN Append(Pick(T, S, t), c) ELSE Pick(T, S, t)
        /\ Pick(T, R, Append(t, c)) = IF c \in R THEN Append(Pick(T, R, t), c) ELSE Pick(T, R, t)
    BY PickAppend
  <2> QED BY <2>2, <2>3, <2>4
<1> HIDE DEF G
<1>3. \A t \in Seq(T) : t \in G
  BY <1>1, <1>2, SeqInduction
<1> QED BY <1>3 DEF G

LEMMA PickAgain ==
  ASSUME NEW T, NEW S, NEW R, NEW s \in Seq(T)
  PROVE  Pick(T, R, Pick(T, S, s)) = Pick(T, S \cap R, s)
<1> DEFINE G == {t \in Seq(T) : Pick(T, R, Pick(T, S, t)) = Pick(T, S \cap R, t)}
<1>1. <<>> \in G
  BY PickEmpty
<1>2. ASSUME NEW t \in Seq(T), NEW c \in T, t \in G PROVE Append(t, c) \in G
  <2>1. Append(t, c) \in Seq(T) /\ Pick(T, S, t) \in Seq(T)
    BY PickElements
  <2>2. Pick(T, S, Append(t, c)) = IF c \in S THEN Append(Pick(T, S, t), c) ELSE Pick(T, S, t)
    BY PickAppend
  <2>3. Pick(T, S \cap R, Append(t, c))
          = IF c \in S \cap R THEN Append(Pick(T, S \cap R, t), c) ELSE Pick(T, S \cap R, t)
    BY PickAppend
  <2>4. Pick(T, R, Append(Pick(T, S, t), c))
          = IF c \in R THEN Append(Pick(T, R, Pick(T, S, t)), c) ELSE Pick(T, R, Pick(T, S, t))
    BY <2>1, PickAppend
  <2>5. Pick(T, R, Pick(T, S, t)) = Pick(T, S \cap R, t)
    BY <1>2
  <2>6. Pick(T, R, Pick(T, S, Append(t, c))) = Pick(T, S \cap R, Append(t, c))
    <3>1. CASE c \in S
      BY <2>2, <2>3, <2>4, <2>5, <3>1
    <3>2. CASE c \notin S
      BY <2>2, <2>3, <2>5, <3>2
    <3> QED BY <3>1, <3>2
  <2> QED BY <2>1, <2>6
<1> HIDE DEF G
<1>3. \A t \in Seq(T) : t \in G
  BY <1>1, <1>2, SeqInduction
<1> QED BY <1>3 DEF G

(* Concatenations of texts.                                                *)
LEMMA Joined ==
  ASSUME NEW S, NEW s \in Seq(S), NEW t \in Seq(S), NEW u \in Seq(S), NEW c \in S
  PROVE  /\ s \o t \in Seq(S) /\ Append(s, c) \in Seq(S) /\ <<>> \in Seq(S) /\ <<c>> \in Seq(S)
         /\ s \o <<>> = s /\ <<>> \o s = s
         /\ (s \o t) \o u = s \o (t \o u)
         /\ s \o <<c>> = Append(s, c) /\ Append(<<>>, c) = <<c>>
         /\ s \o Append(t, c) = Append(s \o t, c)
<1>1. s \o t \in Seq(S) /\ Append(s, c) \in Seq(S) /\ <<>> \in Seq(S) /\ <<c>> \in Seq(S)
  OBVIOUS
<1>2. s \o <<>> = s /\ <<>> \o s = s
  BY ConcatEmptySeq
<1>3. (s \o t) \o u = s \o (t \o u)
  BY ConcatAssociative
<1>4. s \o <<c>> = Append(s, c)
  BY AppendIsConcat
<1>5. Append(<<>>, c) = <<c>>
  OBVIOUS
<1>6. s \o Append(t, c) = Append(s \o t, c)
  OBVIOUS
<1> QED BY <1>1, <1>2, <1>3, <1>4, <1>5, <1>6

(* A normalizer, and what it was given is still in it: `Later` has more    *)
(* output before its own.                                                  *)
Norms == [mode : P!Modes, escape : Seq(P!Characters), cr : BOOLEAN, out : Seq(P!Characters)]
Holds(n) == n.mode = "normal" <=> n.escape = <<>>
Later(p, n) == [n EXCEPT !.out = p \o @]
Text(n) == n.out \o n.escape

(* What a character of ordinary output is written as, and what it leaves.  *)
IsCr(c) == c = "CR"
Written(c, cr) == IF c = "LF" /\ ~cr THEN <<"CR", "LF">> ELSE <<c>>

LEMMA WrittenIs ==
  ASSUME NEW c \in P!Characters, NEW cr
  PROVE  Written(c, cr) \in Seq(P!Characters) /\ IsCr(c) \in BOOLEAN
<1>1. "CR" \in P!Characters /\ "LF" \in P!Characters
  BY DEF P!Characters, P!Bytes
<1>2. IsCr(c) \in BOOLEAN
  BY DEF IsCr
<1>3. Written(c, cr) \in Seq(P!Characters)
  BY <1>1 DEF Written
<1> QED BY <1>2, <1>3

LEMMA NormEqual == ASSUME NEW n \in Norms, NEW k \in Norms, n.mode = k.mode, n.escape = k.escape, n.cr = k.cr, n.out = k.out PROVE n = k
BY DEF Norms
LEMMA NormTypes == ASSUME NEW n \in Norms PROVE n.mode \in P!Modes /\ n.escape \in Seq(P!Characters) /\ n.cr \in BOOLEAN /\ n.out \in Seq(P!Characters)
BY DEF Norms
LEMMA SetFields ==
  ASSUME NEW n \in Norms
  PROVE  /\ \A x \in P!Modes : [n EXCEPT !.mode = x] \in Norms
         /\ \A x \in Seq(P!Characters) : [n EXCEPT !.escape = x] \in Norms
         /\ \A x \in BOOLEAN : [n EXCEPT !.cr = x] \in Norms
         /\ \A x \in Seq(P!Characters) : [n EXCEPT !.out = x] \in Norms
<1>1. \A x \in P!Modes : [n EXCEPT !.mode = x] \in Norms
  BY DEF Norms
<1>2. \A x \in Seq(P!Characters) : [n EXCEPT !.escape = x] \in Norms
  BY DEF Norms
<1>3. \A x \in BOOLEAN : [n EXCEPT !.cr = x] \in Norms
  BY DEF Norms
<1>4. \A x \in Seq(P!Characters) : [n EXCEPT !.out = x] \in Norms
  BY DEF Norms
<1> QED BY <1>1, <1>2, <1>3, <1>4
LEMMA HoldIs ==
  ASSUME NEW n \in Norms, NEW c \in P!Characters, NEW mode \in P!Modes 
  PROVE  /\ P!Hold(n, c, mode) \in Norms
         /\ P!Hold(n, c, mode).mode = mode /\ P!Hold(n, c, mode).escape = Append(n.escape, c)
         /\ P!Hold(n, c, mode).cr = n.cr /\ P!Hold(n, c, mode).out = n.out
<1>1. /\ P!Hold(n, c, mode).mode = mode /\ P!Hold(n, c, mode).escape = Append(n.escape, c)
      /\ P!Hold(n, c, mode).cr = n.cr /\ P!Hold(n, c, mode).out = n.out
  BY DEF Norms, P!Hold
<1>2. P!Hold(n, c, mode) \in Norms
  <2> DEFINE e == Append(n.escape, c)  k == [n EXCEPT !.escape = e]
  <2>1. e \in Seq(P!Characters)
    BY NormTypes
  <2>2. P!Hold(n, c, mode) = [k EXCEPT !.mode = mode]
    BY DEF P!Hold
  <2> HIDE DEF e
  <2>3. k \in Norms
    BY <2>1, SetFields
  <2> HIDE DEF k
  <2> QED BY <2>2, <2>3, SetFields
<1> QED BY <1>1, <1>2
LEMMA CompleteIs ==
  ASSUME NEW n \in Norms, NEW c \in P!Characters
  PROVE  /\ P!Complete(n, c) \in Norms
         /\ P!Complete(n, c).mode = "normal" /\ P!Complete(n, c).escape = <<>>
         /\ P!Complete(n, c).cr = n.cr /\ P!Complete(n, c).out = n.out \o Append(n.escape, c)
<1>1. /\ P!Complete(n, c).mode = "normal" /\ P!Complete(n, c).escape = <<>>
      /\ P!Complete(n, c).cr = n.cr /\ P!Complete(n, c).out = n.out \o Append(n.escape, c)
  BY DEF Norms, P!Complete
<1>2. P!Complete(n, c) \in Norms
  <2> DEFINE o == n.out \o Append(n.escape, c)  e == <<>>  m == "normal"
             j == [n EXCEPT !.out = o]  k == [j EXCEPT !.escape = e]
  <2>1. o \in Seq(P!Characters) /\ e \in Seq(P!Characters) /\ m \in P!Modes
    BY NormTypes DEF P!Modes
  <2>2. P!Complete(n, c) = [k EXCEPT !.mode = m]
    BY DEF P!Complete
  <2> HIDE DEF o, e, m
  <2>3. j \in Norms
    BY <2>1, SetFields
  <2> HIDE DEF j
  <2>4. k \in Norms
    BY <2>1, <2>3, SetFields
  <2> HIDE DEF k
  <2> QED BY <2>1, <2>2, <2>4, SetFields
<1> QED BY <1>1, <1>2
LEMMA PlainIs ==
  ASSUME NEW n \in Norms, NEW c \in P!Characters, c # "ESC"
  PROVE  /\ P!Plain(n, c) \in Norms
         /\ P!Plain(n, c).mode = n.mode /\ P!Plain(n, c).escape = n.escape
         /\ P!Plain(n, c).cr = IsCr(c) /\ P!Plain(n, c).out = n.out \o Written(c, n.cr)
<1> DEFINE x == Written(c, n.cr)  o == n.out \o x  b == IsCr(c)  k == [n EXCEPT !.out = o]
<1>1. x \in Seq(P!Characters) /\ b \in BOOLEAN
  BY WrittenIs
<1>2. P!Plain(n, c) = [n EXCEPT !.out = o, !.cr = b]
  BY DEF P!Plain, Written, IsCr
<1> HIDE DEF x, b
<1>3. o \in Seq(P!Characters)
  BY <1>1, NormTypes
<1> HIDE DEF o
<1>4. P!Plain(n, c) = [k EXCEPT !.cr = b]
  BY <1>2
<1>5. k \in Norms
  BY <1>3, SetFields
<1>6. k.mode = n.mode /\ k.escape = n.escape /\ k.out = o
  BY DEF Norms
<1> HIDE DEF k
<1>7. [k EXCEPT !.cr = b] \in Norms
  BY <1>1, <1>5, SetFields
<1>8. /\ [k EXCEPT !.cr = b].mode = k.mode /\ [k EXCEPT !.cr = b].escape = k.escape
      /\ [k EXCEPT !.cr = b].cr = b /\ [k EXCEPT !.cr = b].out = k.out
  BY <1>5 DEF Norms
<1> QED BY <1>4, <1>6, <1>7, <1>8 DEF o, x, b

LEMMA EscapeIs ==
  ASSUME NEW n \in Norms, NEW c \in P!Characters, c = "ESC"
  PROVE  /\ P!Plain(n, c) \in Norms
         /\ P!Plain(n, c).mode = "escape" /\ P!Plain(n, c).escape = Append(n.escape, c)
         /\ P!Plain(n, c).cr = FALSE /\ P!Plain(n, c).out = n.out
<1> DEFINE k == P!Hold(n, c, "escape")
<1>1. "escape" \in P!Modes /\ FALSE \in BOOLEAN
  BY DEF P!Modes
<1>2. k \in Norms /\ k.mode = "escape" /\ k.escape = Append(n.escape, c) /\ k.out = n.out
  BY <1>1, HoldIs
<1>3. P!Plain(n, c) = [k EXCEPT !.cr = FALSE]
  BY DEF P!Plain
<1> HIDE DEF k
<1>4. [k EXCEPT !.cr = FALSE] \in Norms
  BY <1>1, <1>2, SetFields
<1>5. /\ [k EXCEPT !.cr = FALSE].mode = k.mode /\ [k EXCEPT !.cr = FALSE].escape = k.escape
      /\ [k EXCEPT !.cr = FALSE].cr = FALSE /\ [k EXCEPT !.cr = FALSE].out = k.out
  BY <1>2 DEF Norms
<1> QED BY <1>2, <1>3, <1>4, <1>5
LEMMA LaterIs ==
  ASSUME NEW n \in Norms, NEW p \in Seq(P!Characters)
  PROVE  /\ Later(p, n) \in Norms
         /\ Later(p, n).mode = n.mode /\ Later(p, n).escape = n.escape
         /\ Later(p, n).cr = n.cr /\ Later(p, n).out = p \o n.out
<1> DEFINE o == p \o n.out
<1>1. o \in Seq(P!Characters)
  BY NormTypes
<1>2. Later(p, n) = [n EXCEPT !.out = o]
  BY DEF Later
<1> HIDE DEF o
<1>3. [n EXCEPT !.out = o] \in Norms
  BY <1>1, SetFields
<1>4. /\ [n EXCEPT !.out = o].mode = n.mode /\ [n EXCEPT !.out = o].escape = n.escape
      /\ [n EXCEPT !.out = o].cr = n.cr /\ [n EXCEPT !.out = o].out = o
  BY DEF Norms
<1> QED BY <1>2, <1>3, <1>4 DEF o

LEMMA FreshIsNorm ==
  /\ P!Fresh \in Norms /\ Holds(P!Fresh) /\ P!Fresh.mode = "normal" /\ P!Fresh.escape = <<>>
  /\ P!Fresh.cr = FALSE /\ P!Fresh.out = <<>> /\ Text(P!Fresh) = <<>>
<1>1. "normal" \in P!Modes /\ <<>> \in Seq(P!Characters) /\ <<>> \o <<>> = <<>>
  BY DEF P!Modes
<1> QED BY <1>1 DEF P!Fresh, Norms, Holds, Text

(* Either of the two is what a character does in an escape sequence; which *)
(* one it is the mode and the character tell.                              *)
LEMMA InSequence ==
  ASSUME NEW n \in Norms, NEW c \in P!Characters, n.mode # "normal"
  PROVE  \/ \A p \in Seq(P!Characters) :
              /\ P!NormalizeChar(n, c) = P!Complete(n, c)
              /\ P!NormalizeChar(Later(p, n), c) = P!Complete(Later(p, n), c)
         \/ \E mode \in P!Modes \ {"normal"} : \A p \in Seq(P!Characters) :
              /\ P!NormalizeChar(n, c) = P!Hold(n, c, mode)
              /\ P!NormalizeChar(Later(p, n), c) = P!Hold(Later(p, n), c, mode)
<1>0. n.mode \in P!Modes /\ \A p \in Seq(P!Characters) : Later(p, n).mode = n.mode
  BY NormTypes, LaterIs
<1>1. CASE n.mode = "escape"
  <2>1. /\ P!NormalizeChar(n, c) = P!InEscape(n, c)
        /\ \A p \in Seq(P!Characters) : P!NormalizeChar(Later(p, n), c) = P!InEscape(Later(p, n), c)
    BY <1>0, <1>1 DEF P!NormalizeChar
  <2>2. CASE P!Introducer(c) = "escape" /\ c \in P!EscapeFinal
    BY <2>1, <2>2 DEF P!InEscape
  <2>3. CASE ~(P!Introducer(c) = "escape" /\ c \in P!EscapeFinal)
    <3>1. P!Introducer(c) \in P!Modes \ {"normal"}
      BY DEF P!Introducer, P!Modes
    <3>2. /\ P!NormalizeChar(n, c) = P!Hold(n, c, P!Introducer(c))
          /\ \A p \in Seq(P!Characters) : P!NormalizeChar(Later(p, n), c) = P!Hold(Later(p, n), c, P!Introducer(c))
      BY <2>1, <2>3 DEF P!InEscape
    <3> QED BY <3>1, <3>2
  <2> QED BY <2>2, <2>3
<1>2. CASE n.mode = "csi"
  <2>1. /\ P!NormalizeChar(n, c) = P!InCsi(n, c)
        /\ \A p \in Seq(P!Characters) : P!NormalizeChar(Later(p, n), c) = P!InCsi(Later(p, n), c)
    BY <1>0, <1>2 DEF P!NormalizeChar
  <2>2. "csi" \in P!Modes \ {"normal"}
    BY DEF P!Modes
  <2> QED BY <2>1, <2>2 DEF P!InCsi
<1>3. CASE n.mode \in {"osc", "dcs"}
  <2>1. /\ P!NormalizeChar(n, c) = P!InOscOrDcs(n, c)
        /\ \A p \in Seq(P!Characters) : P!NormalizeChar(Later(p, n), c) = P!InOscOrDcs(Later(p, n), c)
    BY <1>0, <1>3 DEF P!NormalizeChar
  <2>2. "string-esc" \in P!Modes \ {"normal"} /\ n.mode \in P!Modes \ {"normal"}
    BY <1>3 DEF P!Modes
  <2>3. CASE c = "BEL"
    BY <2>1, <2>3 DEF P!InOscOrDcs
  <2>4. CASE c = "ESC"
    BY <2>1, <2>2, <2>4 DEF P!InOscOrDcs
  <2>5. CASE c # "BEL" /\ c # "ESC"
    <3>1. /\ P!NormalizeChar(n, c) = P!Hold(n, c, n.mode)
          /\ \A p \in Seq(P!Characters) : P!NormalizeChar(Later(p, n), c) = P!Hold(Later(p, n), c, n.mode)
      BY <1>0, <2>1, <2>5 DEF P!InOscOrDcs
    <3> QED BY <2>2, <3>1
  <2> QED BY <2>3, <2>4, <2>5
<1>4. CASE n.mode \in {"string", "string-esc"}
  <2>1. /\ P!NormalizeChar(n, c) = P!InString(n, c)
        /\ \A p \in Seq(P!Characters) : P!NormalizeChar(Later(p, n), c) = P!InString(Later(p, n), c)
    BY <1>0, <1>4 DEF P!NormalizeChar
  <2> DEFINE mode == IF c = "ESC" THEN "string-esc" ELSE "string"
  <2>2. mode \in P!Modes \ {"normal"}
    BY DEF P!Modes
  <2>3. CASE c = "BEL" \/ (c = "\\" /\ n.mode = "string-esc")
    BY <1>0, <2>1, <2>3 DEF P!InString
  <2>4. CASE ~(c = "BEL" \/ (c = "\\" /\ n.mode = "string-esc"))
    <3>1. /\ P!NormalizeChar(n, c) = P!Hold(n, c, mode)
          /\ \A p \in Seq(P!Characters) : P!NormalizeChar(Later(p, n), c) = P!Hold(Later(p, n), c, mode)
      BY <1>0, <2>1, <2>4 DEF P!InString
    <3> QED BY <2>2, <3>1
  <2> QED BY <2>3, <2>4
<1> QED BY <1>0, <1>1, <1>2, <1>3, <1>4 DEF P!Modes

(* One character: what is put out and held is what it was, and the         *)
(* character; a line feed that follows no carriage return gets one.  And   *)
(* what was put out before changes nothing.                                *)
Adds(n, c) == IF n.mode = "normal" THEN Written(c, n.cr) ELSE <<c>>

LEMMA AddsIs ==
  ASSUME NEW n \in Norms, NEW c \in P!Characters
  PROVE  /\ Adds(n, c) \in Seq(P!Characters)
         /\ \A p \in Seq(P!Characters) : Adds(Later(p, n), c) = Adds(n, c)
<1>2. Adds(n, c) \in Seq(P!Characters)
  BY WrittenIs DEF Adds
<1>3. \A p \in Seq(P!Characters) : Adds(Later(p, n), c) = Adds(n, c)
  BY LaterIs DEF Adds
<1> QED BY <1>2, <1>3

(* The fields after one character.                                         *)
Puts(n, k, c) ==
  /\ k \in Norms /\ Holds(k)
  /\ Text(k) = Text(n) \o Adds(n, c)
  /\ n.mode = "normal" /\ c # "ESC" => k.mode = "normal" /\ k.cr = IsCr(c)
Same(n, k, p) == P!NormalizeChar(Later(p, n), k) = Later(p, P!NormalizeChar(n, k))

LEMMA HoldAgain ==
  ASSUME NEW n \in Norms, NEW c \in P!Characters, NEW mode \in P!Modes, NEW p \in Seq(P!Characters)
  PROVE  P!Hold(Later(p, n), c, mode) = Later(p, P!Hold(n, c, mode))
<1> DEFINE k == P!Hold(n, c, mode)  m == Later(p, n)  j == P!Hold(m, c, mode)
<1>1. /\ k \in Norms /\ k.mode = mode /\ k.escape = Append(n.escape, c)
      /\ k.cr = n.cr /\ k.out = n.out
  BY HoldIs
<1>2. /\ m \in Norms /\ m.escape = n.escape /\ m.cr = n.cr /\ m.out = p \o n.out
  BY LaterIs
<1> HIDE DEF m
<1>3. /\ j \in Norms /\ j.mode = mode /\ j.escape = Append(m.escape, c)
      /\ j.cr = m.cr /\ j.out = m.out
  BY <1>2, HoldIs
<1> HIDE DEF k, j
<1> DEFINE q == Later(p, k)
<1>4. /\ q \in Norms /\ q.mode = k.mode /\ q.escape = k.escape /\ q.cr = k.cr /\ q.out = p \o k.out
  BY <1>1, LaterIs
<1> HIDE DEF q
<1>7. j.mode = q.mode /\ j.escape = q.escape /\ j.cr = q.cr /\ j.out = q.out
  BY <1>1, <1>2, <1>3, <1>4
<1>5. j = q
  BY <1>3, <1>4, <1>7, NormEqual
<1> QED BY <1>5 DEF j, k, m, q

LEMMA CompleteAgain ==
  ASSUME NEW n \in Norms, NEW c \in P!Characters, NEW p \in Seq(P!Characters)
  PROVE  P!Complete(Later(p, n), c) = Later(p, P!Complete(n, c))
<1> DEFINE k == P!Complete(n, c)  m == Later(p, n)  j == P!Complete(m, c)
<1>1. /\ k \in Norms /\ k.mode = "normal" /\ k.escape = <<>>
      /\ k.cr = n.cr /\ k.out = n.out \o Append(n.escape, c)
  BY CompleteIs
<1>2. /\ m \in Norms /\ m.escape = n.escape /\ m.cr = n.cr /\ m.out = p \o n.out
  BY LaterIs
<1> HIDE DEF m
<1>3. /\ j \in Norms /\ j.mode = "normal" /\ j.escape = <<>>
      /\ j.cr = m.cr /\ j.out = m.out \o Append(m.escape, c)
  BY <1>2, CompleteIs
<1> HIDE DEF k, j
<1> DEFINE q == Later(p, k)
<1>4. /\ q \in Norms /\ q.mode = k.mode /\ q.escape = k.escape /\ q.cr = k.cr /\ q.out = p \o k.out
  BY <1>1, LaterIs
<1> HIDE DEF q
<1>6. (p \o n.out) \o Append(n.escape, c) = p \o (n.out \o Append(n.escape, c))
  <2> DEFINE o == n.out  e == Append(n.escape, c)
  <2>1. o \in Seq(P!Characters) /\ e \in Seq(P!Characters)
    BY NormTypes
  <2> HIDE DEF o, e
  <2>2. (p \o o) \o e = p \o (o \o e)
    BY <2>1, ConcatAssociative
  <2> QED BY <2>2 DEF o, e
<1>7. j.mode = q.mode /\ j.escape = q.escape /\ j.cr = q.cr /\ j.out = q.out
  BY <1>1, <1>2, <1>3, <1>4, <1>6
<1>5. j = q
  BY <1>3, <1>4, <1>7, NormEqual
<1> QED BY <1>5 DEF j, k, m, q

LEMMA PlainAgain ==
  ASSUME NEW n \in Norms, NEW c \in P!Characters, NEW p \in Seq(P!Characters)
  PROVE  P!Plain(Later(p, n), c) = Later(p, P!Plain(n, c))
<1> DEFINE k == P!Plain(n, c)  m == Later(p, n)  j == P!Plain(m, c)
           x == Written(c, n.cr)
<1>2. m \in Norms /\ m.mode = n.mode /\ m.escape = n.escape /\ m.cr = n.cr /\ m.out = p \o n.out
  BY LaterIs
<1> HIDE DEF m
<1>1. CASE c = "ESC"
  <2>1. /\ k \in Norms /\ k.mode = "escape" /\ k.escape = Append(n.escape, c)
        /\ k.cr = FALSE /\ k.out = n.out
    BY <1>1, EscapeIs
  <2>2. /\ j \in Norms /\ j.mode = "escape" /\ j.escape = Append(m.escape, c)
        /\ j.cr = FALSE /\ j.out = m.out
    BY <1>1, <1>2, EscapeIs
  <2> HIDE DEF k, j
  <2> DEFINE q == Later(p, k)
  <2>3. /\ q \in Norms /\ q.mode = k.mode /\ q.escape = k.escape /\ q.cr = k.cr /\ q.out = p \o k.out
    BY <2>1, LaterIs
  <2> HIDE DEF q
  <2>5. j.mode = q.mode /\ j.escape = q.escape /\ j.cr = q.cr /\ j.out = q.out
    BY <1>2, <2>1, <2>2, <2>3
  <2>4. j = q
    BY <2>2, <2>3, <2>5, NormEqual
  <2> QED BY <2>4 DEF j, k, m, q
<1>3. CASE c # "ESC"
  <2>1. /\ k \in Norms /\ k.mode = n.mode /\ k.escape = n.escape
        /\ k.cr = IsCr(c) /\ k.out = n.out \o x
    BY <1>3, PlainIs
  <2>2. /\ j \in Norms /\ j.mode = m.mode /\ j.escape = m.escape
        /\ j.cr = IsCr(c) /\ j.out = m.out \o x
    <3>1. /\ j \in Norms /\ j.mode = m.mode /\ j.escape = m.escape
          /\ j.cr = IsCr(c) /\ j.out = m.out \o Written(c, m.cr)
      BY <1>2, <1>3, PlainIs
    <3> QED BY <1>2, <3>1
  <2>5. (p \o n.out) \o x = p \o (n.out \o x)
    <3> DEFINE o == n.out
    <3>1. o \in Seq(P!Characters) /\ x \in Seq(P!Characters)
      BY NormTypes, WrittenIs
    <3> HIDE DEF o, x
    <3>2. (p \o o) \o x = p \o (o \o x)
      BY <3>1, ConcatAssociative
    <3> QED BY <3>2 DEF o
  <2> HIDE DEF k, j, x
  <2> DEFINE q == Later(p, k)
  <2>3. /\ q \in Norms /\ q.mode = k.mode /\ q.escape = k.escape /\ q.cr = k.cr /\ q.out = p \o k.out
    BY <2>1, LaterIs
  <2> HIDE DEF q
  <2>6. j.mode = q.mode /\ j.escape = q.escape /\ j.cr = q.cr /\ j.out = q.out
    BY <1>2, <2>1, <2>2, <2>3, <2>5
  <2>4. j = q
    BY <2>2, <2>3, <2>6, NormEqual
  <2> QED BY <2>4 DEF j, k, m, q
<1> QED BY <1>1, <1>3

LEMMA OneCharacter ==
  ASSUME NEW n \in Norms, Holds(n), NEW c \in P!Characters
  PROVE  /\ Puts(n, P!NormalizeChar(n, c), c)
         /\ \A p \in Seq(P!Characters) : P!NormalizeChar(Later(p, n), c) = Later(p, P!NormalizeChar(n, c))
<1> DEFINE k == P!NormalizeChar(n, c)
<1>0. n.mode \in P!Modes /\ n.escape \in Seq(P!Characters) /\ n.cr \in BOOLEAN /\ n.out \in Seq(P!Characters)
  BY NormTypes
<1>1. CASE n.mode # "normal"
  <2>1. Adds(n, c) = <<c>>
    BY <1>1 DEF Adds
  <2>2. (n.out \o n.escape) \o <<c>> = n.out \o Append(n.escape, c)
    <3> DEFINE o == n.out  e == n.escape
    <3>1. o \in Seq(P!Characters) /\ e \in Seq(P!Characters)
      BY <1>0
    <3> HIDE DEF o, e
    <3>2. (o \o e) \o <<c>> = Append(o \o e, c) /\ o \o Append(e, c) = Append(o \o e, c)
      BY <3>1
    <3> QED BY <3>2 DEF o, e
  <2>3. CASE \E mode \in P!Modes \ {"normal"} : \A p \in Seq(P!Characters) :
               /\ P!NormalizeChar(n, c) = P!Hold(n, c, mode)
               /\ P!NormalizeChar(Later(p, n), c) = P!Hold(Later(p, n), c, mode)
    <3>1. PICK mode \in P!Modes \ {"normal"} : \A p \in Seq(P!Characters) :
               /\ P!NormalizeChar(n, c) = P!Hold(n, c, mode)
               /\ P!NormalizeChar(Later(p, n), c) = P!Hold(Later(p, n), c, mode)
      BY <2>3
    <3>2. k = P!Hold(n, c, mode)
      BY <1>0, <3>1
    <3>3. k \in Norms /\ k.mode = mode /\ k.escape = Append(n.escape, c) /\ k.out = n.out
      BY <3>2, HoldIs
    <3>4. Append(n.escape, c) # <<>>
      <4> DEFINE e == n.escape
      <4>1. e \in Seq(P!Characters)
        BY <1>0
      <4> HIDE DEF e
      <4>2. Append(e, c) # <<>>
        BY <4>1
      <4> QED BY <4>2 DEF e
    <3>5. Puts(n, k, c)
      BY <1>1, <2>1, <2>2, <3>3, <3>4 DEF Puts, Holds, Text
    <3> QED BY <3>1, <3>2, <3>5, HoldAgain
  <2>4. CASE \A p \in Seq(P!Characters) :
               /\ P!NormalizeChar(n, c) = P!Complete(n, c)
               /\ P!NormalizeChar(Later(p, n), c) = P!Complete(Later(p, n), c)
    <3>2. k = P!Complete(n, c)
      BY <1>0, <2>4
    <3>3. k \in Norms /\ k.mode = "normal" /\ k.escape = <<>> /\ k.out = n.out \o Append(n.escape, c)
      BY <3>2, CompleteIs
    <3>4. k.out \o <<>> = k.out
      BY <3>3, NormTypes, Joined
    <3>5. Puts(n, k, c)
      BY <1>1, <2>1, <2>2, <3>3, <3>4 DEF Puts, Holds, Text
    <3> QED BY <2>4, <3>2, <3>5, CompleteAgain
  <2> QED BY <1>1, <2>3, <2>4, InSequence
<1>2. CASE n.mode = "normal"
  <2>1. n.escape = <<>>
    BY <1>2 DEF Holds
  <2>2. k = P!Plain(n, c)
    BY <1>2 DEF P!NormalizeChar
  <2>3. ASSUME NEW p \in Seq(P!Characters) PROVE P!NormalizeChar(Later(p, n), c) = P!Plain(Later(p, n), c)
    BY <1>2, LaterIs DEF P!NormalizeChar
  <2>4. n.out \o <<>> = n.out
    BY <1>0, Joined
  <2>5. CASE c = "ESC"
    <3> DEFINE j == P!Plain(n, c)
    <3>a. j \in Norms /\ j.mode = "escape" /\ j.escape = Append(n.escape, c) /\ j.out = n.out
      BY <2>5, EscapeIs
    <3>0. k \in Norms /\ k.mode = "escape" /\ k.escape = Append(n.escape, c) /\ k.out = n.out
      BY <2>2, <3>a, Zenon
    <3>1. k \in Norms /\ k.mode = "escape" /\ k.escape = Append(<<>>, c) /\ k.out = n.out
      BY <2>1, <3>0, Zenon
    <3>2. Append(<<>>, c) = <<c>> /\ <<c>> # <<>>
      OBVIOUS
    <3>3. Adds(n, c) = <<c>>
      BY <2>5 DEF Adds, Written
    <3>4. Puts(n, k, c)
      BY <2>1, <2>4, <2>5, <3>1, <3>2, <3>3 DEF Puts, Holds, Text
    <3> QED BY <2>2, <2>3, <3>4, PlainAgain
  <2>6. CASE c # "ESC"
    <3>1. /\ k \in Norms /\ k.mode = n.mode /\ k.escape = n.escape /\ k.cr = IsCr(c)
          /\ k.out = n.out \o Written(c, n.cr)
      BY <2>2, <2>6, PlainIs
    <3>2. k.out = n.out \o Adds(n, c)
      BY <1>2, <3>1 DEF Adds
    <3>3. k.out \o <<>> = k.out
      BY <3>1, NormTypes, Joined
    <3>4. Puts(n, k, c)
      BY <1>2, <2>1, <2>4, <3>1, <3>2, <3>3 DEF Puts, Holds, Text
    <3> QED BY <2>2, <2>3, <3>4, PlainAgain
  <2> QED BY <2>5, <2>6
<1> QED BY <1>1, <1>2

(* Text is normalized character by character.                              *)
Held == {n \in Norms : Holds(n)}
NormStep == [p \in Held \X P!Characters |-> P!NormalizeChar(p[1], p[2])]

LEMMA NormStepIs == IsStep(NormStep, Held, P!Characters)
<1>1. \A n \in Held, c \in P!Characters : P!NormalizeChar(n, c) \in Held
  BY OneCharacter DEF Held, Puts
<1> QED BY <1>1 DEF IsStep, NormStep

LEMMA NormalizeIs ==
  ASSUME NEW n \in Held, NEW s \in Seq(P!Characters)
  PROVE  P!Normalize(n, s) = Value(NormStep, n, s)
<1> DEFINE Kept(it) ==
      it = [u \in SUBSET DOMAIN s |->
             IF u = {} THEN n ELSE P!NormalizeChar(it[u \ {Max(u)}], s[Max(u)])]
<1> DEFINE run == CHOOSE it : Kept(it)
<1>1. P!Normalize(n, s) = run[DOMAIN s]
  BY DEF P!Normalize, P!FoldLeft, P!MapThenFoldSet, P!Max, FoldLeft, MapThenFoldSet, Max
<1>3. PICK g : IsTypedRun(g, NormStep, Held, P!Characters, n, s)
  BY NormStepIs, RunFacts
<1>2. \A k \in Held, c \in P!Characters : NormStep[<<k, c>>] = P!NormalizeChar(k, c)
  BY DEF NormStep
<1>4. \A u \in SUBSET DOMAIN s :
        g[u] = IF u = {} THEN n ELSE P!NormalizeChar(g[u \ {Max(u)}], s[Max(u)])
  BY <1>2, <1>3 DEF IsTypedRun
<1>5. Kept(g)
  <2>1. g = [u \in SUBSET DOMAIN s |-> g[u]]
    BY <1>3 DEF IsTypedRun
  <2> QED BY <1>4, <2>1, Zenon
<1>6. Kept(run)
  BY <1>5, Zenon
<1> HIDE DEF run
<1>7. IsRunIn(run, NormStep, Held, n, s)
  <2>1. /\ run = [u \in SUBSET DOMAIN s |-> run[u]]
        /\ run[{}] = n
    BY <1>6
  <2>2. ASSUME NEW u \in SUBSET DOMAIN s, u # {}, run[u \ {Max(u)}] \in Held
        PROVE  run[u] = NormStep[<<run[u \ {Max(u)}], s[Max(u)]>>]
    <3>1. s[Max(u)] \in P!Characters
      BY <1>3, <2>2 DEF IsTypedRun
    <3>2. run[u] = P!NormalizeChar(run[u \ {Max(u)}], s[Max(u)])
      BY <1>6, <2>2
    <3> QED BY <1>2, <2>2, <3>1, <3>2
  <2> QED BY <2>1, <2>2 DEF IsRunIn
<1>8. run[DOMAIN s] = Value(NormStep, n, s)
  BY <1>7, NormStepIs, RunIn
<1> QED BY <1>1, <1>8

LEMMA NormalizeEmpty ==
  ASSUME NEW n \in Held
  PROVE  P!Normalize(n, <<>>) = n
<1> DEFINE s == <<>>
<1>1. s \in Seq(P!Characters)
  OBVIOUS
<1>2. Value(NormStep, n, s) = n
  BY NormStepIs, ValueEmpty
<1> HIDE DEF s
<1>3. P!Normalize(n, s) = n
  BY <1>1, <1>2, NormalizeIs
<1> QED BY <1>3 DEF s

LEMMA NormalizeAppend ==
  ASSUME NEW n \in Held, NEW s \in Seq(P!Characters), NEW c \in P!Characters
  PROVE  /\ P!Normalize(n, s) \in Held
         /\ P!Normalize(n, Append(s, c)) = P!NormalizeChar(P!Normalize(n, s), c)
<1> DEFINE t == Append(s, c)  k == Value(NormStep, n, s)
<1>1. k \in Held /\ Value(NormStep, n, t) = NormStep[<<k, c>>]
  BY NormStepIs, ValueAppend
<1>2. t \in Seq(P!Characters)
  OBVIOUS
<1> HIDE DEF t, k
<1>3. NormStep[<<k, c>>] = P!NormalizeChar(k, c)
  BY <1>1 DEF NormStep
<1>4. P!Normalize(n, s) = k /\ P!Normalize(n, t) = Value(NormStep, n, t)
  BY <1>2, NormalizeIs DEF k
<1> QED BY <1>1, <1>3, <1>4 DEF t

LEMMA NormalizeTyped ==
  ASSUME NEW n \in Held, NEW s \in Seq(P!Characters)
  PROVE  P!Normalize(n, s) \in Held
BY NormalizeAppend, "a" \in P!Characters DEF P!Characters, P!Bytes

LEMMA NormalizeConcat ==
  ASSUME NEW n \in Held, NEW s \in Seq(P!Characters), NEW t \in Seq(P!Characters)
  PROVE  P!Normalize(n, s \o t) = P!Normalize(P!Normalize(n, s), t)
<1> DEFINE u == s \o t  k == P!Normalize(n, s)
<1>1. u \in Seq(P!Characters)
  OBVIOUS
<1>2. k \in Held
  BY NormalizeTyped
<1>3. k = Value(NormStep, n, s)
  BY NormalizeIs
<1>4. Value(NormStep, n, u) = Value(NormStep, Value(NormStep, n, s), t)
  BY NormStepIs, ValueConcat
<1> HIDE DEF u, k
<1>5. P!Normalize(n, u) = Value(NormStep, n, u) /\ P!Normalize(k, t) = Value(NormStep, k, t)
  BY <1>1, <1>2, NormalizeIs
<1>6. P!Normalize(n, u) = P!Normalize(k, t)
  BY <1>3, <1>4, <1>5
<1> QED BY <1>6 DEF u, k

(* What was put out before changes nothing.                                *)
LEMMA NormalizeLater ==
  ASSUME NEW n \in Held, NEW p \in Seq(P!Characters), NEW t \in Seq(P!Characters)
  PROVE  Later(p, n) \in Held /\ P!Normalize(Later(p, n), t) = Later(p, P!Normalize(n, t))
<1> DEFINE m == Later(p, n)
<1>1. m \in Held
  BY LaterIs DEF Held, Holds
<1> DEFINE G == {s \in Seq(P!Characters) : P!Normalize(m, s) = Later(p, P!Normalize(n, s))}
<1>2. <<>> \in G
  <2>1. P!Normalize(n, <<>>) = n
    BY NormalizeEmpty
  <2>2. P!Normalize(m, <<>>) = m
    BY <1>1, NormalizeEmpty
  <2>3. <<>> \in Seq(P!Characters)
    OBVIOUS
  <2> QED BY <2>1, <2>2, <2>3
<1> HIDE DEF m
<1>3. ASSUME NEW s \in Seq(P!Characters), NEW c \in P!Characters, s \in G PROVE Append(s, c) \in G
  <2> DEFINE k == P!Normalize(n, s)  j == P!Normalize(m, s)
  <2>1. k \in Held /\ P!Normalize(n, Append(s, c)) = P!NormalizeChar(k, c)
    BY NormalizeAppend
  <2>2. j \in Held /\ P!Normalize(m, Append(s, c)) = P!NormalizeChar(j, c)
    BY <1>1, NormalizeAppend
  <2>3. j = Later(p, k)
    BY <1>3
  <2> HIDE DEF k, j
  <2>4. P!NormalizeChar(Later(p, k), c) = Later(p, P!NormalizeChar(k, c))
    BY <2>1, OneCharacter DEF Held
  <2>5. Append(s, c) \in Seq(P!Characters)
    OBVIOUS
  <2> QED BY <2>1, <2>2, <2>3, <2>4, <2>5
<1> HIDE DEF G
<1>4. \A s \in Seq(P!Characters) : s \in G
  BY <1>2, <1>3, SeqInduction
<1> QED BY <1>1, <1>4 DEF G, m

(* A line feed that gets its carriage return is the two of them.           *)
LEMMA FeedAfterReturn ==
  ASSUME NEW n \in Norms, n.mode = "normal", ~n.cr
  PROVE  P!NormalizeChar(P!NormalizeChar(n, "CR"), "LF") = P!NormalizeChar(n, "LF")
<1> DEFINE i == P!Plain(n, "CR")  j == P!Plain(i, "LF")  k == P!Plain(n, "LF")
<1>1. /\ "CR" \in P!Characters /\ "LF" \in P!Characters /\ "CR" # "ESC" /\ "LF" # "ESC"
      /\ IsCr("CR") = TRUE /\ IsCr("LF") = FALSE
      /\ Written("CR", n.cr) = <<"CR">> /\ Written("LF", n.cr) = <<"CR", "LF">>
      /\ Written("LF", TRUE) = <<"LF">>
  BY DEF P!Characters, P!Bytes, IsCr, Written
<1>2. /\ i \in Norms /\ i.mode = n.mode /\ i.escape = n.escape /\ i.cr = IsCr("CR")
      /\ i.out = n.out \o Written("CR", n.cr)
  BY <1>1, PlainIs
<1>3. /\ k \in Norms /\ k.mode = n.mode /\ k.escape = n.escape /\ k.cr = IsCr("LF")
      /\ k.out = n.out \o Written("LF", n.cr)
  BY <1>1, PlainIs
<1>4. P!NormalizeChar(n, "CR") = i /\ P!NormalizeChar(n, "LF") = k /\ P!NormalizeChar(i, "LF") = j
  BY <1>2 DEF P!NormalizeChar
<1> HIDE DEF i, k
<1>5. /\ j \in Norms /\ j.mode = i.mode /\ j.escape = i.escape /\ j.cr = IsCr("LF")
      /\ j.out = i.out \o Written("LF", i.cr)
  BY <1>1, <1>2, PlainIs
<1> HIDE DEF j
<1>6. (n.out \o <<"CR">>) \o <<"LF">> = n.out \o <<"CR", "LF">>
  <2> DEFINE o == n.out
  <2>1. o \in Seq(P!Characters)
    BY NormTypes
  <2> HIDE DEF o
  <2>2. (o \o <<"CR">>) \o <<"LF">> = o \o <<"CR", "LF">>
    BY <1>1, <2>1
  <2> QED BY <2>2 DEF o
<1>7. j.out = k.out
  <2>1. i.out = n.out \o <<"CR">> /\ Written("LF", i.cr) = <<"LF">>
    BY <1>1, <1>2
  <2>2. k.out = n.out \o <<"CR", "LF">>
    BY <1>1, <1>3
  <2> QED BY <1>5, <1>6, <2>1, <2>2
<1>8. j.mode = k.mode /\ j.escape = k.escape /\ j.cr = k.cr
  BY <1>2, <1>3, <1>5
<1>9. j = k
  BY <1>3, <1>5, <1>7, <1>8, NormEqual
<1> QED BY <1>4, <1>9

(* Normalizing what a normalizer holds gives the same normalizer, and only *)
(* carriage returns come to the text.                                      *)
LEMMA NormalizeAgain ==
  ASSUME NEW t \in Seq(P!Characters)
  PROVE  /\ Text(P!Normalize(P!Fresh, t)) \in Seq(P!Characters)
         /\ P!Normalize(P!Fresh, Text(P!Normalize(P!Fresh, t))) = P!Normalize(P!Fresh, t)
         /\ Pick(P!Characters, P!Characters \ {"CR"}, Text(P!Normalize(P!Fresh, t)))
              = Pick(P!Characters, P!Characters \ {"CR"}, t)
<1> DEFINE N(s) == P!Normalize(P!Fresh, s)  Rid(s) == Pick(P!Characters, P!Characters \ {"CR"}, s)
           G == {s \in Seq(P!Characters) : Text(N(s)) \in Seq(P!Characters) /\ N(Text(N(s))) = N(s)
                                         /\ Rid(Text(N(s))) = Rid(s)}
<1>1. P!Fresh \in Held /\ Text(P!Fresh) = <<>> /\ "CR" \in P!Characters /\ "LF" \in P!Characters
  BY FreshIsNorm DEF Held, P!Characters, P!Bytes
<1>2. <<>> \in G
  <2>1. N(<<>>) = P!Fresh /\ <<>> \in Seq(P!Characters)
    BY <1>1, NormalizeEmpty
  <2> QED BY <1>1, <2>1
<1>3. ASSUME NEW s \in Seq(P!Characters), NEW c \in P!Characters, s \in G PROVE Append(s, c) \in G
  <2> DEFINE k == N(s)  j == P!NormalizeChar(k, c)  x == Text(k)
  <2>1. k \in Held /\ N(Append(s, c)) = j
    BY <1>1, NormalizeAppend
  <2>2. x \in Seq(P!Characters) /\ N(x) = k /\ Rid(x) = Rid(s)
    BY <1>3
  <2>a. Rid(Append(s, c)) = IF c # "CR" THEN Append(Rid(s), c) ELSE Rid(s)
    BY PickAppend
  <2>b. Rid(Append(x, c)) = IF c # "CR" THEN Append(Rid(x), c) ELSE Rid(x)
    BY <2>2, PickAppend
  <2>e. Append(s, c) \in Seq(P!Characters)
    OBVIOUS
  <2> HIDE DEF k, x, Rid
  <2>3. Puts(k, j, c)
    BY <2>1, OneCharacter DEF Held
  <2> HIDE DEF j
  <2>4. CASE Adds(k, c) = <<c>>
    <3>1. Text(j) = Append(x, c) /\ Append(x, c) \in Seq(P!Characters)
      BY <2>2, <2>3, <2>4 DEF Puts, x
    <3>2. N(Append(x, c)) = P!NormalizeChar(N(x), c)
      BY <1>1, <2>2, NormalizeAppend
    <3>3. N(Text(j)) = j
      BY <2>2, <3>1, <3>2 DEF j
    <3>4. Rid(Append(x, c)) = Rid(Append(s, c))
      BY <2>2, <2>a, <2>b
    <3> DEFINE u == Append(s, c)  v == Append(x, c)
    <3>5. u \in Seq(P!Characters) /\ N(u) = j /\ v \in Seq(P!Characters) /\ Text(j) = v /\ Rid(v) = Rid(u)
      BY <2>1, <2>e, <3>1, <3>4
    <3> HIDE DEF u, v
    <3>6. u \in G
      BY <3>3, <3>5
    <3> QED BY <3>6 DEF u
  <2>5. CASE Adds(k, c) # <<c>>
    <3>1. c = "LF" /\ k.mode = "normal" /\ ~k.cr /\ Adds(k, c) = <<"CR", "LF">>
      BY <2>5 DEF Adds, Written
    <3>2. Text(j) = x \o <<"CR", "LF">>
      BY <2>3, <3>1 DEF Puts, x
    <3> DEFINE i == P!NormalizeChar(k, "CR")  y == Append(x, "CR")  z == Append(y, "LF")
    <3>3. x \o <<"CR", "LF">> = z /\ y \in Seq(P!Characters) /\ z \in Seq(P!Characters)
      BY <1>1, <2>2
    <3>4. N(y) = i /\ i \in Held
      <4>1. N(y) = P!NormalizeChar(N(x), "CR")
        BY <1>1, <2>2, NormalizeAppend
      <4>2. N(y) = i
        BY <2>2, <4>1
      <4>3. N(y) \in Held
        BY <1>1, <3>3, NormalizeTyped
      <4> QED BY <4>2, <4>3
    <3>5. N(z) = P!NormalizeChar(N(y), "LF")
      BY <1>1, <3>3, NormalizeAppend
    <3>6. P!NormalizeChar(i, "LF") = P!NormalizeChar(k, "LF")
      BY <2>1, <3>1, FeedAfterReturn DEF Held
    <3>7. Rid(z) = Append(Rid(y), "LF") /\ Rid(y) = Rid(x)
      <4>1. Rid(y) = Rid(x)
        BY <1>1, <2>2, PickAppend DEF Rid
      <4>0. "LF" \in P!Characters \ {"CR"}
        BY <1>1
      <4>2. Rid(z) = Append(Rid(y), "LF")
        <5> DEFINE C0 == P!Characters  W == C0 \ {"CR"}  lf == "LF"
        <5>1. y \in Seq(C0) /\ lf \in C0 /\ lf \in W
          BY <1>1, <3>3, <4>0
        <5> HIDE DEF y, C0, W, lf
        <5>2. Pick(C0, W, Append(y, lf)) = Append(Pick(C0, W, y), lf)
          BY <5>1, PickAppend
        <5> QED BY <5>2 DEF C0, W, lf, Rid
      <4> QED BY <4>1, <4>2
    <3> HIDE DEF i, y
    <3>8. Text(j) = z /\ N(z) = j
      BY <3>1, <3>2, <3>3, <3>4, <3>5, <3>6 DEF j
    <3>9. Rid(z) = Rid(Append(s, c))
      BY <2>2, <2>a, <3>1, <3>7
    <3> HIDE DEF z
    <3> QED BY <2>1, <2>e, <3>3, <3>8, <3>9
  <2> QED BY <2>4, <2>5
<1> HIDE DEF G
<1>4. \A s \in Seq(P!Characters) : s \in G
  BY <1>2, <1>3, SeqInduction
<1> QED BY <1>4 DEF G

(* Taking the carriage returns out of a text.                              *)
Ordinary == P!Characters \ {"CR"}

LEMMA WithoutCrIs ==
  ASSUME NEW s \in Seq(P!Characters)
  PROVE  P!WithoutCr(s) = Pick(P!Characters, Ordinary, s)
<1> DEFINE Kept(it) ==
      it = [n \in 0 .. Len(s) |->
             IF n = 0 THEN <<>> ELSE IF s[n] = "CR" THEN it[n - 1] ELSE Append(it[n - 1], s[n])]
           step == Keep(P!Characters, Ordinary)  base == <<>>
<1> DEFINE run == CHOOSE it : Kept(it)
<1>1. P!WithoutCr(s) = run[Len(s)]
  BY DEF P!WithoutCr
<1>2. base \in Seq(P!Characters) /\ IsStep(step, Seq(P!Characters), P!Characters)
  BY KeepIsStep
<1>3. \A t \in Seq(P!Characters), c \in P!Characters :
        step[<<t, c>>] = IF c = "CR" THEN t ELSE Append(t, c)
  BY DEF Keep, Ordinary
<1>c. base = <<>>
  OBVIOUS
<1> HIDE DEF step, base
<1>4. PICK h : IsTypedRecursion(h, step, Seq(P!Characters), P!Characters, base, s)
  BY <1>2, RecursionFacts
<1>5. Kept(h)
  <2>1. h = [n \in 0 .. Len(s) |-> h[n]]
    BY <1>4 DEF IsTypedRecursion
  <2>2. ASSUME NEW n \in 0 .. Len(s)
        PROVE  h[n] = IF n = 0 THEN <<>> ELSE IF s[n] = "CR" THEN h[n - 1] ELSE Append(h[n - 1], s[n])
    <3>1. CASE n = 0
      BY <1>4, <1>c, <3>1 DEF IsTypedRecursion
    <3>2. CASE n # 0
      <4>1. n \in 1 .. Len(s)
        BY <3>2
      <4>2. h[n - 1] \in Seq(P!Characters) /\ s[n] \in P!Characters /\ h[n] = step[<<h[n - 1], s[n]>>]
        BY <1>4, <4>1 DEF IsTypedRecursion
      <4> QED BY <1>3, <3>2, <4>2
    <3> QED BY <3>1, <3>2
  <2> QED BY <2>1, <2>2, Zenon
<1>6. Kept(run)
  BY <1>5, Zenon
<1> HIDE DEF run
<1>7. IsRecursion(run, step, Seq(P!Characters), base, s)
  <2>1. run[0] = base
    BY <1>6, <1>c
  <2>2. ASSUME NEW n \in 1 .. Len(s), run[n - 1] \in Seq(P!Characters)
        PROVE  run[n] = step[<<run[n - 1], s[n]>>]
    <3>1. s[n] \in P!Characters /\ n \in 0 .. Len(s) /\ n # 0
      OBVIOUS
    <3>2. run[n] = IF s[n] = "CR" THEN run[n - 1] ELSE Append(run[n - 1], s[n])
      BY <1>6, <3>1
    <3> QED BY <1>3, <2>2, <3>1, <3>2
  <2> QED BY <2>1, <2>2 DEF IsRecursion
<1>8. run[Len(s)] = Value(step, base, s)
  BY <1>2, <1>7, RecursionIs
<1> QED BY <1>1, <1>8, <1>c DEF Pick, step

(* Bytes are decoded one by one.                                           *)
Code(text, rest) == [text |-> text, carry |-> rest]
Rests == {<<>>, <<"L">>}
Codes == [text : Seq(P!Characters), carry : Rests]

Decoded(rest, byte) ==
  CASE byte = "L" -> IF rest = <<>> THEN <<>> ELSE <<"?">>
    [] byte = "C" -> IF rest = <<>> THEN <<"?">> ELSE <<"LC">>
    [] OTHER -> IF rest = <<>> THEN <<byte>> ELSE <<"?", byte>>
Rest(byte) == IF byte = "L" THEN <<"L">> ELSE <<>>

LEMMA CodeIs ==
  ASSUME NEW text, NEW rest
  PROVE  /\ Code(text, rest).text = text /\ Code(text, rest).carry = rest
         /\ Code(text, rest) \in Codes <=> text \in Seq(P!Characters) /\ rest \in Rests
BY DEF Code, Codes

LEMMA CodeOf ==
  ASSUME NEW d \in Codes
  PROVE  d.text \in Seq(P!Characters) /\ d.carry \in Rests /\ d = Code(d.text, d.carry)
BY DEF Codes, Code

LEMMA DecodedIs ==
  ASSUME NEW rest \in Rests, NEW byte \in P!Bytes
  PROVE  Decoded(rest, byte) \in Seq(P!Characters) /\ Rest(byte) \in Rests
<1>1. "?" \in P!Characters /\ "LC" \in P!Characters /\ (byte # "L" /\ byte # "C" => byte \in P!Characters)
  BY DEF P!Characters
<1>2. Rest(byte) \in Rests
  BY DEF Rest, Rests
<1>3. Decoded(rest, byte) \in Seq(P!Characters)
  <2>1. CASE byte = "L"
    BY <1>1, <2>1 DEF Decoded
  <2>2. CASE byte = "C"
    BY <1>1, <2>2 DEF Decoded
  <2>3. CASE byte # "L" /\ byte # "C"
    <3>1. Decoded(rest, byte) = IF rest = <<>> THEN <<byte>> ELSE <<"?", byte>>
      BY <2>3 DEF Decoded
    <3>2. <<byte>> \in Seq(P!Characters) /\ <<"?", byte>> \in Seq(P!Characters)
      BY <1>1, <2>3
    <3> QED BY <3>1, <3>2
  <2> QED BY <2>1, <2>2, <2>3
<1> QED BY <1>2, <1>3

LEMMA DecodeByteIs ==
  ASSUME NEW text \in Seq(P!Characters), NEW rest \in Rests, NEW byte \in P!Bytes
  PROVE  /\ P!DecodeByte(Code(text, rest), byte) = Code(text \o Decoded(rest, byte), Rest(byte))
         /\ P!DecodeByte(Code(text, rest), byte) \in Codes
<1> DEFINE d == Code(text, rest)
<1>1. d.text = text /\ d.carry = rest
  BY CodeIs
<1>2. "?" \in P!Characters /\ "LC" \in P!Characters /\ (byte # "L" /\ byte # "C" => byte \in P!Characters)
  BY DEF P!Characters
<1>3. /\ text \o <<>> = text
      /\ text \o <<"?">> = Append(text, "?") /\ text \o <<"LC">> = Append(text, "LC")
  BY <1>2
<1>4. byte # "L" /\ byte # "C" =>
        /\ text \o <<byte>> = Append(text, byte)
        /\ text \o <<"?", byte>> = Append(Append(text, "?"), byte)
  BY <1>2
<1> HIDE DEF d
<1>5. P!DecodeByte(d, byte) = Code(text \o Decoded(rest, byte), Rest(byte))
  <2>1. CASE byte = "L"
    BY <1>1, <1>3, <2>1 DEF P!DecodeByte, Decoded, Rest, Code
  <2>2. CASE byte = "C"
    BY <1>1, <1>3, <2>2 DEF P!DecodeByte, Decoded, Rest, Code
  <2>3. CASE byte # "L" /\ byte # "C"
    <3>1. CASE rest = <<>>
      BY <1>1, <1>4, <2>3, <3>1 DEF P!DecodeByte, Decoded, Rest, Code
    <3>2. CASE rest # <<>>
      BY <1>1, <1>4, <2>3, <3>2 DEF P!DecodeByte, Decoded, Rest, Code
    <3> QED BY <3>1, <3>2
  <2> QED BY <2>1, <2>2, <2>3
<1>6. text \o Decoded(rest, byte) \in Seq(P!Characters) /\ Rest(byte) \in Rests
  BY DecodedIs
<1> DEFINE x == text \o Decoded(rest, byte)  z == Rest(byte)
<1> HIDE DEF x, z
<1>7. Code(x, z) \in Codes
  BY <1>6, CodeIs DEF x, z
<1>8. P!DecodeByte(d, byte) = Code(x, z)
  BY <1>5 DEF x, z
<1>9. P!DecodeByte(d, byte) \in Codes
  BY <1>7, <1>8
<1> QED BY <1>5, <1>9 DEF d

DecodeStep == [p \in Codes \X P!Bytes |-> P!DecodeByte(p[1], p[2])]
Nothing == Code(<<>>, <<>>)

LEMMA DecodeStepIs ==
  /\ IsStep(DecodeStep, Codes, P!Bytes) /\ Nothing \in Codes
  /\ \A d \in Codes, byte \in P!Bytes : DecodeStep[<<d, byte>>] = P!DecodeByte(d, byte)
<1>1. \A d \in Codes, byte \in P!Bytes : P!DecodeByte(d, byte) \in Codes
  BY CodeOf, DecodeByteIs
<1>2. <<>> \in Seq(P!Characters) /\ <<>> \in Rests
  BY DEF Rests
<1> QED BY <1>1, <1>2, CodeIs DEF IsStep, DecodeStep, Nothing

LEMMA DecodeIs ==
  ASSUME NEW s \in Seq(P!Bytes)
  PROVE  P!Decode(s) = Value(DecodeStep, Nothing, s)
<1> DEFINE Kept(it) ==
      it = [n \in 0 .. Len(s) |->
             IF n = 0 THEN [text |-> <<>>, carry |-> <<>>] ELSE P!DecodeByte(it[n - 1], s[n])]
<1> DEFINE run == CHOOSE it : Kept(it)
<1>1. P!Decode(s) = run[Len(s)]
  BY DEF P!Decode
<1>2. Nothing = [text |-> <<>>, carry |-> <<>>]
  BY DEF Nothing, Code
<1>4. PICK h : IsTypedRecursion(h, DecodeStep, Codes, P!Bytes, Nothing, s)
  BY DecodeStepIs, RecursionFacts
<1>5. Kept(h)
  <2>1. h = [n \in 0 .. Len(s) |-> h[n]]
    BY <1>4 DEF IsTypedRecursion
  <2>2. ASSUME NEW n \in 0 .. Len(s)
        PROVE  h[n] = IF n = 0 THEN [text |-> <<>>, carry |-> <<>>] ELSE P!DecodeByte(h[n - 1], s[n])
    <3>1. CASE n = 0
      BY <1>2, <1>4, <3>1 DEF IsTypedRecursion
    <3>2. CASE n # 0
      <4>1. n \in 1 .. Len(s)
        BY <3>2
      <4>2. h[n - 1] \in Codes /\ s[n] \in P!Bytes /\ h[n] = DecodeStep[<<h[n - 1], s[n]>>]
        BY <1>4, <4>1 DEF IsTypedRecursion
      <4>3. h[n] = P!DecodeByte(h[n - 1], s[n])
        BY <4>2, DecodeStepIs
      <4> QED BY <3>2, <4>3
    <3> QED BY <3>1, <3>2
  <2> QED BY <2>1, <2>2, Zenon
<1>6. Kept(run)
  BY <1>5, Zenon
<1> HIDE DEF run
<1>7. IsRecursion(run, DecodeStep, Codes, Nothing, s)
  <2>1. run[0] = Nothing
    BY <1>2, <1>6
  <2>2. ASSUME NEW n \in 1 .. Len(s), run[n - 1] \in Codes
        PROVE  run[n] = DecodeStep[<<run[n - 1], s[n]>>]
    <3>1. s[n] \in P!Bytes /\ n \in 0 .. Len(s) /\ n # 0
      OBVIOUS
    <3>2. run[n] = P!DecodeByte(run[n - 1], s[n])
      BY <1>6, <3>1
    <3> QED BY <2>2, <3>1, <3>2, DecodeStepIs
  <2> QED BY <2>1, <2>2 DEF IsRecursion
<1>8. run[Len(s)] = Value(DecodeStep, Nothing, s)
  BY <1>7, DecodeStepIs, RecursionIs
<1> QED BY <1>1, <1>8

LEMMA DecodeEmpty == P!Decode(<<>>) = Nothing
<1> DEFINE s == <<>>
<1>1. s \in Seq(P!Bytes) /\ Value(DecodeStep, Nothing, s) = Nothing
  BY DecodeStepIs, ValueEmpty
<1> HIDE DEF s
<1>2. P!Decode(s) = Nothing
  BY <1>1, DecodeIs
<1> QED BY <1>2 DEF s

(* Text before what is decoded comes before what it gives.                 *)
After(p, d) == Code(p \o d.text, d.carry)

LEMMA AfterByte ==
  ASSUME NEW p \in Seq(P!Characters), NEW d \in Codes, NEW byte \in P!Bytes
  PROVE  After(p, d) \in Codes /\ P!DecodeByte(After(p, d), byte) = After(p, P!DecodeByte(d, byte))
<1> DEFINE t == d.text  r == d.carry  x == Decoded(r, byte)  z == Rest(byte)
<1>1. t \in Seq(P!Characters) /\ r \in Rests /\ d = Code(t, r) /\ After(p, d) = Code(p \o t, r)
  BY CodeOf DEF After
<1> HIDE DEF t, r
<1>2. x \in Seq(P!Characters)
  BY <1>1, DecodedIs
<1>3. P!DecodeByte(Code(t, r), byte) = Code(t \o x, z)
  BY <1>1, DecodeByteIs
<1> DEFINE q == p \o t
<1>4. q \in Seq(P!Characters)
  BY <1>1
<1> HIDE DEF q
<1>5. P!DecodeByte(Code(q, r), byte) = Code(q \o x, z) /\ Code(q, r) \in Codes
  BY <1>1, <1>4, DecodeByteIs, CodeIs
<1> HIDE DEF x, z
<1>6. q \o x = p \o (t \o x)
  BY <1>1, <1>2, ConcatAssociative DEF q
<1> DEFINE e == Code(t \o x, z)
<1>7. After(p, e) = Code(p \o (t \o x), z)
  <2>1. e.text = t \o x /\ e.carry = z
    BY CodeIs
  <2> HIDE DEF e
  <2> QED BY <2>1 DEF After
<1>8. After(p, d) = Code(q, r) /\ P!DecodeByte(d, byte) = e
  BY <1>1, <1>3 DEF q
<1> HIDE DEF e
<1> QED BY <1>5, <1>6, <1>7, <1>8

LEMMA DecodeAfter ==
  ASSUME NEW p \in Seq(P!Characters), NEW d \in Codes, NEW t \in Seq(P!Bytes)
  PROVE  /\ Value(DecodeStep, d, t) \in Codes
         /\ Value(DecodeStep, After(p, d), t) = After(p, Value(DecodeStep, d, t))
<1> DEFINE a == After(p, d)
           G == {s \in Seq(P!Bytes) : /\ Value(DecodeStep, d, s) \in Codes
                                    /\ Value(DecodeStep, a, s) = After(p, Value(DecodeStep, d, s))}
<1>0. a \in Codes
  BY AfterByte, "a" \in P!Bytes DEF P!Bytes
<1>a. a = After(p, d)
  OBVIOUS
<1> HIDE DEF a
<1>1. <<>> \in G
  <2>1. Value(DecodeStep, d, <<>>) = d
    BY DecodeStepIs, ValueEmpty
  <2>2. Value(DecodeStep, a, <<>>) = a
    BY <1>0, DecodeStepIs, ValueEmpty
  <2>3. <<>> \in Seq(P!Bytes)
    OBVIOUS
  <2> QED BY <1>a, <2>1, <2>2, <2>3
<1>2. ASSUME NEW s \in Seq(P!Bytes), NEW b \in P!Bytes, s \in G PROVE Append(s, b) \in G
  <2> DEFINE u == Append(s, b)  k == Value(DecodeStep, d, s)  m == P!DecodeByte(k, b)
  <2>1. k \in Codes /\ Value(DecodeStep, a, s) = After(p, k)
    BY <1>2
  <2>2. Value(DecodeStep, d, u) = DecodeStep[<<k, b>>]
    BY DecodeStepIs, ValueAppend
  <2>3. Value(DecodeStep, a, u) = DecodeStep[<<Value(DecodeStep, a, s), b>>]
    BY <1>0, DecodeStepIs, ValueAppend
  <2>4. u \in Seq(P!Bytes)
    OBVIOUS
  <2> HIDE DEF u, k
  <2>5. DecodeStep[<<k, b>>] = m /\ m \in Codes
    BY <2>1, DecodeStepIs DEF IsStep
  <2>6. After(p, k) \in Codes /\ P!DecodeByte(After(p, k), b) = After(p, m)
    BY <2>1, AfterByte
  <2>7. DecodeStep[<<After(p, k), b>>] = After(p, m)
    BY <2>6, DecodeStepIs
  <2> HIDE DEF m
  <2>8. Value(DecodeStep, d, u) = m /\ Value(DecodeStep, a, u) = After(p, m)
    BY <2>1, <2>2, <2>3, <2>5, <2>7
  <2>9. u \in G
    BY <2>4, <2>5, <2>8
  <2> QED BY <2>9 DEF u
<1> HIDE DEF G
<1>3. \A s \in Seq(P!Bytes) : s \in G
  BY <1>1, <1>2, SeqInduction
<1> QED BY <1>3, <1>a DEF G

LEMMA DecodeTyped ==
  ASSUME NEW s \in Seq(P!Bytes)
  PROVE  P!Decode(s) \in Codes
<1>1. <<>> \in Seq(P!Characters)
  OBVIOUS
<1> QED BY <1>1, DecodeIs, DecodeAfter, DecodeStepIs

(* A read goes on with what the last one has left.                         *)
LEMMA DecodeChunk ==
  ASSUME NEW s \in Seq(P!Bytes), NEW t \in Seq(P!Bytes)
  PROVE  /\ P!Decode(s).carry \o t \in Seq(P!Bytes)
         /\ P!Decode(s \o t) = After(P!Decode(s).text, P!Decode(P!Decode(s).carry \o t))
<1> DEFINE d == P!Decode(s)  p == d.text  r == d.carry  u == s \o t  v == r \o t
<1>1. d \in Codes /\ p \in Seq(P!Characters) /\ r \in Rests /\ d = Code(p, r)
  BY DecodeTyped, CodeOf
<1>d. d = P!Decode(s)
  OBVIOUS
<1> HIDE DEF d
<1> HIDE DEF p, r
<1>2. r \in Seq(P!Bytes)
  <2>1. "L" \in P!Bytes
    BY DEF P!Bytes
  <2>2. <<>> \in Seq(P!Bytes) /\ <<"L">> \in Seq(P!Bytes)
    BY <2>1
  <2> QED BY <1>1, <2>2 DEF Rests
<1>3. u \in Seq(P!Bytes) /\ v \in Seq(P!Bytes)
  BY <1>2
<1>4. P!Decode(r) = Code(<<>>, r)
  <2>1. CASE r = <<>>
    BY <2>1, DecodeEmpty DEF Nothing
  <2>2. CASE r = <<"L">>
    <3> DEFINE e == <<>>
    <3>1. e \in Seq(P!Bytes) /\ Append(e, "L") = <<"L">> /\ "L" \in P!Bytes /\ <<"L">> \in Seq(P!Bytes)
      BY DEF P!Bytes
    <3>2. Value(DecodeStep, Nothing, e) = Nothing
      BY DecodeStepIs, ValueEmpty
    <3> HIDE DEF e
    <3>3. Value(DecodeStep, Nothing, Append(e, "L")) = DecodeStep[<<Nothing, "L">>]
      BY <3>1, <3>2, DecodeStepIs, ValueAppend
    <3>4. DecodeStep[<<Nothing, "L">>] = P!DecodeByte(Nothing, "L")
      BY <3>1, DecodeStepIs
    <3>5. P!DecodeByte(Nothing, "L") = Code(<<>>, <<"L">>)
      BY CodeIs DEF P!DecodeByte, Nothing, Code
    <3> DEFINE w == <<"L">>
    <3>6. w \in Seq(P!Bytes) /\ Value(DecodeStep, Nothing, w) = Code(<<>>, <<"L">>)
      BY <3>1, <3>3, <3>4, <3>5
    <3> HIDE DEF w
    <3>7. P!Decode(w) = Code(<<>>, <<"L">>)
      BY <3>6, DecodeIs
    <3> QED BY <2>2, <3>7 DEF w
  <2> QED BY <1>1, <2>1, <2>2 DEF Rests
<1>5. d = After(p, P!Decode(r))
  <2>1. p \o <<>> = p
    BY <1>1
  <2> DEFINE n == Code(<<>>, r)
  <2>2. n.text = <<>> /\ n.carry = r
    BY CodeIs
  <2> HIDE DEF n
  <2>3. After(p, n) = Code(p \o <<>>, r)
    BY <2>2 DEF After
  <2> QED BY <1>1, <1>4, <2>1, <2>3 DEF n
<1>6. P!Decode(u) = Value(DecodeStep, Value(DecodeStep, Nothing, s), t)
  <2>1. P!Decode(u) = Value(DecodeStep, Nothing, u)
    BY <1>3, DecodeIs
  <2>2. Value(DecodeStep, Nothing, u) = Value(DecodeStep, Value(DecodeStep, Nothing, s), t)
    BY DecodeStepIs, ValueConcat
  <2> QED BY <2>1, <2>2
<1>7. P!Decode(v) = Value(DecodeStep, Value(DecodeStep, Nothing, r), t)
  <2>1. P!Decode(v) = Value(DecodeStep, Nothing, v)
    BY <1>3, DecodeIs
  <2>2. Value(DecodeStep, Nothing, v) = Value(DecodeStep, Value(DecodeStep, Nothing, r), t)
    BY <1>2, DecodeStepIs, ValueConcat
  <2> QED BY <2>1, <2>2
<1>8. P!Decode(r) = Value(DecodeStep, Nothing, r) /\ d = Value(DecodeStep, Nothing, s)
  BY <1>2, <1>d, DecodeIs
<1> DEFINE k == P!Decode(r)
<1>9. k \in Codes
  BY <1>2, DecodeTyped
<1> HIDE DEF k
<1>10. Value(DecodeStep, After(p, k), t) = After(p, Value(DecodeStep, k, t))
  BY <1>1, <1>9, DecodeAfter
<1> HIDE DEF u, v
<1>11. P!Decode(u) = After(p, P!Decode(v))
  BY <1>5, <1>6, <1>7, <1>8, <1>10 DEF k
<1> QED BY <1>3, <1>11 DEF u, v, p, r, d

(* What has been handed out, together.                                     *)
Texts == Seq(P!Characters)
JoinStep == [p \in Texts \X Texts |-> p[1] \o p[2]]
All(pieces) == Value(JoinStep, <<>>, pieces)

LEMMA JoinStepIs ==
  /\ IsStep(JoinStep, Texts, Texts)
  /\ \A s \in Texts, t \in Texts : JoinStep[<<s, t>>] = s \o t
<1>1. \A s \in Texts, t \in Texts : s \o t \in Texts
  BY DEF Texts
<1> QED BY <1>1 DEF IsStep, JoinStep

LEMMA AllIs ==
  /\ All(<<>>) = <<>>
  /\ \A s \in Seq(Texts), t \in Texts : All(s) \in Texts /\ All(Append(s, t)) = All(s) \o t
<1> DEFINE base == <<>>
<1>1. base \in Texts /\ base = <<>>
  BY DEF Texts
<1> HIDE DEF base
<1>2. Value(JoinStep, base, <<>>) = base
  BY <1>1, JoinStepIs, ValueEmpty
<1>3. ASSUME NEW s \in Seq(Texts), NEW t \in Texts
      PROVE  /\ Value(JoinStep, base, s) \in Texts
             /\ Value(JoinStep, base, Append(s, t)) = Value(JoinStep, base, s) \o t
  <2>1. /\ Value(JoinStep, base, s) \in Texts
        /\ Value(JoinStep, base, Append(s, t)) = JoinStep[<<Value(JoinStep, base, s), t>>]
    BY <1>1, JoinStepIs, ValueAppend
  <2> QED BY <2>1, JoinStepIs
<1> QED BY <1>1, <1>2, <1>3 DEF All

LEMMA FlushedIs ==
  ASSUME flushed \in Seq(Texts)
  PROVE  P!Flushed = All(flushed)
<1> DEFINE Kept(it) ==
      it = [n \in 0 .. Len(flushed) |-> IF n = 0 THEN <<>> ELSE it[n - 1] \o flushed[n]]
           base == <<>>
<1> DEFINE run == CHOOSE it : Kept(it)
<1>1. P!Flushed = run[Len(flushed)]
  BY DEF P!Flushed
<1>2. base \in Texts /\ base = <<>>
  BY DEF Texts
<1> HIDE DEF base
<1>4. PICK h : IsTypedRecursion(h, JoinStep, Texts, Texts, base, flushed)
  BY <1>2, JoinStepIs, RecursionFacts
<1>5. Kept(h)
  <2>1. h = [n \in 0 .. Len(flushed) |-> h[n]]
    BY <1>4 DEF IsTypedRecursion
  <2>2. ASSUME NEW n \in 0 .. Len(flushed)
        PROVE  h[n] = IF n = 0 THEN <<>> ELSE h[n - 1] \o flushed[n]
    <3>1. CASE n = 0
      BY <1>2, <1>4, <3>1 DEF IsTypedRecursion
    <3>2. CASE n # 0
      <4>1. n \in 1 .. Len(flushed)
        BY <3>2
      <4>2. h[n - 1] \in Texts /\ flushed[n] \in Texts /\ h[n] = JoinStep[<<h[n - 1], flushed[n]>>]
        BY <1>4, <4>1 DEF IsTypedRecursion
      <4>3. h[n] = h[n - 1] \o flushed[n]
        BY <4>2, JoinStepIs
      <4> QED BY <3>2, <4>3
    <3> QED BY <3>1, <3>2
  <2> QED BY <2>1, <2>2, Zenon
<1>6. Kept(run)
  BY <1>5, Zenon
<1> HIDE DEF run
<1>7. IsRecursion(run, JoinStep, Texts, base, flushed)
  <2>1. run[0] = base
    BY <1>2, <1>6
  <2>2. ASSUME NEW n \in 1 .. Len(flushed), run[n - 1] \in Texts
        PROVE  run[n] = JoinStep[<<run[n - 1], flushed[n]>>]
    <3>1. flushed[n] \in Texts /\ n \in 0 .. Len(flushed) /\ n # 0
      OBVIOUS
    <3>2. run[n] = run[n - 1] \o flushed[n]
      BY <1>6, <3>1
    <3> QED BY <2>2, <3>1, <3>2, JoinStepIs
  <2> QED BY <2>1, <2>2 DEF IsRecursion
<1>8. run[Len(flushed)] = Value(JoinStep, base, flushed)
  BY <1>2, <1>7, JoinStepIs, RecursionIs
<1> QED BY <1>1, <1>2, <1>8 DEF All

(* The ring buffer takes a piece character by character.                   *)
LoneCr(piece, n) == piece[n] = "CR" /\ ~(n < Len(piece) /\ piece[n + 1] = "LF")
PutStep(piece) ==
  [p \in Texts \X (1 .. Len(piece)) |->
     IF LoneCr(piece, p[2]) THEN Append(SubSeq(p[1], 1, P!LastLineFeed(p[1])), "CR")
     ELSE Append(p[1], piece[p[2]])]

LEMMA LastLineFeedIs ==
  ASSUME NEW text \in Texts
  PROVE  P!LastLineFeed(text) \in 0 .. Len(text)
<1> DEFINE lf == {n \in DOMAIN text : text[n] = "LF"}
<1>1. Len(text) \in Nat /\ DOMAIN text = 1 .. Len(text)
  BY DEF Texts
<1>2. CASE lf = {}
  BY <1>1, <1>2 DEF P!LastLineFeed
<1>3. CASE lf # {}
  <2>1. Max(lf) \in lf /\ \A y \in lf : Max(lf) >= y
    <3>1. lf \in SUBSET (1 .. Len(text))
      BY <1>1
    <3> HIDE DEF lf
    <3> QED BY <1>1, <1>3, <3>1, MaxOf
  <2>2. \E n \in lf : \A k \in lf : k <= n
    <3>1. \A y \in lf : y <= Max(lf)
      BY <1>1, <2>1
    <3> HIDE DEF lf
    <3> QED BY <2>1, <3>1
  <2>3. P!LastLineFeed(text) = CHOOSE n \in lf : \A k \in lf : k <= n
    BY <1>3 DEF P!LastLineFeed
  <2>4. P!LastLineFeed(text) \in lf
    BY <2>2, <2>3
  <2> QED BY <1>1, <2>4
<1> QED BY <1>2, <1>3

LEMMA PutStepIs ==
  ASSUME NEW piece \in Texts
  PROVE  IsStep(PutStep(piece), Texts, 1 .. Len(piece))
<1>1. ASSUME NEW d \in Texts, NEW n \in 1 .. Len(piece)
      PROVE  /\ Append(SubSeq(d, 1, P!LastLineFeed(d)), "CR") \in Texts
             /\ Append(d, piece[n]) \in Texts
  <2>1. P!LastLineFeed(d) \in 0 .. Len(d) /\ "CR" \in P!Characters
    BY LastLineFeedIs DEF P!Characters, P!Bytes
  <2>2. SubSeq(d, 1, P!LastLineFeed(d)) \in Texts
    BY <2>1 DEF Texts
  <2>3. piece[n] \in P!Characters
    BY DEF Texts
  <2> QED BY <2>1, <2>2, <2>3 DEF Texts
<1> QED BY <1>1 DEF IsStep, PutStep

LEMMA RingPushIs ==
  ASSUME NEW data \in Texts, NEW piece \in Texts
  PROVE  P!RingPush(data, piece) = Value(PutStep(piece), data, [n \in 1 .. Len(piece) |-> n])
<1> DEFINE s == [n \in 1 .. Len(piece) |-> n]
           Kept(it) ==
             it = [u \in SUBSET DOMAIN s |->
                    IF u = {} THEN data
                    ELSE IF piece[s[Max(u)]] = "CR"
                            /\ ~(s[Max(u)] < Len(piece) /\ piece[s[Max(u)] + 1] = "LF")
                    THEN Append(SubSeq(it[u \ {Max(u)}], 1, P!LastLineFeed(it[u \ {Max(u)}])), "CR")
                    ELSE Append(it[u \ {Max(u)}], piece[s[Max(u)]])]
           step == PutStep(piece)  places == 1 .. Len(piece)
<1> DEFINE run == CHOOSE it : Kept(it)
<1>1. P!RingPush(data, piece) = run[DOMAIN s]
  BY DEF P!RingPush, P!FoldLeft, P!MapThenFoldSet, P!Max, FoldLeft, MapThenFoldSet, Max
<1>2. IsStep(step, Texts, places) /\ s \in Seq(places)
  BY PutStepIs DEF Texts
<1>3. \A d \in Texts, n \in places :
        step[<<d, n>>] = IF piece[n] = "CR" /\ ~(n < Len(piece) /\ piece[n + 1] = "LF")
                         THEN Append(SubSeq(d, 1, P!LastLineFeed(d)), "CR")
                         ELSE Append(d, piece[n])
  BY DEF PutStep, LoneCr
<1> HIDE DEF s, step, places
<1>4. PICK g : IsTypedRun(g, step, Texts, places, data, s)
  BY <1>2, RunFacts
<1>5. \A u \in SUBSET DOMAIN s :
        g[u] = IF u = {} THEN data
               ELSE IF piece[s[Max(u)]] = "CR"
                       /\ ~(s[Max(u)] < Len(piece) /\ piece[s[Max(u)] + 1] = "LF")
               THEN Append(SubSeq(g[u \ {Max(u)}], 1, P!LastLineFeed(g[u \ {Max(u)}])), "CR")
               ELSE Append(g[u \ {Max(u)}], piece[s[Max(u)]])
  BY <1>3, <1>4 DEF IsTypedRun
<1>6. Kept(g)
  <2>1. g = [u \in SUBSET DOMAIN s |-> g[u]]
    BY <1>4 DEF IsTypedRun
  <2> QED BY <1>5, <2>1, Zenon
<1>7. Kept(run)
  BY <1>6, Zenon
<1> HIDE DEF run
<1>8. IsRunIn(run, step, Texts, data, s)
  <2>1. /\ run = [u \in SUBSET DOMAIN s |-> run[u]]
        /\ run[{}] = data
    BY <1>7
  <2>2. ASSUME NEW u \in SUBSET DOMAIN s, u # {}, run[u \ {Max(u)}] \in Texts
        PROVE  run[u] = step[<<run[u \ {Max(u)}], s[Max(u)]>>]
    <3>1. s[Max(u)] \in places
      BY <1>4, <2>2 DEF IsTypedRun
    <3>2. run[u] = IF piece[s[Max(u)]] = "CR"
                      /\ ~(s[Max(u)] < Len(piece) /\ piece[s[Max(u)] + 1] = "LF")
                   THEN Append(SubSeq(run[u \ {Max(u)}], 1, P!LastLineFeed(run[u \ {Max(u)}])), "CR")
                   ELSE Append(run[u \ {Max(u)}], piece[s[Max(u)]])
      BY <1>7, <2>2
    <3> QED BY <1>3, <2>2, <3>1, <3>2
  <2> QED BY <2>1, <2>2 DEF IsRunIn
<1>9. run[DOMAIN s] = Value(step, data, s)
  BY <1>2, <1>8, RunIn
<1> QED BY <1>1, <1>9 DEF s, step

(* A piece in which every carriage return belongs to a line feed is put    *)
(* after what there is; any piece leaves characters.                       *)
LEMMA RingPushKeeps ==
  ASSUME NEW data \in Texts, NEW piece \in Texts
  PROVE  /\ P!RingPush(data, piece) \in Texts
         /\ P!PairsOnly(piece) => P!RingPush(data, piece) = data \o piece
<1> DEFINE s == [n \in 1 .. Len(piece) |-> n]  step == PutStep(piece)  places == 1 .. Len(piece)
<1>1. P!RingPush(data, piece) = Value(step, data, s)
  BY RingPushIs
<1>2. /\ IsStep(step, Texts, places) /\ s \in Seq(places) /\ Len(s) = Len(piece) /\ Len(piece) \in Nat
      /\ \A n \in places : s[n] = n
  BY PutStepIs DEF Texts
<1>3. \A d \in Texts, n \in places :
        step[<<d, n>>] = IF LoneCr(piece, n) THEN Append(SubSeq(d, 1, P!LastLineFeed(d)), "CR")
                         ELSE Append(d, piece[n])
  BY DEF PutStep
<1>p. places = 1 .. Len(piece)
  OBVIOUS
<1> HIDE DEF s, step, places
<1>4. PICK h : IsTypedRecursion(h, step, Texts, places, data, s) /\ h[Len(s)] = Value(step, data, s)
  BY <1>2, RecursionFacts
<1>5. Value(step, data, s) \in Texts
  <2>1. CASE Len(piece) = 0
    BY <1>2, <1>4, <2>1 DEF IsTypedRecursion
  <2>2. CASE Len(piece) # 0
    <3> DEFINE n == Len(piece)
    <3>1. n \in places /\ n \in 1 .. Len(s)
      BY <1>2, <1>p, <2>2
    <3>2. h[n - 1] \in Texts /\ s[n] \in places /\ h[n] = step[<<h[n - 1], s[n]>>]
      BY <1>4, <3>1 DEF IsTypedRecursion
    <3>3. h[n] \in Texts
      BY <1>2, <3>2 DEF IsStep
    <3> QED BY <1>2, <1>4, <3>3
  <2> QED BY <2>1, <2>2
<1>6. ASSUME P!PairsOnly(piece) PROVE Value(step, data, s) = data \o piece
  <2> DEFINE K == {n \in Nat : n <= Len(piece) => h[n] = data \o SubSeq(piece, 1, n)}
  <2>1. 0 \in K
    <3>1. SubSeq(piece, 1, 0) = <<>> /\ data \o <<>> = data
      BY DEF Texts
    <3> QED BY <1>4, <3>1 DEF IsTypedRecursion
  <2>2. ASSUME NEW n \in Nat, n \in K PROVE n + 1 \in K
    <3> SUFFICES ASSUME n + 1 <= Len(piece) PROVE h[n + 1] = data \o SubSeq(piece, 1, n + 1)
      OBVIOUS
    <3> DEFINE k == n + 1  front == SubSeq(piece, 1, n)
    <3>1. k \in places /\ k \in 1 .. Len(s) /\ k - 1 = n /\ n <= Len(piece)
      BY <1>2, <1>p
    <3>2. h[n] = data \o front
      BY <2>2, <3>1
    <3>3. front \in Seq(P!Characters) /\ piece[k] \in P!Characters
      BY <1>2, <3>1 DEF Texts
    <3>4. SubSeq(piece, 1, k) = Append(front, piece[k])
      BY <1>2, <3>1 DEF Texts
    <3> HIDE DEF k, front
    <3>5. ~LoneCr(piece, k)
      <4>1. k \in DOMAIN piece
        BY <1>p, <3>1 DEF Texts
      <4> QED BY <1>6, <4>1 DEF LoneCr, P!PairsOnly
    <3>6. data \o front \in Texts
      BY <3>3 DEF Texts
    <3>7. h[k] = step[<<h[k - 1], s[k]>>]
      BY <1>4, <3>1 DEF IsTypedRecursion
    <3>8. h[k] = Append(data \o front, piece[k])
      BY <1>2, <1>3, <3>1, <3>2, <3>5, <3>6, <3>7
    <3>9. Append(data \o front, piece[k]) = data \o Append(front, piece[k])
      <4> DEFINE c == piece[k]  T == P!Characters
      <4>1. data \in Seq(T) /\ front \in Seq(T) /\ c \in T
        BY <3>3 DEF Texts
      <4> HIDE DEF c, T
      <4>2. \A s1, t1 \in Seq(T), e \in T : Append(s1 \o t1, e) = s1 \o Append(t1, e)
        OBVIOUS
      <4>3. Append(data \o front, c) = data \o Append(front, c)
        BY <4>1, <4>2
      <4> QED BY <4>3 DEF c
    <3> QED BY <3>4, <3>8, <3>9 DEF k
  <2> HIDE DEF K
  <2>3. \A n \in Nat : n \in K
    BY <2>1, <2>2, Induction
  <2>4. h[Len(piece)] = data \o SubSeq(piece, 1, Len(piece))
    BY <1>2, <2>3 DEF K
  <2>5. SubSeq(piece, 1, Len(piece)) = piece
    BY DEF Texts
  <2> QED BY <1>2, <1>4, <2>4, <2>5
<1> QED BY <1>1, <1>5, <1>6

(* What a stream gives: all of its text, with what is left of a character  *)
(* at its end.                                                             *)
WholeText(s) ==
  IF P!Decode(s).carry # <<>> THEN Append(P!Decode(s).text, "?") ELSE P!Decode(s).text

(* What Finish gives in the normalizer's place.                            *)
LastText(rest) == IF rest = <<>> THEN <<>> ELSE <<"?">>

LEMMA FinishIs ==
  ASSUME NEW n \in Held, NEW rest \in Rests
  PROVE  /\ LastText(rest) \in Texts /\ P!Normalize(n, LastText(rest)) \in Held
         /\ P!Finish(n, rest) \in Held
         /\ P!Finish(n, rest).out = Text(P!Normalize(n, LastText(rest)))
         /\ P!Finish(n, rest).escape = <<>> /\ P!Finish(n, rest).mode = "normal"
<1> DEFINE m == P!Normalize(n, LastText(rest))  o == Text(m)  e == <<>>  d == "normal"
           j == [m EXCEPT !.out = o]  k == [j EXCEPT !.escape = e]  f == [k EXCEPT !.mode = d]
<1>1. LastText(rest) \in Texts
  <2>1. "?" \in P!Characters
    BY DEF P!Characters
  <2> QED BY <2>1 DEF LastText, Texts
<1>2. m \in Held
  BY <1>1, NormalizeTyped DEF Texts
<1>3. m \in Norms
  BY <1>2 DEF Held
<1>4. P!Finish(n, rest) = [m EXCEPT !.out = o, !.escape = e, !.mode = d]
  BY DEF P!Finish, LastText, Text
<1> HIDE DEF m
<1>5. o \in Seq(P!Characters)
  BY <1>3, NormTypes DEF Text
<1>6. e \in Seq(P!Characters) /\ d \in P!Modes /\ e = <<>> /\ d = "normal"
  BY DEF P!Modes
<1> HIDE DEF o, e, d
<1>7. P!Finish(n, rest) = f
  BY <1>4
<1>8. j \in Norms /\ j.out = o
  <2>1. j \in Norms
    BY <1>3, <1>5, SetFields
  <2> QED BY <1>3, <2>1 DEF Norms
<1> HIDE DEF j
<1>9. k \in Norms /\ k.out = o /\ k.escape = e
  <2>1. k \in Norms
    BY <1>6, <1>8, SetFields
  <2>2. k.out = j.out /\ k.escape = e
    BY <1>8 DEF Norms
  <2> QED BY <1>8, <2>1, <2>2
<1> HIDE DEF k
<1>10. f \in Norms /\ f.out = o /\ f.escape = e /\ f.mode = d
  <2>1. f \in Norms
    BY <1>6, <1>9, SetFields
  <2>2. f.out = k.out /\ f.escape = k.escape /\ f.mode = d
    BY <1>9 DEF Norms
  <2> QED BY <1>9, <2>1, <2>2
<1> HIDE DEF f
<1>11. f \in Held
  BY <1>6, <1>10 DEF Held, Holds
<1>12. P!Finish(n, rest).out = o /\ P!Finish(n, rest) \in Held
       /\ P!Finish(n, rest).escape = <<>> /\ P!Finish(n, rest).mode = "normal"
  BY <1>6, <1>7, <1>10, <1>11
<1> QED BY <1>1, <1>2, <1>12 DEF o, m

LEMMA WholeIs ==
  ASSUME NEW s \in Seq(P!Bytes)
  PROVE  /\ WholeText(s) \in Texts
         /\ P!Whole(s) = Text(P!Normalize(P!Fresh, WholeText(s)))
         /\ P!Whole(s) = Text(P!Normalize(P!Normalize(P!Fresh, P!Decode(s).text), LastText(P!Decode(s).carry)))
<1> DEFINE d == P!Decode(s)  t == d.text  r == d.carry  n == P!Normalize(P!Fresh, t)
<1>1. t \in Texts /\ r \in Rests
  BY DecodeTyped, CodeOf DEF Texts
<1>2. P!Whole(s) = P!Finish(n, r).out
  BY DEF P!Whole
<1>3. WholeText(s) = IF r # <<>> THEN Append(t, "?") ELSE t
  BY DEF WholeText
<1>4. P!Fresh \in Held
  BY FreshIsNorm DEF Held
<1> HIDE DEF d
<1> HIDE DEF t, r
<1>5. n \in Held
  BY <1>1, <1>4, NormalizeTyped DEF Texts
<1>6. "?" \in P!Characters
  BY DEF P!Characters
<1>7. WholeText(s) = t \o LastText(r) /\ t \o LastText(r) \in Texts
  <2>1. Append(t, "?") = t \o <<"?">> /\ t \o <<>> = t /\ Append(t, "?") \in Texts
    BY <1>1, <1>6 DEF Texts
  <2>2. LastText(r) = IF r = <<>> THEN <<>> ELSE <<"?">>
    BY DEF LastText
  <2> QED BY <1>1, <1>3, <2>1, <2>2
<1>8. LastText(r) \in Texts /\ P!Finish(n, r).out = Text(P!Normalize(n, LastText(r)))
  BY <1>1, <1>5, FinishIs
<1>9. P!Normalize(P!Fresh, t \o LastText(r)) = P!Normalize(n, LastText(r))
  BY <1>1, <1>4, <1>8, NormalizeConcat DEF Texts
<1> QED BY <1>2, <1>7, <1>8, <1>9 DEF n, t, r, d

(* The state of the path.                                                  *)
PtyState ==
  /\ stream \in Seq(P!Bytes) /\ Len(stream) <= MaxBytes
  /\ carry \in Rests /\ norm \in Held
  /\ flushed \in Seq(Texts) /\ ring \in Texts
  /\ stale \in BOOLEAN /\ done \in BOOLEAN

(* Until the end, the decoder and the normalizer are where the whole       *)
(* stream takes them in one read, what went out taken into account; and at *)
(* the end all of it went out.                                             *)
AsOneRead ==
  ~done => /\ carry = P!Decode(stream).carry
           /\ P!Normalize(P!Fresh, P!Decode(stream).text) = Later(All(flushed), norm)
AllOut ==
  done => All(flushed) = P!Whole(stream) /\ norm.out = <<>> /\ norm.escape = <<>>

(* Nothing that ends in a carriage return went out but in such a piece; if *)
(* there is none, pairs of a carriage return and a line feed are whole.    *)
EndsAsAPiece == P!EndsInCr(All(flushed)) => \E k \in DOMAIN flushed : P!EndsInCr(flushed[k])
RingKeepsPairs ==
  P!PairsOnly(All(flushed)) /\ (\A k \in DOMAIN flushed : ~P!EndsInCr(flushed[k]))
    => ring = All(flushed)

PtyInv == PtyState /\ AsOneRead /\ AllOut /\ EndsAsAPiece /\ RingKeepsPairs

LEMMA PtyInit ==
  ASSUME P!PtyOutputAssumption, P!Init
  PROVE  PtyInv
<1> USE DEF P!Init
<1>1. /\ <<>> \in Seq(P!Bytes) /\ <<>> \in Rests /\ <<>> \in Seq(Texts) /\ <<>> \in Texts
      /\ Len(<<>>) = 0 /\ DOMAIN <<>> = {}
  BY DEF Rests, Texts
<1>2. P!Fresh \in Held
  BY FreshIsNorm DEF Held
<1>3. All(flushed) = <<>>
  BY AllIs
<1>4. P!Decode(stream) = Code(<<>>, <<>>)
  BY DecodeEmpty DEF Nothing
<1>5. P!Decode(stream).text = <<>> /\ P!Decode(stream).carry = <<>>
  BY <1>4, CodeIs
<1>6. P!Normalize(P!Fresh, <<>>) = P!Fresh
  BY <1>2, NormalizeEmpty
<1>7. Later(<<>>, P!Fresh) = P!Fresh
  <2> DEFINE e == <<>>  q == Later(e, P!Fresh)
  <2>0. e \in Seq(P!Characters) /\ e = <<>>
    OBVIOUS
  <2> HIDE DEF e
  <2>1. /\ q \in Norms /\ q.mode = P!Fresh.mode /\ q.escape = P!Fresh.escape /\ q.cr = P!Fresh.cr
        /\ q.out = e \o P!Fresh.out
    BY <1>2, <2>0, LaterIs DEF Held
  <2>2. P!Fresh \in Norms /\ P!Fresh.out = <<>> /\ <<>> \o <<>> = <<>>
    BY FreshIsNorm
  <2>3. q.out = P!Fresh.out
    BY <2>0, <2>1, <2>2
  <2> HIDE DEF q
  <2>4. q = P!Fresh
    BY <2>1, <2>2, <2>3, NormEqual
  <2> QED BY <2>0, <2>4 DEF q
<1>8. AsOneRead
  BY <1>3, <1>5, <1>6, <1>7 DEF AsOneRead
<1>9. EndsAsAPiece /\ RingKeepsPairs
  BY <1>3 DEF EndsAsAPiece, RingKeepsPairs, P!EndsInCr
<1>10. AllOut
  BY DEF AllOut
<1>11. PtyState
  <2>1. 0 <= MaxBytes
    BY DEF P!PtyOutputAssumption
  <2> QED BY <1>1, <1>2, <2>1 DEF PtyState
<1> QED BY <1>8, <1>9, <1>10, <1>11 DEF PtyInv

(* Handing out what there is leaves the two of them together.              *)
LEMMA HandingOut ==
  ASSUME NEW n \in Held
  PROVE  /\ [n EXCEPT !.out = <<>>] \in Held
         /\ [n EXCEPT !.out = <<>>].out = <<>>
         /\ [n EXCEPT !.out = <<>>].escape = n.escape
         /\ n.out \in Texts
         /\ \A p \in Texts : Later(p \o n.out, [n EXCEPT !.out = <<>>]) = Later(p, n)
<1> DEFINE e == <<>>  m == [n EXCEPT !.out = e]
<1>1. e \in Seq(P!Characters) /\ e = <<>>
  OBVIOUS
<1> HIDE DEF e
<1>2. n \in Norms /\ n.out \in Seq(P!Characters)
  BY NormTypes DEF Held
<1>3. m \in Norms
  BY <1>1, <1>2, SetFields
<1>4. m.mode = n.mode /\ m.escape = n.escape /\ m.cr = n.cr /\ m.out = e
  BY <1>2 DEF Norms
<1>5. [n EXCEPT !.out = <<>>] = m
  BY <1>1
<1> HIDE DEF m
<1>6. m \in Held
  BY <1>3, <1>4 DEF Held, Holds
<1>7. ASSUME NEW p \in Texts PROVE Later(p \o n.out, m) = Later(p, n)
  <2> DEFINE o == n.out
  <2>1. o \in Texts
    BY <1>2 DEF Texts
  <2> HIDE DEF o
  <2> DEFINE u == p \o o
  <2>2. u \in Seq(P!Characters) /\ u \o <<>> = u
    BY <2>1 DEF Texts
  <2> HIDE DEF u
  <2> DEFINE i == Later(u, m)  j == Later(p, n)
  <2>3. i \in Norms /\ i.mode = m.mode /\ i.escape = m.escape /\ i.cr = m.cr /\ i.out = u \o m.out
    BY <1>3, <2>2, LaterIs
  <2>4. j \in Norms /\ j.mode = n.mode /\ j.escape = n.escape /\ j.cr = n.cr /\ j.out = p \o n.out
    BY <1>2, LaterIs DEF Texts
  <2> HIDE DEF i, j
  <2>5. i.out = j.out
    BY <1>1, <1>4, <2>2, <2>3, <2>4 DEF u, o
  <2>6. i.mode = j.mode /\ i.escape = j.escape /\ i.cr = j.cr
    BY <1>4, <2>3, <2>4
  <2>7. i = j
    BY <2>3, <2>4, <2>5, <2>6, NormEqual
  <2> QED BY <2>7 DEF i, j, u, o
<1>8. /\ m \in Held /\ m.out = <<>> /\ m.escape = n.escape /\ n.out \in Texts
      /\ \A p \in Texts : Later(p \o n.out, m) = Later(p, n)
  BY <1>1, <1>2, <1>4, <1>6, <1>7 DEF Texts
<1> QED BY <1>5, <1>8

(* A piece after others.                                                   *)
LEMMA PieceAfter ==
  ASSUME NEW s \in Texts, NEW t \in Texts
  PROVE  /\ s \o t \in Texts
         /\ t # <<>> => (P!EndsInCr(s \o t) <=> P!EndsInCr(t))
         /\ P!PairsOnly(s \o t) => P!PairsOnly(t)
         /\ P!PairsOnly(s \o t) /\ ~P!EndsInCr(s) => P!PairsOnly(s)
<1> DEFINE u == s \o t
<1>1. /\ Len(s) \in Nat /\ Len(t) \in Nat /\ Len(u) = Len(s) + Len(t) /\ u \in Texts
      /\ DOMAIN s = 1 .. Len(s) /\ DOMAIN t = 1 .. Len(t) /\ DOMAIN u = 1 .. Len(s) + Len(t)
      /\ \A n \in 1 .. Len(s) : u[n] = s[n]
      /\ \A n \in 1 .. Len(t) : u[Len(s) + n] = t[n]
      /\ (t # <<>> => Len(t) # 0) /\ (s # <<>> => Len(s) # 0) /\ (u = <<>> => Len(u) = 0)
  BY DEF Texts
<1> HIDE DEF u
<1>2. t # <<>> => (P!EndsInCr(u) <=> P!EndsInCr(t))
  <2> SUFFICES ASSUME t # <<>> PROVE P!EndsInCr(u) <=> P!EndsInCr(t)
    OBVIOUS
  <2>1. Len(t) \in 1 .. Len(t) /\ u # <<>>
    BY <1>1
  <2>2. u[Len(u)] = t[Len(t)]
    BY <1>1, <2>1
  <2> QED BY <2>1, <2>2 DEF P!EndsInCr
<1>3. ASSUME P!PairsOnly(u) PROVE P!PairsOnly(t)
  <2> SUFFICES ASSUME NEW n \in DOMAIN t, t[n] = "CR" PROVE n < Len(t) /\ t[n + 1] = "LF"
    BY DEF P!PairsOnly
  <2> DEFINE k == Len(s) + n
  <2>1. n \in 1 .. Len(t) /\ k \in DOMAIN u /\ u[k] = "CR"
    BY <1>1
  <2>2. k < Len(u) /\ u[k + 1] = "LF"
    BY <1>3, <2>1 DEF P!PairsOnly
  <2>3. n < Len(t)
    BY <1>1, <2>1, <2>2
  <2>4. n + 1 \in 1 .. Len(t) /\ k + 1 = Len(s) + (n + 1)
    BY <1>1, <2>1, <2>3
  <2>5. u[Len(s) + (n + 1)] = t[n + 1]
    BY <1>1, <2>4
  <2> QED BY <2>2, <2>3, <2>4, <2>5
<1>4. ASSUME P!PairsOnly(u), ~P!EndsInCr(s) PROVE P!PairsOnly(s)
  <2> SUFFICES ASSUME NEW n \in DOMAIN s, s[n] = "CR" PROVE n < Len(s) /\ s[n + 1] = "LF"
    BY DEF P!PairsOnly
  <2>1. n \in 1 .. Len(s) /\ n \in DOMAIN u /\ u[n] = "CR"
    BY <1>1
  <2>2. u[n + 1] = "LF"
    BY <1>4, <2>1 DEF P!PairsOnly
  <2>3. n # Len(s)
    <3>1. s # <<>>
      OBVIOUS
    <3> QED BY <1>4, <3>1 DEF P!EndsInCr
  <2>4. n < Len(s) /\ n + 1 \in 1 .. Len(s)
    BY <1>1, <2>1, <2>3
  <2> QED BY <1>1, <2>2, <2>4
<1> QED BY <1>1, <1>2, <1>3, <1>4 DEF u

WholePieces(s) ==
  /\ s \in Seq(Texts)
  /\ P!EndsInCr(All(s)) => \E k \in DOMAIN s : P!EndsInCr(s[k])

LEMMA OnePieceMore ==
  ASSUME NEW s, WholePieces(s), NEW data \in Texts, NEW t \in Texts, t # <<>>,
         P!PairsOnly(All(s)) /\ (\A k \in DOMAIN s : ~P!EndsInCr(s[k])) => data = All(s)
  PROVE  /\ WholePieces(Append(s, t)) /\ All(Append(s, t)) = All(s) \o t
         /\ P!RingPush(data, t) \in Texts
         /\ P!PairsOnly(All(Append(s, t))) /\ (\A k \in DOMAIN Append(s, t) : ~P!EndsInCr(Append(s, t)[k]))
              => P!RingPush(data, t) = All(Append(s, t))
<1> DEFINE u == Append(s, t)  a == All(s)  b == All(u)  d == P!RingPush(data, t)
<1>1. /\ s \in Seq(Texts) /\ u \in Seq(Texts) /\ DOMAIN s = 1 .. Len(s) /\ Len(s) \in Nat
      /\ DOMAIN u = 1 .. Len(s) + 1 /\ u[Len(s) + 1] = t
      /\ \A k \in 1 .. Len(s) : u[k] = s[k]
  BY DEF WholePieces
<1>2. a \in Texts /\ b = a \o t
  BY <1>1, AllIs
<1>3. d \in Texts /\ (P!PairsOnly(t) => d = data \o t)
  BY RingPushKeeps
<1>4. Len(s) + 1 \in DOMAIN u
  BY <1>1
<1>8. P!EndsInCr(a) => \E k \in DOMAIN s : P!EndsInCr(s[k])
  BY DEF WholePieces
<1>9. P!PairsOnly(a) /\ (\A k \in DOMAIN s : ~P!EndsInCr(s[k])) => data = a
  OBVIOUS
<1> HIDE DEF u, a, b, d
<1>5. /\ P!EndsInCr(b) <=> P!EndsInCr(t)
      /\ P!PairsOnly(b) => P!PairsOnly(t)
      /\ P!PairsOnly(b) /\ ~P!EndsInCr(a) => P!PairsOnly(a)
  BY <1>2, PieceAfter
<1>6. P!EndsInCr(b) => \E k \in DOMAIN u : P!EndsInCr(u[k])
  BY <1>1, <1>4, <1>5
<1>7. P!PairsOnly(b) /\ (\A k \in DOMAIN u : ~P!EndsInCr(u[k])) => d = b
  <2> SUFFICES ASSUME P!PairsOnly(b), \A k \in DOMAIN u : ~P!EndsInCr(u[k]) PROVE d = b
    OBVIOUS
  <2>1. \A k \in DOMAIN s : ~P!EndsInCr(s[k])
    BY <1>1
  <2>2. data = a
    BY <1>5, <1>8, <1>9, <2>1
  <2> QED BY <1>2, <1>3, <1>5, <2>2
<1>10. WholePieces(u) /\ b = a \o t /\ d \in Texts
  BY <1>1, <1>2, <1>3, <1>6 DEF WholePieces, b
<1> QED BY <1>7, <1>10 DEF u, a, b, d

LEMMA Flushing ==
  ASSUME PtyState, EndsAsAPiece, RingKeepsPairs, NEW n \in Held, NEW ready, P!FlushIf(ready, n)
  PROVE  /\ norm' \in Held /\ flushed' \in Seq(Texts) /\ ring' \in Texts /\ stale' \in BOOLEAN
         /\ EndsAsAPiece' /\ RingKeepsPairs'
         /\ Later(All(flushed'), norm') = Later(All(flushed), n)
         /\ ready => /\ norm'.out = <<>> /\ norm'.escape = n.escape
                     /\ All(flushed') = All(flushed) \o n.out
<1>0. flushed \in Seq(Texts) /\ ring \in Texts /\ stale \in BOOLEAN /\ All(flushed) \in Texts
  <2>1. "a" \in P!Characters /\ <<>> \in Texts
    BY DEF P!Characters, P!Bytes, Texts
  <2>2. flushed \in Seq(Texts) /\ ring \in Texts /\ stale \in BOOLEAN
    BY DEF PtyState
  <2> QED BY <2>1, <2>2, AllIs
<1>1. CASE ready /\ n.out # <<>>
  <2> DEFINE m == [n EXCEPT !.out = <<>>]  t == n.out
  <2>1. /\ m \in Held /\ m.out = <<>> /\ m.escape = n.escape /\ t \in Texts
        /\ Later(All(flushed) \o t, m) = Later(All(flushed), n)
    BY <1>0, HandingOut
  <2>2. norm' = m /\ flushed' = Append(flushed, t) /\ ring' = P!RingPush(ring, t) /\ stale' = FALSE
    BY <1>1 DEF P!FlushIf
  <2>3. t # <<>>
    BY <1>1
  <2> HIDE DEF m, t
  <2>4. WholePieces(flushed)
    BY <1>0 DEF WholePieces, EndsAsAPiece
  <2>5. P!PairsOnly(All(flushed)) /\ (\A k \in DOMAIN flushed : ~P!EndsInCr(flushed[k])) => ring = All(flushed)
    BY DEF RingKeepsPairs
  <2> DEFINE u == Append(flushed, t)  d == P!RingPush(ring, t)
  <2>6. /\ WholePieces(u) /\ All(u) = All(flushed) \o t /\ d \in Texts
        /\ P!PairsOnly(All(u)) /\ (\A k \in DOMAIN u : ~P!EndsInCr(u[k])) => d = All(u)
    BY <1>0, <2>1, <2>3, <2>4, <2>5, OnePieceMore
  <2>7. flushed' = u /\ ring' = d
    BY <2>2
  <2> HIDE DEF u, d
  <2>8. EndsAsAPiece' /\ flushed' \in Seq(Texts)
    BY <2>6, <2>7 DEF WholePieces, EndsAsAPiece
  <2>9. RingKeepsPairs'
    BY <2>6, <2>7 DEF RingKeepsPairs
  <2>10. Later(All(flushed'), norm') = Later(All(flushed), n)
    BY <2>1, <2>2, <2>6, <2>7
  <2>11. norm' \in Held /\ norm'.out = <<>> /\ norm'.escape = n.escape
    BY <2>1, <2>2
  <2>12. All(flushed') = All(flushed) \o n.out
    BY <2>6, <2>7 DEF t
  <2>13. ring' \in Texts /\ stale' \in BOOLEAN
    BY <2>2, <2>6, <2>7
  <2> QED BY <2>8, <2>9, <2>10, <2>11, <2>12, <2>13
<1>2. CASE ~(ready /\ n.out # <<>>)
  <2>1. norm' = n /\ flushed' = flushed /\ ring' = ring /\ stale' = stale
    BY <1>2 DEF P!FlushIf
  <2>2. EndsAsAPiece' /\ RingKeepsPairs'
    BY <2>1 DEF EndsAsAPiece, RingKeepsPairs
  <2>3. All(flushed) \o <<>> = All(flushed)
    BY <1>0 DEF Texts
  <2>4. ready => n.out = <<>>
    BY <1>2
  <2> QED BY <1>0, <2>1, <2>2, <2>3, <2>4
<1> QED BY <1>1, <1>2

LEMMA PtyRead ==
  ASSUME P!PtyOutputAssumption, PtyInv, P!Read
  PROVE  PtyInv'
<1>0. PtyState /\ AsOneRead /\ EndsAsAPiece /\ RingKeepsPairs
  BY DEF PtyInv
<1>1. /\ stream \in Seq(P!Bytes) /\ norm \in Held /\ ~done /\ done' = done
      /\ carry = P!Decode(stream).carry
      /\ P!Normalize(P!Fresh, P!Decode(stream).text) = Later(All(flushed), norm)
  BY <1>0 DEF PtyState, AsOneRead, P!Read
<1>2. PICK alphabet \in {bytes \in Alphabets : ToSet(stream) \subseteq bytes} :
      \E chunk \in UNION {[1 .. k -> alphabet] : k \in 1 .. MaxRead} :
       LET d == P!Decode(carry \o chunk)
           n == P!Normalize(norm, d.text)
       IN  /\ Len(stream) + Len(chunk) <= MaxBytes
           /\ stream' = stream \o chunk
           /\ carry' = d.carry
           /\ P!FlushIf(P!IsIdle(n) /\ (stale \/ Len(n.out) >= BatchMax), n)
  BY DEF P!Read, P!ToSet, ToSet
<1>3. PICK chunk \in UNION {[1 .. k -> alphabet] : k \in 1 .. MaxRead} :
       LET d == P!Decode(carry \o chunk)
           n == P!Normalize(norm, d.text)
       IN  /\ Len(stream) + Len(chunk) <= MaxBytes
           /\ stream' = stream \o chunk
           /\ carry' = d.carry
           /\ P!FlushIf(P!IsIdle(n) /\ (stale \/ Len(n.out) >= BatchMax), n)
  BY <1>2
<1>4. chunk \in Seq(P!Bytes)
  <2>1. PICK k \in 1 .. MaxRead : chunk \in [1 .. k -> alphabet]
    BY <1>3
  <2>2. k \in Nat /\ alphabet \subseteq P!Bytes
    BY <1>2 DEF P!PtyOutputAssumption
  <2>3. chunk \in [1 .. k -> P!Bytes]
    BY <2>1, <2>2
  <2> QED BY <2>2, <2>3
<1> DEFINE v == carry \o chunk  d == P!Decode(v)  n == P!Normalize(norm, d.text)
           ready == P!IsIdle(n) /\ (stale \/ Len(n.out) >= BatchMax)
           p == P!Decode(stream).text  s == stream \o chunk
<1>5. /\ Len(stream) + Len(chunk) <= MaxBytes /\ stream' = s /\ carry' = d.carry
      /\ P!FlushIf(ready, n)
  BY <1>3
<1>6. v \in Seq(P!Bytes) /\ P!Decode(s) = After(p, d)
  BY <1>1, <1>4, DecodeChunk
<1>7. s \in Seq(P!Bytes) /\ Len(s) = Len(stream) + Len(chunk)
  BY <1>1, <1>4
<1>8. p \in Texts
  BY <1>1, DecodeTyped, CodeOf DEF Texts
<1> HIDE DEF v
<1>9. d.text \in Texts /\ d.carry \in Rests
  BY <1>6, DecodeTyped, CodeOf DEF Texts
<1>10. P!Decode(s).text = p \o d.text /\ P!Decode(s).carry = d.carry
  <2> DEFINE e == Code(p \o d.text, d.carry)
  <2>1. e.text = p \o d.text /\ e.carry = d.carry
    BY CodeIs
  <2>2. P!Decode(s) = e
    BY <1>6 DEF After
  <2> HIDE DEF e
  <2> QED BY <2>1, <2>2
<1> DEFINE t == d.text  r == d.carry
<1>11. n = P!Normalize(norm, t) /\ t \in Texts /\ r \in Rests /\ carry' = r
       /\ P!Decode(s).text = p \o t /\ P!Decode(s).carry = r
  BY <1>5, <1>9, <1>10
<1> HIDE DEF t, r
<1> HIDE DEF n, p, s, ready
<1>12. n \in Held
  BY <1>1, <1>11, NormalizeTyped DEF Texts
<1>13. P!Fresh \in Held /\ All(flushed) \in Texts
  <2>1. <<>> \in Texts /\ flushed \in Seq(Texts)
    BY <1>0 DEF Texts, PtyState
  <2> QED BY <2>1, FreshIsNorm, AllIs DEF Held
<1>14. P!Normalize(P!Fresh, p \o t) = Later(All(flushed), n)
  <2>1. P!Normalize(P!Fresh, p \o t) = P!Normalize(P!Normalize(P!Fresh, p), t)
    BY <1>8, <1>11, <1>13, NormalizeConcat DEF Texts
  <2>2. P!Normalize(P!Fresh, p) = Later(All(flushed), norm)
    BY <1>1 DEF p
  <2>3. P!Normalize(Later(All(flushed), norm), t) = Later(All(flushed), P!Normalize(norm, t))
    BY <1>1, <1>11, <1>13, NormalizeLater DEF Texts
  <2> QED BY <1>11, <2>1, <2>2, <2>3
<1>15. /\ norm' \in Held /\ flushed' \in Seq(Texts) /\ ring' \in Texts /\ stale' \in BOOLEAN
       /\ EndsAsAPiece' /\ RingKeepsPairs'
       /\ Later(All(flushed'), norm') = Later(All(flushed), n)
  BY <1>0, <1>5, <1>12, Flushing
<1>16. PtyState'
  BY <1>0, <1>1, <1>5, <1>7, <1>11, <1>15 DEF PtyState
<1>17. AsOneRead'
  <2>1. P!Decode(s).carry = carry' /\ P!Normalize(P!Fresh, P!Decode(s).text) = Later(All(flushed'), norm')
    BY <1>11, <1>14, <1>15
  <2> QED BY <1>5, <2>1 DEF AsOneRead
<1>18. AllOut'
  BY <1>1 DEF AllOut
<1> QED BY <1>15, <1>16, <1>17, <1>18 DEF PtyInv

LEMMA PtyEnd ==
  ASSUME PtyInv, P!EndOfStream
  PROVE  PtyInv'
<1>0. PtyState /\ AsOneRead /\ EndsAsAPiece /\ RingKeepsPairs
  BY DEF PtyInv
<1>1. /\ stream \in Seq(P!Bytes) /\ norm \in Held /\ ~done /\ done' = TRUE /\ carry \in Rests
      /\ carry = P!Decode(stream).carry /\ stream' = stream /\ carry' = <<>>
      /\ P!Normalize(P!Fresh, P!Decode(stream).text) = Later(All(flushed), norm)
      /\ P!FlushIf(TRUE, P!Finish(norm, carry)) /\ flushed \in Seq(Texts)
  BY <1>0 DEF PtyState, AsOneRead, P!EndOfStream
<1> DEFINE f == P!Finish(norm, carry)  t == LastText(carry)  m == P!Normalize(norm, t)  a == All(flushed)
<1>2. t \in Texts /\ m \in Held /\ f \in Held /\ f.out = Text(m) /\ f.escape = <<>>
  BY <1>1, FinishIs
<1>3. a \in Texts
  <2>1. <<>> \in Texts
    BY DEF Texts
  <2> QED BY <1>1, <2>1, AllIs
<1> HIDE DEF f
<1>f. P!FlushIf(TRUE, f)
  BY <1>1 DEF f
<1>4. /\ norm' \in Held /\ flushed' \in Seq(Texts) /\ ring' \in Texts /\ stale' \in BOOLEAN
      /\ EndsAsAPiece' /\ RingKeepsPairs'
      /\ norm'.out = <<>> /\ norm'.escape = f.escape /\ All(flushed') = a \o f.out
  BY <1>0, <1>2, <1>f, Flushing
<1>5. P!Whole(stream) = Text(P!Normalize(P!Normalize(P!Fresh, P!Decode(stream).text), LastText(P!Decode(stream).carry)))
  BY <1>1, WholeIs
<1>6. P!Whole(stream) = Text(Later(a, m))
  <2>1. P!Normalize(Later(a, norm), t) = Later(a, m)
    BY <1>1, <1>2, <1>3, NormalizeLater DEF Texts
  <2> QED BY <1>1, <1>5, <2>1
<1> HIDE DEF t, m, a
<1>7. Text(Later(a, m)) = a \o Text(m)
  <2> DEFINE o == m.out  e == m.escape  q == Later(a, m)
  <2>1. o \in Texts /\ e \in Texts
    BY <1>2, NormTypes DEF Held, Texts
  <2>2. q.out = a \o o /\ q.escape = e
    BY <1>2, <1>3, LaterIs DEF Held, Texts
  <2>3. Text(q) = q.out \o q.escape /\ Text(m) = o \o e
    BY DEF Text
  <2> HIDE DEF q, o, e
  <2>4. (a \o o) \o e = a \o (o \o e)
    BY <1>3, <2>1, ConcatAssociative DEF Texts
  <2>5. Text(q) = a \o Text(m)
    BY <2>2, <2>3, <2>4
  <2> QED BY <2>5 DEF q
<1>8. AllOut'
  <2>1. All(flushed') = P!Whole(stream)
    BY <1>2, <1>4, <1>6, <1>7
  <2> QED BY <1>1, <1>2, <1>4, <2>1 DEF AllOut
<1>9. AsOneRead'
  BY <1>1 DEF AsOneRead
<1>10. PtyState'
  BY <1>0, <1>1, <1>4 DEF PtyState, Rests
<1> QED BY <1>4, <1>8, <1>9, <1>10 DEF PtyInv

LEMMA PtyNext ==
  ASSUME P!PtyOutputAssumption, PtyInv, P!Next \/ UNCHANGED P!vars
  PROVE  PtyInv'
<1>1. CASE P!Read
  BY <1>1, PtyRead
<1>2. CASE P!EndOfStream
  BY <1>2, PtyEnd
<1>3. ASSUME stale' \in BOOLEAN, UNCHANGED <<stream, carry, norm, flushed, ring, done>> PROVE PtyInv'
  <2>1. PtyState'
    BY <1>3 DEF PtyInv, PtyState
  <2>2. AsOneRead' /\ AllOut'
    BY <1>3 DEF PtyInv, AsOneRead, AllOut
  <2>3. EndsAsAPiece' /\ RingKeepsPairs'
    BY <1>3 DEF PtyInv, EndsAsAPiece, RingKeepsPairs
  <2> QED BY <2>1, <2>2, <2>3 DEF PtyInv
<1>4. CASE P!TimePasses
  BY <1>3, <1>4 DEF P!TimePasses
<1>5. CASE UNCHANGED P!vars
  BY <1>3, <1>5 DEF P!vars, PtyInv, PtyState
<1> QED BY <1>1, <1>2, <1>4, <1>5 DEF P!Next

(* Output is typed.                                                        *)
LEMMA PtyTypeOK ==
  ASSUME PtyInv
  PROVE  P!TypeOK
<1>1. PtyState
  BY DEF PtyInv
<1>2. /\ norm.mode \in P!Modes /\ norm.cr \in BOOLEAN
      /\ norm.escape \in Seq(P!Characters) /\ norm.out \in Seq(P!Characters)
  BY <1>1, NormTypes DEF PtyState, Held
<1>3. norm.mode = "normal" <=> norm.escape = <<>>
  BY <1>1 DEF PtyState, Held, Holds
<1> QED BY <1>1, <1>2, <1>3 DEF P!TypeOK, PtyState, Rests, Texts

(* However the stream was cut into reads, its output is that of the whole. *)
LEMMA PtyChunking ==
  ASSUME PtyInv
  PROVE  P!ChunkingInvisible
<1> SUFFICES ASSUME done PROVE P!Flushed = P!Whole(stream) /\ P!Idempotent
  BY DEF P!ChunkingInvisible
<1>1. P!Flushed = All(flushed) /\ All(flushed) = P!Whole(stream) /\ stream \in Seq(P!Bytes)
  BY FlushedIs DEF PtyInv, PtyState, AllOut
<1> DEFINE t == WholeText(stream)  m == P!Normalize(P!Fresh, t)
<1>2. t \in Texts /\ P!Whole(stream) = Text(m)
  BY <1>1, WholeIs
<1>3. P!Normalize(P!Fresh, Text(m)) = m
  BY <1>2, NormalizeAgain DEF Texts
<1>4. P!Normalize(P!Fresh, P!Flushed) = m /\ P!Flushed = Text(m)
  BY <1>1, <1>2, <1>3
<1> HIDE DEF m
<1>5. P!Idempotent
  BY <1>4 DEF P!Idempotent, Text
<1> QED BY <1>1, <1>5

(* Nothing of the stream is lost.                                          *)
LEMMA PtyNothingLost ==
  ASSUME PtyInv
  PROVE  P!NothingLost
<1>1. /\ P!Flushed = All(flushed) /\ stream \in Seq(P!Bytes) /\ norm \in Held
      /\ All(flushed) \in Texts /\ done \in BOOLEAN
  <2>1. PtyState /\ <<>> \in Texts
    BY DEF PtyInv, Texts
  <2> QED BY <2>1, FlushedIs, AllIs DEF PtyState
<1> DEFINE d == P!Decode(stream)  a == All(flushed)  o == norm.out  e == norm.escape
           t == IF done /\ d.carry # <<>> THEN Append(d.text, "?") ELSE d.text
<1>2. d.text \in Texts /\ d.carry \in Rests
  BY <1>1, DecodeTyped, CodeOf DEF Texts
<1>3. o \in Texts /\ e \in Texts
  BY <1>1, NormTypes DEF Held, Texts
<1>4. t \in Texts /\ (a \o o) \o e = Text(P!Normalize(P!Fresh, t))
  <2>1. CASE ~done
    <3>1. P!Normalize(P!Fresh, d.text) = Later(a, norm)
      BY <2>1 DEF PtyInv, AsOneRead
    <3> DEFINE q == Later(a, norm)
    <3>2. q.out = a \o o /\ q.escape = e
      BY <1>1, LaterIs DEF Held, Texts
    <3> HIDE DEF q
    <3>3. Text(q) = (a \o o) \o e
      BY <3>2 DEF Text
    <3>4. t = d.text
      BY <2>1
    <3> QED BY <1>2, <3>1, <3>3, <3>4 DEF q
  <2>2. CASE done
    <3>1. a = P!Whole(stream) /\ o = <<>> /\ e = <<>>
      BY <2>2 DEF PtyInv, AllOut
    <3>2. t = WholeText(stream)
      BY <2>2 DEF WholeText
    <3>3. (a \o <<>>) \o <<>> = a
      BY <1>1 DEF Texts
    <3> HIDE DEF t, a, o, e
    <3>4. P!Whole(stream) = Text(P!Normalize(P!Fresh, WholeText(stream))) /\ WholeText(stream) \in Texts
      BY <1>1, WholeIs
    <3> QED BY <3>1, <3>2, <3>3, <3>4
  <2> QED BY <1>1, <2>1, <2>2
<1>5. done => P!CrLfKept
  <2>1. RingKeepsPairs
    BY DEF PtyInv
  <2> QED BY <1>1, <2>1 DEF RingKeepsPairs, P!CrLfKept
<1>6. P!WithoutCr(P!Flushed \o norm.out \o norm.escape) = P!WithoutCr(t)
  <2> DEFINE u == (a \o o) \o e
  <2>1. u \in Texts
    BY <1>1, <1>3 DEF Texts
  <2>2. u = P!Flushed \o norm.out \o norm.escape
    BY <1>1
  <2>3. u = Text(P!Normalize(P!Fresh, t)) /\ t \in Texts
    BY <1>4
  <2> HIDE DEF u, t
  <2>4. P!WithoutCr(u) = Pick(P!Characters, Ordinary, u) /\ P!WithoutCr(t) = Pick(P!Characters, Ordinary, t)
    BY <2>1, <2>3, WithoutCrIs DEF Texts
  <2>5. Pick(P!Characters, Ordinary, Text(P!Normalize(P!Fresh, t))) = Pick(P!Characters, Ordinary, t)
    BY <2>3, NormalizeAgain DEF Ordinary, Texts
  <2> QED BY <2>2, <2>3, <2>4, <2>5
<1> QED BY <1>5, <1>6 DEF P!NothingLost

(* What is in a file; and what a store is, variable by variable.           *)
Pieces == Requests \cup {J!EndOfLine, J!Torn}

ListState ==
  /\ file \in Seq(Pieces) /\ mem \in Seq(Requests) /\ up \in BOOLEAN
  /\ pc \in [Requests -> J!Working \cup {"new", "done", "failed"}]
  /\ gone \subseteq {r \in Requests : pc[r] \in {"line", "end", "failed"}}
  /\ met \in [Requests -> SUBSET Requests]
  /\ ~up => J!AtWork = {} /\ mem = <<>>

(* An entry is written once, by a request that is past writing it.         *)
WrittenOnce ==
  /\ Single(file, Requests)
  /\ \A n \in DOMAIN file : file[n] \in Requests => pc[file[n]] \notin {"new", "line"}
  /\ \A r \in Requests : pc[r] \in {"end", "push", "done"} => \E n \in DOMAIN file : file[n] = r

(* What is in memory was read from the file, or is there for good.         *)
ReadOrPushed ==
  /\ IsInjective(mem)
  /\ \A n \in DOMAIN mem :
       /\ pc[mem[n]] \in {"done", "failed"}
       /\ \E k \in DOMAIN file : file[k] = mem[n]

(* Requests that are at work have met.                                     *)
HaveMet == \A r \in J!AtWork : J!AtWork \subseteq met[r]

(* Something follows a line whose request is past ending it.               *)
Followed ==
  \A n \in DOMAIN file :
    file[n] \in Requests /\ pc[file[n]] \in {"push", "done"} => n # Len(file)

(* The line of a request that met nobody: nothing comes between it and its *)
(* end, and what is before it is an end, or was left by a failed request.  *)
EndsItsLine ==
  \A r \in Requests : J!With(r) = {} =>
    \A n \in DOMAIN file : file[n] = r =>
      /\ pc[r] = "end" => n = Len(file)
      /\ pc[r] = "push" => n + 1 = Len(file)
      /\ pc[r] \in {"push", "done"} => n + 1 \in DOMAIN file /\ file[n + 1] = J!EndOfLine
StartsItsLine ==
  \A r \in Requests : J!With(r) = {} /\ pc[r] \in {"end", "push", "done"} =>
    \A n \in DOMAIN file :
      file[n] = r /\ n # 1 => \/ file[n - 1] \in {J!EndOfLine, J!Torn}
                              \/ file[n - 1] \in Requests /\ pc[file[n - 1]] = "failed"

(* Every torn line was left by a failed request of its own, which has no   *)
(* other line.                                                             *)
TornPlaces == {n \in DOMAIN file : file[n] = J!Torn}
Tore == {r \in Requests : pc[r] = "failed" /\ \A n \in DOMAIN file : file[n] # r}
TornBySomeone ==
  \E f \in [TornPlaces -> Tore] : \A n, k \in TornPlaces : f[n] = f[k] => n = k

(* Only so many requests have come.                                        *)
Come == {r \in Requests : pc[r] # "new"}
FewHaveCome == IsFiniteSet(Come)

(* An acknowledged entry that can be read is in memory.                    *)
OnItsLine(f, n) == \A k \in {n - 1, n + 1} \cap DOMAIN f : f[k] = J!EndOfLine
Shown ==
  up => \A n \in DOMAIN file :
          file[n] \in Requests /\ pc[file[n]] = "done" /\ OnItsLine(file, n)
            => \E k \in DOMAIN mem : mem[k] = file[n]

(* As long as nobody met anybody, memory has the order of the file.        *)
InFileOrder ==
  up /\ (\A r \in Requests : J!With(r) = {}) => mem = Pick(Pieces, ToSet(mem), file)

ListInv ==
  /\ ListState /\ WrittenOnce /\ ReadOrPushed /\ HaveMet /\ Followed
  /\ EndsItsLine /\ StartsItsLine /\ TornBySomeone /\ FewHaveCome /\ Shown /\ InFileOrder

LEMMA ThoseArePicked ==
  ASSUME NEW T, NEW S, NEW s \in Seq(T)
  PROVE  J!Those(s, S) = Pick(T, S, s)
<1> DEFINE Kept(it) ==
      it = [n \in 0 .. Len(s) |->
             IF n = 0 THEN <<>> ELSE IF s[n] \in S THEN Append(it[n - 1], s[n]) ELSE it[n - 1]]
           base == <<>>
<1> DEFINE run == CHOOSE it : Kept(it)
<1>1. J!Those(s, S) = run[Len(s)]
  BY DEF J!Those
<1>2. base \in Seq(T) /\ base = <<>> /\ IsStep(Keep(T, S), Seq(T), T)
  BY KeepIsStep
<1> HIDE DEF base
<1>3. PICK h : IsTypedRecursion(h, Keep(T, S), Seq(T), T, base, s)
  BY <1>2, RecursionFacts
<1>4. Kept(h)
  <2>1. h = [n \in 0 .. Len(s) |-> h[n]]
    BY <1>3 DEF IsTypedRecursion
  <2>2. ASSUME NEW n \in 0 .. Len(s)
        PROVE  h[n] = IF n = 0 THEN <<>>
                      ELSE IF s[n] \in S THEN Append(h[n - 1], s[n]) ELSE h[n - 1]
    <3>1. CASE n = 0
      BY <1>2, <1>3, <3>1 DEF IsTypedRecursion
    <3>2. CASE n # 0
      <4>1. n \in 1 .. Len(s)
        BY <3>2
      <4>2. h[n - 1] \in Seq(T) /\ s[n] \in T /\ h[n] = Keep(T, S)[<<h[n - 1], s[n]>>]
        BY <1>3, <4>1 DEF IsTypedRecursion
      <4> QED BY <3>2, <4>2 DEF Keep
    <3> QED BY <3>1, <3>2
  <2> QED BY <2>1, <2>2, Zenon
<1>5. Kept(run)
  BY <1>4, Zenon
<1> HIDE DEF run
<1>6. IsRecursion(run, Keep(T, S), Seq(T), base, s)
  <2>1. Len(s) \in Nat
    OBVIOUS
  <2>2. run[0] = base
    BY <1>2, <1>5, <2>1
  <2>3. ASSUME NEW n \in 1 .. Len(s), run[n - 1] \in Seq(T)
        PROVE  run[n] = Keep(T, S)[<<run[n - 1], s[n]>>]
    <3>1. s[n] \in T /\ n \in 0 .. Len(s) /\ n # 0
      BY <2>1
    <3>2. run[n] = IF s[n] \in S THEN Append(run[n - 1], s[n]) ELSE run[n - 1]
      BY <1>5, <3>1
    <3> QED BY <2>3, <3>1, <3>2 DEF Keep
  <2> QED BY <2>2, <2>3 DEF IsRecursion
<1>7. run[Len(s)] = Value(Keep(T, S), base, s)
  <2> DEFINE step == Keep(T, S)  lists == Seq(T)
  <2>1. IsStep(step, lists, T) /\ base \in lists /\ IsRecursion(run, step, lists, base, s)
    BY <1>2, <1>6
  <2> HIDE DEF step, lists
  <2>2. run[Len(s)] = Value(step, base, s)
    BY <2>1, RecursionIs
  <2> QED BY <2>2 DEF step
<1> QED BY <1>1, <1>2, <1>7 DEF Pick

LEMMA ListInit ==
  ASSUME J!Init
  PROVE  ListInv
<1> USE DEF J!Init
<1>1. ListState
  BY DEF ListState, J!Working, J!AtWork, Pieces
<1>2. WrittenOnce /\ ReadOrPushed /\ Followed /\ EndsItsLine /\ StartsItsLine /\ Shown
  BY DEF WrittenOnce, Single, ReadOrPushed, IsInjective, Followed, EndsItsLine, StartsItsLine, Shown
<1>3. HaveMet
  BY DEF HaveMet, J!AtWork, J!Working
<1>4. TornBySomeone
  <2>1. TornPlaces = {}
    BY DEF TornPlaces
  <2> DEFINE f == [n \in {} |-> n]
  <2>2. f \in [TornPlaces -> Tore] /\ \A n, k \in TornPlaces : f[n] = f[k] => n = k
    BY <2>1
  <2> QED BY <2>2 DEF TornBySomeone
<1>5. FewHaveCome
  <2>1. Come = {}
    BY DEF Come
  <2> QED BY <2>1, FS_EmptySet DEF FewHaveCome
<1>6. InFileOrder
  BY PickEmpty DEF InFileOrder
<1> QED BY <1>1, <1>2, <1>3, <1>4, <1>5, <1>6 DEF ListInv

(* What a step does to the file: nothing, or one piece more at its end.    *)
LEMMA FileAppend ==
  ASSUME NEW f, f \in Seq(Pieces), NEW x \in Pieces, NEW g, g = Append(f, x)
  PROVE  /\ Len(f) \in Nat /\ DOMAIN f = 1 .. Len(f)
         /\ g \in Seq(Pieces) /\ Len(g) = Len(f) + 1 /\ DOMAIN g = 1 .. Len(f) + 1
         /\ \A n \in DOMAIN f : n \in DOMAIN g /\ g[n] = f[n] /\ n <= Len(f)
         /\ g[Len(f) + 1] = x
         /\ \A n \in DOMAIN g : n \in DOMAIN f \/ n = Len(f) + 1
         /\ \A n \in DOMAIN f : n # Len(f) + 1
OBVIOUS

LEMMA ListStateNext ==
  ASSUME J!JsonlAssumption, ListInv, J!Next
  PROVE  ListState'
<1> USE DEF ListState
<1>0. ListState /\ {J!EndOfLine, J!Torn} \cap Requests = {}
  BY DEF ListInv, J!JsonlAssumption
<1>1. ASSUME NEW r \in Requests, J!Begin(r) PROVE ListState'
  <2>1. J!AtWork \in SUBSET Requests
    BY DEF J!AtWork
  <2>2. /\ up' = TRUE /\ mem' = mem /\ file' = file /\ gone' = gone
        /\ pc' \in [Requests -> J!Working \cup {"new", "done", "failed"}]
        /\ pc[r] = "new" /\ \A q \in Requests : q # r => pc'[q] = pc[q]
    BY <1>0, <1>1 DEF J!Begin, J!Goto, J!Working
  <2>3. met' \in [Requests -> SUBSET Requests]
    BY <1>0, <1>1, <2>1 DEF J!Begin
  <2> QED BY <1>0, <2>2, <2>3
<1>2. ASSUME NEW r \in Requests, J!WriteLine(r) PROVE ListState'
  <2>1. r \in J!AtWork
    BY <1>2 DEF J!WriteLine, J!AtWork, J!Working
  <2>2. up
    BY <1>0, <2>1
  <2>3. file' \in Seq(Pieces)
    BY <1>0, <1>2 DEF J!WriteLine, Pieces
  <2> QED BY <1>0, <1>2, <2>2, <2>3 DEF J!WriteLine, J!Goto, J!Working
<1>3. ASSUME NEW r \in Requests, J!WriteEnd(r) PROVE ListState'
  <2>1. r \in J!AtWork
    BY <1>3 DEF J!WriteEnd, J!AtWork, J!Working
  <2>2. up
    BY <1>0, <2>1
  <2>3. file' \in Seq(Pieces)
    BY <1>0, <1>3 DEF J!WriteEnd, Pieces
  <2> QED BY <1>0, <1>3, <2>2, <2>3 DEF J!WriteEnd, J!Goto, J!Working
<1>4. ASSUME NEW r \in Requests, J!Push(r) PROVE ListState'
  <2>1. r \in J!AtWork
    BY <1>4 DEF J!Push, J!AtWork, J!Working
  <2>2. up
    BY <1>0, <2>1
  <2>3. mem' \in Seq(Requests)
    BY <1>0, <1>4 DEF J!Push
  <2> QED BY <1>0, <1>4, <2>2, <2>3 DEF J!Push, J!Goto, J!Working
<1>5. ASSUME NEW r \in Requests, J!WriteFails(r) PROVE ListState'
  <2>1. r \in J!AtWork
    BY <1>5 DEF J!WriteFails, J!AtWork, J!Working
  <2>2. up
    BY <1>0, <2>1
  <2>3. file' \in Seq(Pieces)
    <3> DEFINE more == {Append(file, J!Torn) : l \in {pc[r]} \cap {"line"}}
    <3>0. file' \in {file} \cup more
      BY <1>5 DEF J!WriteFails
    <3>2. \A f \in more : f = Append(file, J!Torn)
      OBVIOUS
    <3> HIDE DEF more
    <3>1. file' = file \/ file' = Append(file, J!Torn)
      BY <3>0, <3>2
    <3>3. file \in Seq(Pieces) /\ J!Torn \in Pieces
      BY <1>0 DEF Pieces
    <3>4. Append(file, J!Torn) \in Seq(Pieces)
      BY <3>3
    <3> QED BY <3>1, <3>3, <3>4
  <2>4. pc' = [pc EXCEPT ![r] = "failed"] /\ UNCHANGED <<mem, up, gone, met>>
    BY <1>5 DEF J!WriteFails, J!Goto
  <2>5. pc' \in [Requests -> J!Working \cup {"new", "done", "failed"}]
    BY <1>0, <2>4
  <2>6. gone' \subseteq {q \in Requests : pc'[q] \in {"line", "end", "failed"}}
    BY <1>0, <2>4
  <2> QED BY <1>0, <2>2, <2>3, <2>4, <2>5, <2>6
<1>6. ASSUME NEW r \in Requests, J!Drop(r) PROVE ListState'
  <2>2. up
    BY <1>0, <1>6 DEF J!Drop
  <2> QED BY <1>0, <1>6, <2>2 DEF J!Drop, J!Goto, J!Working
<1>7. ASSUME J!Crash PROVE ListState'
  <2>1. pc' \in [Requests -> J!Working \cup {"new", "done", "failed"}]
    BY <1>0, <1>7 DEF J!Crash
  <2>2. J!AtWork' = {}
    BY <1>7 DEF J!Crash, J!AtWork, J!Working
  <2>3. gone' \subseteq {r \in Requests : pc'[r] \in {"line", "end", "failed"}}
    BY <1>0, <1>7 DEF J!Crash, J!Working
  <2>4. file' = file /\ up' = FALSE /\ mem' = <<>> /\ met' = met
    BY <1>7 DEF J!Crash
  <2>5. mem' \in Seq(Requests)
    BY <2>4
  <2> QED BY <1>0, <2>1, <2>2, <2>3, <2>4, <2>5
<1>8. ASSUME J!Restart PROVE ListState'
  <2> DEFINE S == {r \in Requests : J!OneLine(r)}
  <2>1. J!Lines = Pick(Pieces, S, file)
    BY <1>0, ThoseArePicked DEF J!Lines
  <2>2. /\ Pick(Pieces, S, file) \in Seq(Pieces)
        /\ ToSet(Pick(Pieces, S, file)) = ToSet(file) \cap S
    BY <1>0, PickElements
  <2>3. mem' \in Seq(Requests)
    <3> DEFINE m == Pick(Pieces, S, file)
    <3>1. m \in Seq(Pieces) /\ ToSet(m) \subseteq Requests
      BY <2>2
    <3> HIDE DEF m
    <3>2. m \in Seq(Requests)
      BY <3>1 DEF ToSet
    <3> QED BY <1>8, <2>1, <3>2 DEF J!Restart, m
  <2> QED BY <1>0, <1>8, <2>3 DEF J!Restart
<1> QED BY <1>1, <1>2, <1>3, <1>4, <1>5, <1>6, <1>7, <1>8 DEF J!Next, J!Handler

LEMMA WrittenOnceNext ==
  ASSUME J!JsonlAssumption, ListInv, J!Next
  PROVE  WrittenOnce'
<1>0. /\ ListState /\ WrittenOnce /\ {J!EndOfLine, J!Torn} \cap Requests = {}
      /\ pc \in [Requests -> J!Working \cup {"new", "done", "failed"}]
      /\ file \in Seq(Pieces)
  BY DEF ListInv, ListState, J!JsonlAssumption
<1> USE DEF WrittenOnce, Single
<1>1. ASSUME NEW r \in Requests, J!Begin(r) PROVE WrittenOnce'
  BY <1>0, <1>1 DEF J!Begin, J!Goto
<1>2. ASSUME NEW r \in Requests, J!WriteLine(r) PROVE WrittenOnce'
  <2>1. /\ file' = Append(file, r) /\ r \in Pieces
        /\ \A q \in Requests : q # r => pc'[q] = pc[q]
        /\ pc[r] = "line" /\ pc'[r] \in {"end", "failed"}
    BY <1>0, <1>2 DEF J!WriteLine, J!Goto, Pieces
  <2>2. \A n \in DOMAIN file : file[n] # r
    BY <1>0, <2>1
  <2>3. /\ Len(file) \in Nat /\ file'[Len(file) + 1] = r
        /\ \A n \in DOMAIN file : file'[n] = file[n] /\ n # Len(file) + 1
        /\ DOMAIN file' = DOMAIN file \cup {Len(file) + 1}
    BY <1>0, <2>1, FileAppend
  <2>4. Single(file', Requests)
    BY <1>0, <2>2, <2>3
  <2>5. \A n \in DOMAIN file' : file'[n] \in Requests => pc'[file'[n]] \notin {"new", "line"}
    BY <1>0, <2>1, <2>3
  <2>6. \A q \in Requests : pc'[q] \in {"end", "push", "done"} => \E n \in DOMAIN file' : file'[n] = q
    BY <1>0, <2>1, <2>3
  <2> QED BY <2>4, <2>5, <2>6
<1>3. ASSUME NEW r \in Requests, J!WriteEnd(r) PROVE WrittenOnce'
  <2>1. /\ file' = Append(file, J!EndOfLine) /\ J!EndOfLine \in Pieces
        /\ \A q \in Requests : q # r => pc'[q] = pc[q]
        /\ pc[r] = "end" /\ pc'[r] \in {"push", "failed"}
    BY <1>0, <1>3 DEF J!WriteEnd, J!Goto, Pieces
  <2>2. J!EndOfLine \notin Requests
    BY <1>0
  <2> QED BY <1>0, <2>1, <2>2, FileAppend
<1>4. ASSUME NEW r \in Requests, J!Push(r) PROVE WrittenOnce'
  BY <1>0, <1>4 DEF J!Push, J!Goto
<1>5. ASSUME NEW r \in Requests, J!WriteFails(r) PROVE WrittenOnce'
  <2>1. /\ \A q \in Requests : q # r => pc'[q] = pc[q]
        /\ pc'[r] = "failed"
    BY <1>0, <1>5 DEF J!WriteFails, J!Goto
  <2>2. CASE file' = file
    BY <1>0, <2>1, <2>2
  <2>3. CASE file' = Append(file, J!Torn)
    <3>1. J!Torn \in Pieces /\ J!Torn \notin Requests
      BY <1>0 DEF Pieces
    <3>2. /\ Len(file) \in Nat /\ file'[Len(file) + 1] = J!Torn
          /\ \A n \in DOMAIN file : file'[n] = file[n] /\ n # Len(file) + 1
          /\ DOMAIN file' = DOMAIN file \cup {Len(file) + 1}
      BY <1>0, <2>3, <3>1, FileAppend
    <3>3. Single(file', Requests)
      BY <1>0, <3>1, <3>2
    <3>4. \A n \in DOMAIN file' : file'[n] \in Requests => pc'[file'[n]] \notin {"new", "line"}
      BY <1>0, <2>1, <3>1, <3>2
    <3>5. \A q \in Requests : pc'[q] \in {"end", "push", "done"} => \E n \in DOMAIN file' : file'[n] = q
      BY <1>0, <2>1, <3>2
    <3> QED BY <3>3, <3>4, <3>5
  <2> QED BY <1>5, <2>2, <2>3 DEF J!WriteFails
<1>6. ASSUME NEW r \in Requests, J!Drop(r) PROVE WrittenOnce'
  BY <1>0, <1>6 DEF J!Drop, J!Goto, J!AtWork
<1>7. ASSUME J!Crash PROVE WrittenOnce'
  BY <1>0, <1>7 DEF J!Crash, J!Working
<1>8. ASSUME J!Restart PROVE WrittenOnce'
  BY <1>0, <1>8 DEF J!Restart
<1> QED BY <1>1, <1>2, <1>3, <1>4, <1>5, <1>6, <1>7, <1>8 DEF J!Next, J!Handler

(* The file with one piece more.                                           *)
Grows(f, x, g) ==
  /\ g \in Seq(Pieces) /\ Len(f) \in Nat /\ Len(g) = Len(f) + 1
  /\ DOMAIN f = 1 .. Len(f) /\ DOMAIN g = DOMAIN f \cup {Len(f) + 1}
  /\ g[Len(f) + 1] = x
  /\ \A n \in DOMAIN f : n \in Nat /\ g[n] = f[n] /\ n # Len(f) + 1

LEMMA FileGrows ==
  ASSUME NEW f, f \in Seq(Pieces), NEW x \in Pieces, NEW g, g = Append(f, x)
  PROVE  Grows(f, x, g)
BY FileAppend DEF Grows

LEMMA ReadOrPushedNext ==
  ASSUME J!JsonlAssumption, ListInv, J!Next
  PROVE  ReadOrPushed'
<1>0. /\ ListState /\ ReadOrPushed /\ WrittenOnce
      /\ pc \in [Requests -> J!Working \cup {"new", "done", "failed"}]
      /\ file \in Seq(Pieces) /\ mem \in Seq(Requests)
  BY DEF ListInv, ListState
<1> DEFINE Keeps ==
      /\ mem' = mem
      /\ \A q \in Requests : pc[q] \in {"done", "failed"} => pc'[q] \in {"done", "failed"}
      /\ file' = file \/ \E x \in Pieces : file' = Append(file, x)
<1>9. ASSUME Keeps PROVE ReadOrPushed'
  <2>1. \A n \in DOMAIN file : n \in DOMAIN file' /\ file'[n] = file[n]
    <3>1. CASE file' = file
      BY <3>1
    <3>2. CASE \E x \in Pieces : file' = Append(file, x)
      <4>1. PICK x \in Pieces : file' = Append(file, x)
        BY <3>2
      <4> QED BY <1>0, <4>1, FileGrows DEF Grows
    <3> QED BY <1>9, <3>1, <3>2
  <2>2. \A n \in DOMAIN mem : mem[n] \in Requests
    BY <1>0
  <2> QED BY <1>0, <1>9, <2>1, <2>2 DEF ReadOrPushed
<1> HIDE DEF Keeps
<1>1. ASSUME NEW r \in Requests, J!Begin(r) PROVE Keeps
  BY <1>0, <1>1 DEF J!Begin, J!Goto, Keeps
<1>2. ASSUME NEW r \in Requests, J!WriteLine(r) PROVE Keeps
  BY <1>0, <1>2 DEF J!WriteLine, J!Goto, Keeps, Pieces
<1>3. ASSUME NEW r \in Requests, J!WriteEnd(r) PROVE Keeps
  BY <1>0, <1>3 DEF J!WriteEnd, J!Goto, Keeps, Pieces
<1>4. ASSUME NEW r \in Requests, J!Push(r) PROVE ReadOrPushed'
  <2>1. /\ mem' = Append(mem, r) /\ file' = file
        /\ \A q \in Requests : q # r => pc'[q] = pc[q]
        /\ pc[r] = "push" /\ pc'[r] = "done"
    BY <1>0, <1>4 DEF J!Push, J!Goto
  <2>2. /\ DOMAIN mem' = 1 .. Len(mem) + 1 /\ Len(mem) \in Nat /\ DOMAIN mem = 1 .. Len(mem)
        /\ \A n \in 1 .. Len(mem) : mem'[n] = mem[n] /\ mem[n] \in Requests
        /\ mem'[Len(mem) + 1] = r
    BY <1>0, <2>1
  <2>3. \A n \in 1 .. Len(mem) + 1 : n \in 1 .. Len(mem) \/ n = Len(mem) + 1
    BY <2>2
  <2>4. \A n \in 1 .. Len(mem) : mem[n] # r
    BY <1>0, <2>1, <2>2 DEF ReadOrPushed
  <2>5. IsInjective(mem')
    BY <1>0, <2>2, <2>3, <2>4 DEF ReadOrPushed, IsInjective
  <2>6. \A n \in DOMAIN mem' : pc'[mem'[n]] \in {"done", "failed"}
    BY <1>0, <2>1, <2>2, <2>3, <2>4 DEF ReadOrPushed
  <2>7. \A n \in DOMAIN mem' : \E k \in DOMAIN file' : file'[k] = mem'[n]
    BY <1>0, <2>1, <2>2, <2>3 DEF ReadOrPushed, WrittenOnce
  <2> QED BY <2>5, <2>6, <2>7 DEF ReadOrPushed
<1>5. ASSUME NEW r \in Requests, J!WriteFails(r) PROVE Keeps
  <2>1. file' = file \/ file' = Append(file, J!Torn)
    BY <1>5 DEF J!WriteFails
  <2>2. J!Torn \in Pieces
    BY DEF Pieces
  <2> QED BY <1>0, <1>5, <2>1, <2>2 DEF J!WriteFails, J!Goto, Keeps
<1>6. ASSUME NEW r \in Requests, J!Drop(r) PROVE Keeps
  BY <1>0, <1>6 DEF J!Drop, J!Goto, Keeps
<1>7. ASSUME J!Crash PROVE ReadOrPushed'
  BY <1>7 DEF J!Crash, ReadOrPushed, IsInjective
<1>8. ASSUME J!Restart PROVE ReadOrPushed'
  <2> DEFINE S == {r \in Requests : J!OneLine(r)}  m == Pick(Pieces, S, file)
  <2>1. mem' = m /\ file' = file /\ pc' = pc /\ ~up
    BY <1>0, <1>8, ThoseArePicked DEF J!Restart, J!Lines
  <2>2. m \in Seq(Pieces) /\ ToSet(m) = ToSet(file) \cap S
    BY <1>0, PickElements
  <2>3. IsInjective(m)
    <3>1. Single(file, S)
      BY <1>0 DEF WrittenOnce, Single
    <3> HIDE DEF S
    <3> QED BY <1>0, <3>1, PickSingle
  <2>4. S \subseteq Requests
    OBVIOUS
  <2> HIDE DEF S, m
  <2>5. \A n \in DOMAIN m : m[n] \in Requests /\ \E k \in DOMAIN file : file[k] = m[n]
    BY <2>2, <2>4 DEF ToSet
  <2>6. \A q \in Requests : pc[q] \notin J!Working
    BY <1>0, <2>1 DEF ListState, J!AtWork
  <2>7. \A n \in DOMAIN m : pc[m[n]] \in {"done", "failed"}
    <3> TAKE n \in DOMAIN m
    <3>1. PICK k \in DOMAIN file : file[k] = m[n]
      BY <2>5
    <3>2. m[n] \in Requests /\ pc[m[n]] # "new"
      BY <1>0, <2>5, <3>1 DEF WrittenOnce
    <3> QED BY <1>0, <2>6, <3>2
  <2> QED BY <2>1, <2>3, <2>5, <2>7 DEF ReadOrPushed
<1> QED BY <1>1, <1>2, <1>3, <1>4, <1>5, <1>6, <1>7, <1>8, <1>9 DEF J!Next, J!Handler

(* Who met somebody has met them for good.                                 *)
LEMMA MetGrows ==
  ASSUME ListState, J!Next
  PROVE  \A r \in Requests : met[r] \subseteq met'[r]
BY DEF ListState, J!Next, J!Handler, J!Begin, J!WriteLine, J!WriteEnd, J!Push, J!WriteFails, J!Drop, J!Crash, J!Restart

LEMMA StillAlone ==
  ASSUME ListState, J!Next, NEW r \in Requests, (J!With(r) = {})'
  PROVE  J!With(r) = {}
BY MetGrows DEF J!With

LEMMA HaveMetNext ==
  ASSUME ListInv, J!Next
  PROVE  HaveMet'
<1>0. /\ HaveMet /\ pc \in [Requests -> J!Working \cup {"new", "done", "failed"}]
      /\ met \in [Requests -> SUBSET Requests]
  BY DEF ListInv, ListState
<1>1. ASSUME NEW r \in Requests, J!Begin(r) PROVE HaveMet'
  <2>1. J!AtWork' = J!AtWork \cup {r}
    BY <1>0, <1>1 DEF J!Begin, J!Goto, J!AtWork, J!Working
  <2>2. J!AtWork \cup {r} \subseteq Requests
    BY DEF J!AtWork
  <2>3. met' = [q \in Requests |-> met[q] \cup {s \in J!AtWork \cup {r} : q \in J!AtWork \cup {r}}]
    BY <1>1 DEF J!Begin
  <2>4. \A q \in J!AtWork \cup {r} : J!AtWork \cup {r} \subseteq met'[q]
    BY <2>2, <2>3
  <2> QED BY <2>1, <2>4 DEF HaveMet
<1>2. ASSUME J!AtWork' \subseteq J!AtWork, met' = met PROVE HaveMet'
  BY <1>0, <1>2 DEF HaveMet
<1>3. ASSUME NEW r \in Requests, J!WriteLine(r) \/ J!WriteEnd(r) \/ J!Push(r) \/ J!WriteFails(r) \/ J!Drop(r)
      PROVE  J!AtWork' \subseteq J!AtWork /\ met' = met
  <2>1. /\ \A q \in Requests : q # r => pc'[q] = pc[q]
        /\ pc[r] \in J!Working /\ met' = met
    BY <1>0, <1>3 DEF J!WriteLine, J!WriteEnd, J!Push, J!WriteFails, J!Drop, J!Goto, J!AtWork, J!Working
  <2> QED BY <2>1 DEF J!AtWork
<1>4. ASSUME J!Crash \/ J!Restart PROVE J!AtWork' \subseteq J!AtWork /\ met' = met
  BY <1>0, <1>4 DEF J!Crash, J!Restart, J!AtWork, J!Working
<1> QED BY <1>1, <1>2, <1>3, <1>4 DEF J!Next, J!Handler

LEMMA FollowedNext ==
  ASSUME J!JsonlAssumption, ListInv, J!Next
  PROVE  Followed'
<1>0. /\ Followed /\ WrittenOnce /\ {J!EndOfLine, J!Torn} \cap Requests = {}
      /\ pc \in [Requests -> J!Working \cup {"new", "done", "failed"}]
      /\ file \in Seq(Pieces) /\ Len(file) \in Nat /\ DOMAIN file = 1 .. Len(file)
  BY DEF ListInv, ListState, J!JsonlAssumption
<1>9. ASSUME NEW x \in Pieces, file' = Append(file, x),
             x \in Requests => pc'[x] \notin {"push", "done"}
      PROVE  Followed'
  <2>1. Grows(file, x, file')
    BY <1>0, <1>9, FileGrows
  <2> QED BY <1>9, <2>1 DEF Grows, Followed
<1>1. ASSUME NEW r \in Requests, J!Begin(r) \/ J!Push(r) \/ J!Drop(r) PROVE Followed'
  BY <1>0, <1>1 DEF J!Begin, J!Push, J!Drop, J!Goto, Followed
<1>2. ASSUME NEW r \in Requests, J!WriteLine(r) PROVE Followed'
  <2>1. r \in Pieces /\ file' = Append(file, r) /\ pc'[r] \notin {"push", "done"}
    BY <1>0, <1>2 DEF J!WriteLine, J!Goto, Pieces
  <2> QED BY <1>9, <2>1
<1>3. ASSUME NEW r \in Requests, J!WriteEnd(r) PROVE Followed'
  BY <1>0, <1>3, <1>9 DEF J!WriteEnd, Pieces
<1>4. ASSUME NEW r \in Requests, J!WriteFails(r) PROVE Followed'
  <2>1. CASE file' = file
    BY <1>0, <1>4, <2>1 DEF J!WriteFails, J!Goto, Followed
  <2>2. CASE file' = Append(file, J!Torn)
    BY <1>0, <1>9, <2>2 DEF Pieces
  <2> QED BY <1>4, <2>1, <2>2 DEF J!WriteFails
<1>5. ASSUME J!Crash \/ J!Restart PROVE Followed'
  BY <1>0, <1>5 DEF J!Crash, J!Restart, Followed, J!Working
<1> QED BY <1>1, <1>2, <1>3, <1>4, <1>5 DEF J!Next, J!Handler

LEMMA EndsItsLineNext ==
  ASSUME J!JsonlAssumption, ListInv, J!Next
  PROVE  EndsItsLine'
<1>0. /\ ListState /\ EndsItsLine /\ WrittenOnce /\ HaveMet /\ {J!EndOfLine, J!Torn} \cap Requests = {}
      /\ pc \in [Requests -> J!Working \cup {"new", "done", "failed"}]
      /\ file \in Seq(Pieces) /\ Len(file) \in Nat /\ DOMAIN file = 1 .. Len(file)
  BY DEF ListInv, ListState, J!JsonlAssumption
<1> SUFFICES ASSUME NEW q \in Requests, (J!With(q) = {})', NEW n \in DOMAIN file', file'[n] = q
             PROVE  /\ pc'[q] = "end" => n = Len(file')
                    /\ pc'[q] = "push" => n + 1 = Len(file')
                    /\ pc'[q] \in {"push", "done"} => n + 1 \in DOMAIN file' /\ file'[n + 1] = J!EndOfLine
  BY DEF EndsItsLine
<1> DEFINE Goal == /\ pc'[q] = "end" => n = Len(file')
                   /\ pc'[q] = "push" => n + 1 = Len(file')
                   /\ pc'[q] \in {"push", "done"} => n + 1 \in DOMAIN file' /\ file'[n + 1] = J!EndOfLine
<1>a. J!With(q) = {}
  BY <1>0, StillAlone
<1>b. \A r \in Requests : q # r /\ pc[q] \in J!Working => pc[r] \notin J!Working
  BY <1>0, <1>a DEF HaveMet, J!With, J!AtWork
<1>c. \A k \in DOMAIN file : file[k] = q =>
        /\ pc[q] = "end" => k = Len(file)
        /\ pc[q] = "push" => k + 1 = Len(file)
        /\ pc[q] \in {"push", "done"} => k + 1 \in DOMAIN file /\ file[k + 1] = J!EndOfLine
  BY <1>0, <1>a DEF EndsItsLine
<1>9. ASSUME file' = file, pc'[q] = pc[q] \/ pc'[q] = "failed" \/ (pc[q] = "push" /\ pc'[q] = "done")
      PROVE  Goal
  BY <1>9, <1>c
<1>d. ASSUME NEW x \in Pieces, x # q, file' = Append(file, x), pc[q] = pc'[q], pc[q] \notin J!Working
      PROVE  Goal
  <2>1. Grows(file, x, file')
    BY <1>0, <1>d, FileGrows
  <2>2. n \in DOMAIN file /\ file[n] = q
    BY <1>d, <2>1 DEF Grows
  <2>3. pc[q] = "done" => n + 1 \in DOMAIN file' /\ file'[n + 1] = J!EndOfLine
    BY <1>c, <2>1, <2>2 DEF Grows
  <2> QED BY <1>d, <2>3 DEF J!Working
<1>1. ASSUME NEW r \in Requests, J!Begin(r) PROVE Goal
  <2>1. pc'[q] = pc[q] \/ pc'[q] = "line"
    BY <1>0, <1>1 DEF J!Begin, J!Goto
  <2>2. file' = file
    BY <1>1 DEF J!Begin
  <2> QED BY <1>9, <2>1, <2>2
<1>2. ASSUME NEW r \in Requests, J!WriteLine(r) PROVE Goal
  <2>1. /\ file' = Append(file, r) /\ r \in Pieces /\ pc[r] = "line"
        /\ pc'[r] \in {"end", "failed"} /\ \A k \in Requests : k # r => pc'[k] = pc[k]
    BY <1>0, <1>2 DEF J!WriteLine, J!Goto, Pieces
  <2>2. CASE q = r
    <3>1. Grows(file, r, file')
      BY <1>0, <2>1, FileGrows
    <3>2. \A k \in DOMAIN file : file[k] # r
      BY <1>0, <2>1 DEF WrittenOnce
    <3> QED BY <2>1, <2>2, <3>1, <3>2 DEF Grows
  <2>3. CASE q # r
    <3>1. pc[q] \notin J!Working /\ pc'[q] = pc[q]
      BY <1>b, <2>1, <2>3 DEF J!Working
    <3> QED BY <1>d, <2>1, <2>3, <3>1
  <2> QED BY <2>2, <2>3
<1>3. ASSUME NEW r \in Requests, J!WriteEnd(r) PROVE Goal
  <2>1. /\ file' = Append(file, J!EndOfLine) /\ J!EndOfLine \in Pieces /\ pc[r] = "end"
        /\ pc'[r] \in {"push", "failed"} /\ \A k \in Requests : k # r => pc'[k] = pc[k]
        /\ J!EndOfLine # q
    BY <1>0, <1>3 DEF J!WriteEnd, J!Goto, Pieces
  <2>2. CASE q = r
    <3>1. Grows(file, J!EndOfLine, file')
      BY <1>0, <2>1, FileGrows
    <3>2. n \in DOMAIN file /\ file[n] = q
      BY <2>1, <3>1 DEF Grows
    <3>3. n = Len(file)
      BY <1>c, <2>1, <2>2, <3>2
    <3> QED BY <2>1, <2>2, <3>1, <3>3 DEF Grows
  <2>3. CASE q # r
    <3>1. pc[q] \notin J!Working /\ pc'[q] = pc[q]
      BY <1>b, <2>1, <2>3 DEF J!Working
    <3> QED BY <1>d, <2>1, <3>1
  <2> QED BY <2>2, <2>3
<1>4. ASSUME NEW r \in Requests, J!Push(r) PROVE Goal
  <2>1. pc'[q] = pc[q] \/ (pc[q] = "push" /\ pc'[q] = "done")
    BY <1>0, <1>4 DEF J!Push, J!Goto
  <2>2. file' = file
    BY <1>4 DEF J!Push
  <2> QED BY <1>9, <2>1, <2>2
<1>5. ASSUME NEW r \in Requests, J!WriteFails(r) PROVE Goal
  <2>1. /\ file' = file \/ file' = Append(file, J!Torn)
        /\ pc[r] \in J!Working /\ pc'[r] = "failed" /\ \A k \in Requests : k # r => pc'[k] = pc[k]
    BY <1>0, <1>5 DEF J!WriteFails, J!Goto, J!Working
  <2>2. CASE q = r
    BY <2>1, <2>2
  <2>3. CASE q # r
    <3>1. pc[q] \notin J!Working /\ pc'[q] = pc[q]
      BY <1>b, <2>1, <2>3
    <3>2. J!Torn \in Pieces /\ J!Torn # q
      BY <1>0 DEF Pieces
    <3> QED BY <1>9, <1>d, <2>1, <3>1, <3>2
  <2> QED BY <2>2, <2>3
<1>6. ASSUME NEW r \in Requests, J!Drop(r) PROVE Goal
  <2>1. pc'[q] = pc[q] \/ pc'[q] = "failed"
    BY <1>0, <1>6 DEF J!Drop, J!Goto
  <2>2. file' = file
    BY <1>6 DEF J!Drop
  <2> QED BY <1>9, <2>1, <2>2
<1>7. ASSUME J!Crash \/ J!Restart PROVE Goal
  <2>1. pc'[q] = pc[q] \/ pc'[q] = "failed"
    BY <1>0, <1>7 DEF J!Crash, J!Restart
  <2>2. file' = file
    BY <1>7 DEF J!Crash, J!Restart
  <2> QED BY <1>9, <2>1, <2>2
<1> QED BY <1>1, <1>2, <1>3, <1>4, <1>5, <1>6, <1>7 DEF J!Next, J!Handler

LEMMA StartsItsLineNext ==
  ASSUME J!JsonlAssumption, ListInv, J!Next
  PROVE  StartsItsLine'
<1>0. /\ ListState /\ StartsItsLine /\ WrittenOnce /\ HaveMet /\ Followed
      /\ {J!EndOfLine, J!Torn} \cap Requests = {}
      /\ pc \in [Requests -> J!Working \cup {"new", "done", "failed"}]
      /\ file \in Seq(Pieces) /\ Len(file) \in Nat /\ DOMAIN file = 1 .. Len(file)
  BY DEF ListInv, ListState, J!JsonlAssumption
<1> DEFINE Left(f, p, k) == f[k] \in {J!EndOfLine, J!Torn} \/ (f[k] \in Requests /\ p[f[k]] = "failed")
<1> SUFFICES ASSUME NEW q \in Requests, (J!With(q) = {})', pc'[q] \in {"end", "push", "done"},
                    NEW n \in DOMAIN file', file'[n] = q, n # 1
             PROVE  Left(file', pc', n - 1)
  BY DEF StartsItsLine
<1>a. J!With(q) = {}
  BY <1>0, StillAlone
<1>b. \A k \in DOMAIN file : file[k] = q /\ k # 1 /\ pc[q] \in {"end", "push", "done"} => Left(file, pc, k - 1)
  BY <1>0, <1>a DEF StartsItsLine
<1> HIDE DEF Left
<1>c. \A r \in Requests : pc[r] = "failed" => pc'[r] = "failed"
  BY <1>0 DEF J!Next, J!Handler, J!Begin, J!WriteLine, J!WriteEnd, J!Push, J!WriteFails, J!Drop, J!Crash, J!Restart, J!Goto,
              J!AtWork, J!Working
<1>d. \A k \in DOMAIN file : k # 1 => k - 1 \in DOMAIN file
  BY <1>0
<1>8. ASSUME file' = file, pc[q] \in {"end", "push", "done"}
      PROVE  Left(file', pc', n - 1)
  <2>1. Left(file, pc, n - 1)
    BY <1>8, <1>b
  <2> QED BY <1>8, <1>c, <2>1 DEF Left
<1>9. ASSUME NEW x \in Pieces, file' = Append(file, x), x # q, pc[q] \in {"end", "push", "done"}
      PROVE  Left(file', pc', n - 1)
  <2>1. Grows(file, x, file')
    BY <1>0, <1>9, FileGrows
  <2>2. n \in DOMAIN file /\ n - 1 \in DOMAIN file
    BY <1>9, <1>d, <2>1 DEF Grows
  <2>3. Left(file, pc, n - 1) /\ file'[n - 1] = file[n - 1]
    BY <1>9, <1>b, <2>1, <2>2 DEF Grows
  <2> QED BY <1>c, <2>3 DEF Left
<1>1. ASSUME NEW r \in Requests, J!Begin(r) \/ J!Push(r) \/ J!Drop(r) PROVE Left(file', pc', n - 1)
  <2>1. file' = file /\ pc[q] \in {"end", "push", "done"}
    BY <1>0, <1>1 DEF J!Begin, J!Push, J!Drop, J!Goto
  <2> QED BY <1>8, <2>1
<1>2. ASSUME NEW r \in Requests, J!WriteLine(r) PROVE Left(file', pc', n - 1)
  <2>1. /\ file' = Append(file, r) /\ r \in Pieces /\ pc[r] = "line"
        /\ \A k \in Requests : k # r => pc'[k] = pc[k]
    BY <1>0, <1>2 DEF J!WriteLine, J!Goto, Pieces
  <2>2. CASE q = r
    <3>1. Grows(file, r, file')
      BY <1>0, <2>1, FileGrows
    <3>2. \A k \in DOMAIN file : file[k] # r
      BY <1>0, <2>1 DEF WrittenOnce
    <3>3. n = Len(file) + 1
      BY <2>2, <3>1, <3>2 DEF Grows
    <3>4. n - 1 = Len(file) /\ Len(file) \in DOMAIN file
      BY <1>0, <3>1, <3>3 DEF Grows
    <3> DEFINE x == file[Len(file)]
    <3>5. file'[n - 1] = x /\ x \in Pieces
      BY <1>0, <3>1, <3>4 DEF Grows
    <3>6. ASSUME x \in Requests PROVE pc'[x] = "failed"
      <4>1. pc[x] \notin {"new", "line"}
        BY <1>0, <3>4, <3>6 DEF WrittenOnce
      <4>2. pc[x] \notin {"push", "done"}
        BY <1>0, <3>4, <3>6 DEF Followed
      <4>3. x # r
        BY <3>2, <3>4
      <4>4. pc[x] # "end"
        BY <1>0, <1>a, <2>1, <2>2, <3>6, <4>3 DEF HaveMet, J!With, J!AtWork, J!Working
      <4>5. pc[x] = "failed"
        BY <1>0, <3>6, <4>1, <4>2, <4>4 DEF J!Working
      <4> QED BY <1>c, <3>6, <4>5
    <3> QED BY <3>5, <3>6 DEF Left, Pieces
  <2>3. CASE q # r
    BY <1>9, <2>1, <2>3
  <2> QED BY <2>2, <2>3
<1>3. ASSUME NEW r \in Requests, J!WriteEnd(r) PROVE Left(file', pc', n - 1)
  <2>1. /\ file' = Append(file, J!EndOfLine) /\ J!EndOfLine \in Pieces /\ J!EndOfLine # q
        /\ pc[q] \in {"end", "push", "done"}
    BY <1>0, <1>3 DEF J!WriteEnd, J!Goto, Pieces
  <2> QED BY <1>9, <2>1
<1>4. ASSUME NEW r \in Requests, J!WriteFails(r) PROVE Left(file', pc', n - 1)
  <2>1. /\ file' = file \/ file' = Append(file, J!Torn)
        /\ pc[q] \in {"end", "push", "done"} /\ J!Torn \in Pieces /\ J!Torn # q
    BY <1>0, <1>4 DEF J!WriteFails, J!Goto, Pieces
  <2> QED BY <1>8, <1>9, <2>1
<1>5. ASSUME J!Crash \/ J!Restart PROVE Left(file', pc', n - 1)
  <2>1. file' = file /\ pc[q] \in {"end", "push", "done"}
    BY <1>0, <1>5 DEF J!Crash, J!Restart, J!Working
  <2> QED BY <1>8, <2>1
<1> QED BY <1>1, <1>2, <1>3, <1>4, <1>5 DEF J!Next, J!Handler

LEMMA TornBySomeoneNext ==
  ASSUME J!JsonlAssumption, ListInv, J!Next
  PROVE  TornBySomeone'
<1>0. /\ ListState /\ TornBySomeone /\ WrittenOnce
      /\ {J!EndOfLine, J!Torn} \cap Requests = {}
      /\ pc \in [Requests -> J!Working \cup {"new", "done", "failed"}]
      /\ file \in Seq(Pieces) /\ Len(file) \in Nat /\ DOMAIN file = 1 .. Len(file)
  BY DEF ListInv, ListState, J!JsonlAssumption
<1>a. J!EndOfLine # J!Torn
  BY DEF J!EndOfLine, J!Torn
<1>c. \A r \in Requests : pc[r] = "failed" => pc'[r] = "failed"
  BY <1>0 DEF J!Next, J!Handler, J!Begin, J!WriteLine, J!WriteEnd, J!Push, J!WriteFails, J!Drop, J!Crash, J!Restart, J!Goto,
              J!AtWork, J!Working
<1>8. ASSUME TornPlaces' = TornPlaces, Tore \subseteq Tore' PROVE TornBySomeone'
  <2>1. PICK f \in [TornPlaces -> Tore] : \A n, k \in TornPlaces : f[n] = f[k] => n = k
    BY <1>0 DEF TornBySomeone
  <2>2. f \in [TornPlaces' -> Tore']
    BY <1>8, <2>1
  <2> QED BY <1>8, <2>1, <2>2 DEF TornBySomeone
<1>9. ASSUME file' = file PROVE TornBySomeone'
  BY <1>8, <1>9, <1>c DEF TornPlaces, Tore
<1>1. ASSUME NEW x \in Pieces, x # J!Torn, x \in Requests => pc[x] # "failed", file' = Append(file, x)
      PROVE  TornBySomeone'
  <2>1. Grows(file, x, file')
    BY <1>0, <1>1, FileGrows
  <2>2. TornPlaces' = TornPlaces
    BY <1>1, <2>1 DEF TornPlaces, Grows
  <2>3. Tore \subseteq Tore'
    BY <1>1, <1>c, <2>1 DEF Tore, Grows
  <2> QED BY <1>8, <2>2, <2>3
<1>2. ASSUME NEW r \in Requests, J!WriteLine(r) PROVE TornBySomeone'
  <2>1. r \in Pieces /\ file' = Append(file, r) /\ pc[r] # "failed" /\ r # J!Torn
    BY <1>0, <1>2 DEF J!WriteLine, Pieces
  <2> QED BY <1>1, <2>1
<1>3. ASSUME NEW r \in Requests, J!WriteEnd(r) PROVE TornBySomeone'
  <2>1. file' = Append(file, J!EndOfLine) /\ J!EndOfLine \in Pieces /\ J!EndOfLine \notin Requests
    BY <1>0, <1>3 DEF J!WriteEnd, Pieces
  <2> QED BY <1>a, <1>1, <2>1
<1>4. ASSUME NEW r \in Requests, J!WriteFails(r), file' # file PROVE TornBySomeone'
  <2>1. file' = Append(file, J!Torn) /\ J!Torn \in Pieces /\ pc[r] = "line" /\ pc'[r] = "failed"
    BY <1>0, <1>4 DEF J!WriteFails, J!Goto, Pieces
  <2>2. Grows(file, J!Torn, file')
    BY <1>0, <2>1, FileGrows
  <2> DEFINE new == Len(file) + 1
  <2>3. TornPlaces' = TornPlaces \cup {new} /\ new \notin TornPlaces
    BY <2>2 DEF TornPlaces, Grows
  <2>4. Tore \subseteq Tore'
    BY <1>0, <1>c, <2>2 DEF Tore, Grows
  <2>5. r \in Tore' /\ r \notin Tore
    BY <1>0, <2>1, <2>2 DEF Tore, Grows, WrittenOnce
  <2> HIDE DEF new
  <2>6. PICK f \in [TornPlaces -> Tore] : \A n, k \in TornPlaces : f[n] = f[k] => n = k
    BY <1>0 DEF TornBySomeone
  <2> DEFINE g == [n \in TornPlaces' |-> IF n = new THEN r ELSE f[n]]
  <2>7. \A n \in TornPlaces : f[n] \in Tore /\ f[n] # r /\ n # new
    BY <2>3, <2>5, <2>6
  <2>8. g \in [TornPlaces' -> Tore']
    BY <2>3, <2>4, <2>5, <2>7
  <2>9. \A n, k \in TornPlaces' : g[n] = g[k] => n = k
    BY <2>3, <2>6, <2>7
  <2> HIDE DEF g
  <2> QED BY <2>8, <2>9 DEF TornBySomeone
<1>5. ASSUME NEW r \in Requests, J!Begin(r) \/ J!Push(r) \/ J!Drop(r) PROVE file' = file
  BY <1>5 DEF J!Begin, J!Push, J!Drop
<1>6. ASSUME J!Crash \/ J!Restart PROVE file' = file
  BY <1>6 DEF J!Crash, J!Restart
<1> QED BY <1>2, <1>3, <1>4, <1>5, <1>6, <1>9 DEF J!Next, J!Handler

LEMMA FewHaveComeNext ==
  ASSUME ListInv, J!Next
  PROVE  FewHaveCome'
<1>0. FewHaveCome /\ pc \in [Requests -> J!Working \cup {"new", "done", "failed"}]
  BY DEF ListInv, ListState
<1>1. ASSUME NEW r \in Requests, J!Begin(r) PROVE Come' = Come \cup {r}
  BY <1>0, <1>1 DEF J!Begin, J!Goto, Come
<1>2. ASSUME NEW r \in Requests, J!WriteLine(r) \/ J!WriteEnd(r) \/ J!Push(r) \/ J!WriteFails(r) \/ J!Drop(r)
      PROVE  Come' = Come
  <2>1. /\ \A q \in Requests : q # r => pc'[q] = pc[q]
        /\ pc[r] # "new" /\ pc'[r] # "new"
    BY <1>0, <1>2 DEF J!WriteLine, J!WriteEnd, J!Push, J!WriteFails, J!Drop, J!Goto, J!AtWork, J!Working
  <2> QED BY <2>1 DEF Come
<1>3. ASSUME J!Crash \/ J!Restart PROVE Come' = Come
  BY <1>0, <1>3 DEF J!Crash, J!Restart, Come, J!Working
<1>4. \A r \in Requests : IsFiniteSet(Come \cup {r})
  BY <1>0, FS_AddElement DEF FewHaveCome
<1> QED BY <1>0, <1>1, <1>2, <1>3, <1>4 DEF J!Next, J!Handler, FewHaveCome

(* An entry that is in the file has one place there.                       *)
LEMMA OnePlace ==
  ASSUME ListState, WrittenOnce, NEW n \in DOMAIN file, file[n] \in Requests
  PROVE  /\ J!Place(file[n]) = n
         /\ J!OneLine(file[n]) <=> OnItsLine(file, n)
<1>1. \A k \in DOMAIN file : file[k] = file[n] => k = n
  BY DEF WrittenOnce, Single
<1>2. J!Place(file[n]) = n
  BY <1>1 DEF J!Place
<1>3. file[n] \in ToSet(file)
  BY DEF ToSet
<1> QED BY <1>2, <1>3 DEF J!OneLine, J!Range, ToSet, OnItsLine

LEMMA LinesAre ==
  ASSUME ListState, WrittenOnce
  PROVE  /\ J!Lines = Pick(Pieces, {r \in Requests : J!OneLine(r)}, file)
         /\ J!Lines \in Seq(Pieces)
         /\ ToSet(J!Lines) = {r \in Requests : J!OneLine(r)}
<1> DEFINE S == {r \in Requests : J!OneLine(r)}
<1>0. file \in Seq(Pieces)
  BY DEF ListState
<1>1. J!Lines = Pick(Pieces, S, file)
  BY <1>0, ThoseArePicked DEF J!Lines
<1>2. S \subseteq ToSet(file)
  BY DEF J!OneLine, J!Range, ToSet
<1> HIDE DEF S
<1>3. Pick(Pieces, S, file) \in Seq(Pieces) /\ ToSet(Pick(Pieces, S, file)) = ToSet(file) \cap S
  BY <1>0, PickElements
<1>4. J!Lines = Pick(Pieces, S, file) /\ J!Lines \in Seq(Pieces) /\ ToSet(J!Lines) = S
  BY <1>1, <1>2, <1>3
<1> QED BY <1>4 DEF S

LEMMA ShownNext ==
  ASSUME J!JsonlAssumption, ListInv, J!Next
  PROVE  Shown'
<1>0. /\ ListState /\ Shown /\ WrittenOnce /\ {J!EndOfLine, J!Torn} \cap Requests = {}
      /\ pc \in [Requests -> J!Working \cup {"new", "done", "failed"}]
      /\ file \in Seq(Pieces) /\ mem \in Seq(Requests)
  BY DEF ListInv, ListState, J!JsonlAssumption
<1>9. ASSUME NEW r \in Requests, \A q \in Requests : q # r => pc'[q] = pc[q], pc'[r] # "done",
             up' = up, mem' = mem
      PROVE  /\ file' = file => Shown'
             /\ \A x \in Pieces : file' = Append(file, x) /\ (x \in Requests => x = r) => Shown'
  <2>1. file' = file => Shown'
    BY <1>0, <1>9 DEF Shown
  <2>2. ASSUME NEW x \in Pieces, file' = Append(file, x), x \in Requests => x = r PROVE Shown'
    <3>1. Grows(file, x, file')
      BY <1>0, <2>2, FileGrows
    <3>2. ASSUME up, NEW n \in DOMAIN file', file'[n] \in Requests, pc'[file'[n]] = "done",
                 OnItsLine(file', n)
          PROVE  \E k \in DOMAIN mem : mem[k] = file'[n]
      <4>1. n \in DOMAIN file /\ file'[n] = file[n] /\ file[n] # r
        BY <1>9, <2>2, <3>1, <3>2 DEF Grows
      <4>2. OnItsLine(file, n)
        BY <3>1, <3>2 DEF OnItsLine, Grows
      <4> QED BY <1>0, <1>9, <3>2, <4>1, <4>2 DEF Shown
    <3> QED BY <1>9, <3>2 DEF Shown
  <2> QED BY <2>1, <2>2
<1>1. ASSUME NEW r \in Requests, J!Begin(r) \/ J!Drop(r) PROVE Shown'
  <2>1. /\ \A q \in Requests : q # r => pc'[q] = pc[q]
        /\ pc'[r] # "done" /\ file' = file /\ up' = up /\ mem' = mem
    BY <1>0, <1>1 DEF J!Begin, J!Drop, J!Goto, J!AtWork, J!Working
  <2> QED BY <1>9, <2>1
<1>2. ASSUME NEW r \in Requests, J!WriteLine(r) PROVE Shown'
  <2>1. /\ \A q \in Requests : q # r => pc'[q] = pc[q]
        /\ pc'[r] # "done" /\ file' = Append(file, r) /\ r \in Pieces /\ up' = up /\ mem' = mem
    BY <1>0, <1>2 DEF J!WriteLine, J!Goto, Pieces
  <2> QED BY <1>9, <2>1
<1>3. ASSUME NEW r \in Requests, J!WriteEnd(r) PROVE Shown'
  <2>1. /\ \A q \in Requests : q # r => pc'[q] = pc[q]
        /\ pc'[r] # "done" /\ file' = Append(file, J!EndOfLine) /\ J!EndOfLine \in Pieces
        /\ J!EndOfLine \notin Requests /\ up' = up /\ mem' = mem
    BY <1>0, <1>3 DEF J!WriteEnd, J!Goto, Pieces
  <2> QED BY <1>9, <2>1
<1>4. ASSUME NEW r \in Requests, J!Push(r) PROVE Shown'
  <2>1. /\ mem' = Append(mem, r) /\ file' = file /\ up' = up
        /\ \A q \in Requests : q # r => pc'[q] = pc[q]
    BY <1>0, <1>4 DEF J!Push, J!Goto
  <2>2. /\ DOMAIN mem' = DOMAIN mem \cup {Len(mem) + 1}
        /\ mem'[Len(mem) + 1] = r
        /\ \A k \in DOMAIN mem : mem'[k] = mem[k]
    BY <1>0, <2>1
  <2> QED BY <1>0, <2>1, <2>2 DEF Shown
<1>5. ASSUME NEW r \in Requests, J!WriteFails(r) PROVE Shown'
  <2>1. /\ \A q \in Requests : q # r => pc'[q] = pc[q]
        /\ pc'[r] # "done" /\ up' = up /\ mem' = mem
        /\ file' = file \/ file' = Append(file, J!Torn)
    BY <1>0, <1>5 DEF J!WriteFails, J!Goto
  <2>2. J!Torn \in Pieces /\ J!Torn \notin Requests
    BY <1>0 DEF Pieces
  <2> QED BY <1>9, <2>1, <2>2
<1>6. ASSUME J!Crash PROVE Shown'
  BY <1>6 DEF J!Crash, Shown
<1>7. ASSUME J!Restart PROVE Shown'
  <2>1. mem' = J!Lines /\ file' = file /\ pc' = pc
    BY <1>7 DEF J!Restart
  <2>2. ToSet(mem') = {r \in Requests : J!OneLine(r)}
    BY <1>0, <2>1, LinesAre
  <2>3. ASSUME NEW n \in DOMAIN file, file[n] \in Requests, OnItsLine(file, n)
        PROVE  \E k \in DOMAIN mem' : mem'[k] = file[n]
    <3>1. file[n] \in ToSet(mem')
      BY <1>0, <2>2, <2>3, OnePlace
    <3> QED BY <3>1 DEF ToSet
  <2> QED BY <2>1, <2>3 DEF Shown
<1> QED BY <1>1, <1>2, <1>3, <1>4, <1>5, <1>6, <1>7 DEF J!Next, J!Handler

LEMMA InFileOrderNext ==
  ASSUME J!JsonlAssumption, ListInv, J!Next
  PROVE  InFileOrder'
<1>0. /\ ListState /\ InFileOrder /\ WrittenOnce /\ ReadOrPushed /\ EndsItsLine
      /\ {J!EndOfLine, J!Torn} \cap Requests = {}
      /\ pc \in [Requests -> J!Working \cup {"new", "done", "failed"}]
      /\ file \in Seq(Pieces) /\ mem \in Seq(Requests)
  BY DEF ListInv, ListState, J!JsonlAssumption
<1> SUFFICES ASSUME up', \A r \in Requests : (J!With(r) = {})'
             PROVE  mem' = Pick(Pieces, ToSet(mem'), file')
  BY DEF InFileOrder
<1>a. \A r \in Requests : J!With(r) = {}
  BY <1>0, StillAlone
<1>b. ASSUME up PROVE mem = Pick(Pieces, ToSet(mem), file)
  BY <1>0, <1>a, <1>b DEF InFileOrder
<1>8. ASSUME up, mem' = mem, file' = file PROVE mem' = Pick(Pieces, ToSet(mem'), file')
  BY <1>8, <1>b
<1>9. ASSUME up, mem' = mem, NEW x \in Pieces, file' = Append(file, x), x \notin ToSet(mem)
      PROVE  mem' = Pick(Pieces, ToSet(mem'), file')
  <2>1. Pick(Pieces, ToSet(mem), Append(file, x)) = Pick(Pieces, ToSet(mem), file)
    BY <1>0, <1>9, PickAppend
  <2> QED BY <1>9, <1>b, <2>1
<1>c. \A r \in ToSet(mem) : r \in Requests /\ pc[r] \in {"done", "failed"}
  BY <1>0 DEF ToSet, ReadOrPushed
<1>d. \A r \in Requests : pc[r] \in J!Working => up
  BY <1>0 DEF ListState, J!AtWork
<1>1. ASSUME NEW r \in Requests, J!Begin(r) \/ J!Drop(r) PROVE mem' = Pick(Pieces, ToSet(mem'), file')
  BY <1>1, <1>8 DEF J!Begin, J!Drop
<1>2. ASSUME NEW r \in Requests, J!WriteLine(r) PROVE mem' = Pick(Pieces, ToSet(mem'), file')
  BY <1>2, <1>9, <1>c, <1>d DEF J!WriteLine, Pieces, J!Working
<1>3. ASSUME NEW r \in Requests, J!WriteEnd(r) PROVE mem' = Pick(Pieces, ToSet(mem'), file')
  BY <1>0, <1>3, <1>9, <1>c, <1>d DEF J!WriteEnd, Pieces, J!Working
<1>4. ASSUME NEW r \in Requests, J!Push(r) PROVE mem' = Pick(Pieces, ToSet(mem'), file')
  <2>1. mem' = Append(mem, r) /\ file' = file /\ pc[r] = "push" /\ up
    BY <1>4, <1>d DEF J!Push, J!Working
  <2> DEFINE L == Len(file)
  <2>2. L \in Nat /\ DOMAIN file = 1 .. L
    BY <1>0
  <2>3. PICK n \in DOMAIN file : file[n] = r
    BY <1>0, <2>1 DEF WrittenOnce
  <2>4. n + 1 = L /\ file[L] = J!EndOfLine
    BY <1>0, <1>a, <2>1, <2>3 DEF EndsItsLine
  <2> HIDE DEF L
  <2>5. n \in Nat /\ n - 1 \in Nat /\ L = n + 1 /\ \A k \in 1 .. L : file[k] \in Pieces
    BY <1>0, <2>2, <2>3, <2>4
  <2> DEFINE head == SubSeq(file, 1, n - 1)  line == Append(head, r)
  <2>6. /\ head \in Seq(Pieces) /\ Len(head) = n - 1 /\ DOMAIN head = 1 .. n - 1
        /\ \A k \in 1 .. n - 1 : head[k] = file[k]
    BY <1>0, <2>2, <2>5
  <2> HIDE DEF head
  <2>7. /\ line \in Seq(Pieces) /\ Len(line) = n /\ DOMAIN line = 1 .. n
        /\ \A k \in 1 .. n : line[k] = file[k]
    <3>1. r \in Pieces
      BY DEF Pieces
    <3>2. line \in Seq(Pieces) /\ Len(line) = n /\ DOMAIN line = 1 .. n
      BY <2>5, <2>6, <3>1
    <3>3. \A k \in 1 .. n - 1 : line[k] = head[k]
      BY <2>5, <2>6
    <3>4. line[n] = r
      BY <2>5, <2>6
    <3>5. \A k \in 1 .. n : k \in 1 .. n - 1 \/ k = n
      BY <2>5
    <3> QED BY <2>3, <2>6, <3>2, <3>3, <3>4, <3>5
  <2> HIDE DEF line
  <2>8. file = Append(line, J!EndOfLine)
    <3> DEFINE all == Append(line, J!EndOfLine)
    <3>1. J!EndOfLine \in Pieces
      BY DEF Pieces
    <3>2. all \in Seq(Pieces) /\ Len(all) = n + 1 /\ all[n + 1] = J!EndOfLine
          /\ \A k \in 1 .. n : all[k] = line[k]
      BY <2>5, <2>7, <3>1
    <3> HIDE DEF all
    <3>3. \A k \in 1 .. n + 1 : all[k] = file[k]
      BY <2>4, <2>5, <2>7, <3>2
    <3>4. file = all
      BY <1>0, <2>2, <2>5, <3>2, <3>3, SeqEqual DEF L
    <3> QED BY <3>4 DEF all
  <2> DEFINE M == ToSet(mem)
  <2>9. ToSet(mem') = M \cup {r}
    BY <1>0, <2>1, ToSetAppend
  <2> HIDE DEF M
  <2>10. r \notin M /\ J!EndOfLine \notin M /\ J!EndOfLine # r /\ r \in Pieces /\ J!EndOfLine \in Pieces
    BY <1>0, <1>c, <2>1 DEF M, Pieces
  <2>11. r \notin ToSet(head)
    <3>1. \A k \in 1 .. n - 1 : k \in DOMAIN file /\ k # n
      BY <2>2, <2>5
    <3>2. \A k \in 1 .. n - 1 : file[k] # r
      BY <1>0, <2>3, <3>1 DEF WrittenOnce, Single
    <3> QED BY <2>6, <3>2 DEF ToSet
  <2>12. Pick(Pieces, M, file) = Pick(Pieces, M, head)
    <3>1. Pick(Pieces, M, file) = Pick(Pieces, M, line)
      BY <2>7, <2>8, <2>10, PickAppend
    <3>2. Pick(Pieces, M, line) = Pick(Pieces, M, head)
      BY <2>6, <2>10, PickAppend DEF line
    <3> QED BY <3>1, <3>2
  <2>13. Pick(Pieces, M \cup {r}, file) = Append(Pick(Pieces, M \cup {r}, head), r)
    <3>1. Pick(Pieces, M \cup {r}, file) = Pick(Pieces, M \cup {r}, line)
      <4>1. J!EndOfLine \notin M \cup {r}
        BY <2>10
      <4> QED BY <2>7, <2>8, <2>10, <4>1, PickAppend
    <3>2. Pick(Pieces, M \cup {r}, line) = Append(Pick(Pieces, M \cup {r}, head), r)
      <4>1. r \in M \cup {r}
        OBVIOUS
      <4> QED BY <2>6, <2>10, <4>1, PickAppend DEF line
    <3> QED BY <3>1, <3>2
  <2>14. Pick(Pieces, M \cup {r}, head) = Pick(Pieces, M, head)
    <3>1. ToSet(head) \cap (M \cup {r}) = ToSet(head) \cap M
      BY <2>11
    <3> QED BY <2>6, <3>1, PickSame
  <2>15. mem = Pick(Pieces, M, file)
    BY <1>b, <2>1 DEF M
  <2> QED BY <2>1, <2>9, <2>12, <2>13, <2>14, <2>15
<1>5. ASSUME NEW r \in Requests, J!WriteFails(r) PROVE mem' = Pick(Pieces, ToSet(mem'), file')
  <2>1. up /\ mem' = mem /\ (file' = file \/ file' = Append(file, J!Torn))
    BY <1>5, <1>d DEF J!WriteFails, J!Working
  <2>2. J!Torn \in Pieces /\ J!Torn \notin ToSet(mem)
    BY <1>0, <1>c DEF Pieces
  <2> QED BY <1>8, <1>9, <2>1, <2>2
<1>6. ASSUME J!Crash PROVE FALSE
  BY <1>6 DEF J!Crash
<1>7. ASSUME J!Restart PROVE mem' = Pick(Pieces, ToSet(mem'), file')
  <2> DEFINE S == {r \in Requests : J!OneLine(r)}
  <2>1. mem' = J!Lines /\ file' = file
    BY <1>7 DEF J!Restart
  <2>2. J!Lines = Pick(Pieces, S, file) /\ ToSet(J!Lines) = S
    BY <1>0, LinesAre
  <2> QED BY <2>1, <2>2
<1> QED BY <1>1, <1>2, <1>3, <1>4, <1>5, <1>6, <1>7 DEF J!Next, J!Handler

LEMMA ListNext ==
  ASSUME J!JsonlAssumption, ListInv, J!Next
  PROVE  ListInv'
BY ListStateNext, WrittenOnceNext, ReadOrPushedNext, HaveMetNext, FollowedNext, EndsItsLineNext,
   StartsItsLineNext, TornBySomeoneNext, FewHaveComeNext, ShownNext, InFileOrderNext DEF ListInv

(* The properties of the store follow from the invariant.                  *)
LEMMA ListTypeOK ==
  ASSUME ListInv
  PROVE  J!TypeOK
<1>0. ListState /\ WrittenOnce /\ ReadOrPushed
  BY DEF ListInv
<1>1. ToSet(mem) \subseteq Requests /\ IsInjective(mem)
  BY <1>0 DEF ListState, ReadOrPushed, ToSet
<1>2. ToSet(file) \subseteq Requests \cup {J!EndOfLine, J!Torn}
  BY <1>0 DEF ListState, Pieces, ToSet
<1>3. \A r \in Requests : pc[r] \in {"end", "push", "done"} => r \in ToSet(file)
  BY <1>0 DEF WrittenOnce, ToSet
<1> QED BY <1>0, <1>1, <1>2, <1>3 DEF ListState, J!TypeOK, J!Range, ToSet, J!IsInjective, IsInjective

LEMMA SavesAreKept ==
  ASSUME J!JsonlAssumption, ListInv
  PROVE  J!SavedIsKept
<1> DEFINE lost == {r \in Requests : pc[r] = "done" /\ ~J!OneLine(r)}
           failed == {r \in Requests : pc[r] = "failed"}
<1>0. /\ ListState /\ WrittenOnce /\ EndsItsLine /\ StartsItsLine /\ TornBySomeone /\ FewHaveCome
      /\ {J!EndOfLine, J!Torn} \cap Requests = {}
      /\ file \in Seq(Pieces) /\ Len(file) \in Nat /\ DOMAIN file = 1 .. Len(file)
  BY DEF ListInv, ListState, J!JsonlAssumption
<1>1. ASSUME NEW r \in lost, J!With(r) = {}
      PROVE  /\ file[J!Place(r)] = r /\ J!Place(r) \in DOMAIN file /\ J!Place(r) - 1 \in DOMAIN file
             /\ file[J!Place(r) - 1] \in failed \cup {J!Torn}
  <2>1. PICK n \in DOMAIN file : file[n] = r
    BY <1>0, <1>1 DEF WrittenOnce
  <2>2. J!Place(r) = n /\ ~ OnItsLine(file, n)
    BY <1>0, <1>1, <2>1, OnePlace
  <2>3. n + 1 \in DOMAIN file /\ file[n + 1] = J!EndOfLine
    BY <1>0, <1>1, <2>1 DEF EndsItsLine
  <2>4. n - 1 \in DOMAIN file /\ file[n - 1] # J!EndOfLine
    BY <2>2, <2>3 DEF OnItsLine
  <2>5. n # 1
    BY <1>0, <2>4
  <2>6. file[n - 1] \in {J!EndOfLine, J!Torn} \/ (file[n - 1] \in Requests /\ pc[file[n - 1]] = "failed")
    BY <1>0, <1>1, <2>1, <2>5 DEF StartsItsLine
  <2> QED BY <2>1, <2>2, <2>4, <2>6
<1>2. ASSUME NEW r \in lost, J!With(r) = {}
      PROVE  J!Before(r) \in failed \cup {J!Torn}
  BY <1>1, <1>2 DEF J!Before
<1>3. ASSUME \A r \in Requests : J!With(r) = {}
      PROVE  Cardinality(lost) <= Cardinality(failed)
  <2>1. PICK f \in [TornPlaces -> Tore] : \A n, k \in TornPlaces : f[n] = f[k] => n = k
    BY <1>0 DEF TornBySomeone
  <2> DEFINE before(r) == file[J!Place(r) - 1]
             g == [r \in lost |-> IF before(r) = J!Torn THEN f[J!Place(r) - 1] ELSE before(r)]
  <2>2. ASSUME NEW r \in lost
        PROVE  /\ J!Place(r) \in DOMAIN file /\ J!Place(r) - 1 \in DOMAIN file /\ file[J!Place(r)] = r
               /\ before(r) = J!Torn => J!Place(r) - 1 \in TornPlaces /\ f[J!Place(r) - 1] \in Tore
               /\ before(r) # J!Torn => before(r) \in failed
    BY <1>1, <1>3, <2>1 DEF TornPlaces
  <2>3. Tore \subseteq failed
    BY DEF Tore
  <2>4. g \in [lost -> failed]
    BY <2>2, <2>3
  <2>5. ASSUME NEW r \in lost, NEW q \in lost, g[r] = g[q] PROVE r = q
    <3>1. J!Place(r) \in Nat /\ J!Place(q) \in Nat
      BY <1>0, <2>2
    <3>2. J!Place(r) - 1 = J!Place(q) - 1 => r = q
      <4>1. J!Place(r) - 1 = J!Place(q) - 1 => J!Place(r) = J!Place(q)
        BY <3>1
      <4> QED BY <2>2, <4>1
    <3>3. CASE before(r) = J!Torn /\ before(q) = J!Torn
      BY <2>1, <2>2, <2>5, <3>2, <3>3
    <3>4. CASE before(r) # J!Torn /\ before(q) # J!Torn
      BY <1>0, <2>2, <2>5, <3>2, <3>4 DEF WrittenOnce, Single
    <3>5. CASE before(r) = J!Torn /\ before(q) # J!Torn
      BY <2>2, <2>5, <3>5 DEF Tore
    <3>6. CASE before(r) # J!Torn /\ before(q) = J!Torn
      BY <2>2, <2>5, <3>6 DEF Tore
    <3> QED BY <3>3, <3>4, <3>5, <3>6
  <2>6. IsFiniteSet(failed) /\ IsFiniteSet(lost)
    <3>1. failed \subseteq Come /\ lost \subseteq Come
      BY DEF Come
    <3> HIDE DEF failed, lost
    <3> QED BY <1>0, <3>1, FS_Subset DEF FewHaveCome
  <2> HIDE DEF lost, failed, g
  <2>7. g \in Injection(lost, failed)
    BY <2>4, <2>5 DEF Injection, IsInjective
  <2> QED BY <2>6, <2>7, FS_Injection
<1> QED BY <1>2, <1>3 DEF J!SavedIsKept, J!Cardinality, Cardinality

LEMMA ListTellsTheFile ==
  ASSUME J!JsonlAssumption, ListInv
  PROVE  J!ListTellsFile
<1>0. /\ ListState /\ WrittenOnce /\ ReadOrPushed /\ Shown /\ InFileOrder
      /\ {J!EndOfLine, J!Torn} \cap Requests = {}
      /\ file \in Seq(Pieces) /\ mem \in Seq(Requests)
  BY DEF ListInv, ListState, J!JsonlAssumption
<1>1. ToSet(mem) \subseteq ToSet(file)
  BY <1>0 DEF ReadOrPushed, ToSet
<1>2. J!Lines \in Seq(Pieces) /\ ToSet(J!Lines) = {r \in Requests : J!OneLine(r)}
      /\ J!Lines = Pick(Pieces, {r \in Requests : J!OneLine(r)}, file)
  BY <1>0, LinesAre
<1>3. ASSUME up, NEW r \in ToSet(J!Lines), pc[r] = "done" PROVE r \in ToSet(mem)
  <2>1. r \in Requests /\ J!OneLine(r)
    BY <1>2, <1>3
  <2>2. PICK n \in DOMAIN file : file[n] = r
    BY <2>1 DEF J!OneLine, J!Range, ToSet
  <2>3. OnItsLine(file, n)
    BY <1>0, <2>1, <2>2, OnePlace
  <2>4. \E k \in DOMAIN mem : mem[k] = r
    BY <1>0, <1>3, <2>1, <2>2, <2>3 DEF Shown
  <2> QED BY <2>4 DEF ToSet
<1>4. ASSUME up, \A r \in Requests : J!With(r) = {}
      PROVE  J!Those(mem, ToSet(J!Lines)) = J!Those(J!Lines, ToSet(mem))
  <2> DEFINE S == {r \in Requests : J!OneLine(r)}  M == ToSet(mem)
  <2>1. mem = Pick(Pieces, M, file)
    BY <1>0, <1>4 DEF InFileOrder
  <2>2. J!Lines = Pick(Pieces, S, file) /\ ToSet(J!Lines) = S /\ J!Lines \in Seq(Pieces)
    BY <1>2
  <2> HIDE DEF S, M
  <2>3. mem \in Seq(Pieces)
    BY <1>0 DEF Pieces
  <2>4. J!Those(mem, S) = Pick(Pieces, S, mem) /\ J!Those(J!Lines, M) = Pick(Pieces, M, J!Lines)
    BY <2>2, <2>3, ThoseArePicked
  <2>5. Pick(Pieces, S, Pick(Pieces, M, file)) = Pick(Pieces, M \cap S, file)
    BY <1>0, PickAgain
  <2>6. Pick(Pieces, M, Pick(Pieces, S, file)) = Pick(Pieces, S \cap M, file)
    BY <1>0, PickAgain
  <2>7. S \cap M = M \cap S
    OBVIOUS
  <2>8. J!Those(mem, S) = J!Those(J!Lines, M)
    BY <2>1, <2>2, <2>4, <2>5, <2>6, <2>7
  <2> QED BY <2>2, <2>8 DEF M
<1> QED BY <1>1, <1>3, <1>4 DEF J!ListTellsFile, J!Range, ToSet

(* The types of the variables, and what else a state says of itself: who   *)
(* writes is alone with the lock, nobody works while the API is down, and  *)
(* requests on one canvas have met when both are at work.                  *)
CanvasState ==
  /\ mem \in C!Lists /\ file \in [readable : BOOLEAN, list : C!Lists] /\ up \in BOOLEAN
  /\ pc \in [Requests -> {"new", "find", "save", "done", "failed"} \cup C!Writing]
  /\ asks \in [Requests -> C!Ops \X Ids] /\ copy \in [Requests -> SUBSET Requests]
  /\ out \in [Requests -> C!Lists] /\ lapses \subseteq {"crash", "torn", "failed", "dropped"}
  /\ gone \subseteq {r \in Requests : pc[r] \in C!Writing \cup {"failed"}}
  /\ met \in [Requests -> SUBSET Requests]

CanvasAlone ==
  /\ \A q, r \in Requests \ gone : pc[q] \in C!Writing /\ pc[r] \in C!Writing => q = r
  /\ ~up => C!AtWork = {} /\ "crash" \in lapses
  /\ \A q, r \in C!AtWork : q # r /\ C!Id(q) = C!Id(r) => q \in met[r]

(* As long as ChangesKept promises something.                              *)
Clean == "crash" \notin lapses \/ lapses = {"crash"}

(* A change is in its canvas once it is in the list, and in what an edit   *)
(* that came later has copied.                                             *)
Changed(r) == pc[r] \in C!Writing \cup {"done"} /\ met[r] = {} /\ r \notin anew

KeepsChanges ==
  Clean => \A r \in Requests : Changed(r) =>
    /\ r \in mem[C!Id(r)]
    /\ \A q \in Requests :
         pc[q] = "save" /\ asks[q][1] = "edit" /\ C!Id(q) = C!Id(r) => r \in copy[q]

(* The file at each point of a save.                                       *)
FileFollows ==
  lapses \subseteq {"crash"} =>
    /\ gone = {}
    /\ \A r \in Requests : pc[r] \in C!Writing => out[r] = mem
    /\ \A r \in Requests : pc[r] = "write" => file = C!Unreadable
    /\ (\A r \in Requests : pc[r] \notin C!Writing) => file = C!Holds(mem)

CanvasInv == CanvasState /\ CanvasAlone /\ KeepsChanges /\ FileFollows

LEMMA CanvasInit == ASSUME C!Init PROVE CanvasInv
<1> USE DEF C!Init
<1>1. CanvasState
  BY DEF CanvasState, C!Lists, C!Nothing, C!Holds, C!Writing
<1>2. CanvasAlone
  BY DEF CanvasAlone, C!AtWork, C!Writing
<1>3. KeepsChanges /\ FileFollows
  BY DEF KeepsChanges, FileFollows, Changed, C!Writing
<1> QED BY <1>1, <1>2, <1>3 DEF CanvasInv

LEMMA CanvasArrive ==
  ASSUME CanvasInv, NEW r \in Requests, C!Arrive(r)
  PROVE  CanvasInv'
<1> USE DEF CanvasInv
<1> DEFINE here == {q \in C!AtWork \cup {r} : C!Id(q) = C!Id(r)}
<1>1. /\ up /\ pc[r] = "new"
      /\ UNCHANGED <<mem, file, up, asks, copy, out, gone, anew, lapses>>
      /\ met' = [q \in Requests |-> met[q] \cup {s \in here \ {q} : q \in here}]
      /\ \E there \in {"find", "save"} : pc' = [pc EXCEPT ![r] = there]
  BY DEF C!Arrive, C!Goto
<1>2. PICK there \in {"find", "save"} : pc' = [pc EXCEPT ![r] = there]
  BY <1>1
<1>3. \A q \in Requests : pc'[q] = IF q = r THEN there ELSE pc[q]
  BY <1>2 DEF CanvasState
<1>4. \A q \in Requests : met[q] \subseteq met'[q] /\ met'[q] \subseteq Requests
                          /\ (q \in here => here \ {q} \subseteq met'[q])
  BY <1>1 DEF CanvasState, C!AtWork
<1> HIDE DEF here
<1>5. CanvasState'
  <2>1. met' \in [Requests -> SUBSET Requests]
    BY <1>1, <1>4
  <2> QED BY <1>1, <1>2, <2>1 DEF CanvasState, C!Writing
<1>6. C!AtWork' = C!AtWork \cup {r}
  BY <1>3 DEF C!AtWork, C!Writing
<1>7. CanvasAlone'
  <2>1. \A q, s \in Requests \ gone' : pc'[q] \in C!Writing /\ pc'[s] \in C!Writing => q = s
    BY <1>1, <1>3 DEF CanvasAlone, C!Writing
  <2>2. ASSUME NEW q \in C!AtWork', NEW s \in C!AtWork', q # s, C!Id(q)' = C!Id(s)'
        PROVE  q \in met'[s]
    <3>1. C!Id(q) = C!Id(s) /\ q \in Requests /\ s \in Requests
      BY <1>1, <2>2 DEF C!Id, C!AtWork
    <3>2. CASE q = r \/ s = r
      BY <1>4, <1>6, <2>2, <3>1, <3>2 DEF here
    <3>3. CASE q # r /\ s # r
      BY <1>4, <1>6, <2>2, <3>1, <3>3 DEF CanvasAlone
    <3> QED BY <3>2, <3>3
  <2> QED BY <1>1, <2>1, <2>2 DEF CanvasAlone
<1>8. KeepsChanges'
  <2> SUFFICES ASSUME Clean, NEW s \in Requests, Changed(s)'
               PROVE  /\ s \in mem[C!Id(s)]
                      /\ \A q \in Requests : pc'[q] = "save" /\ asks[q][1] = "edit"
                            /\ C!Id(q) = C!Id(s) => s \in copy[q]
    BY <1>1 DEF KeepsChanges, Clean, C!Id
  <2>1. s # r /\ Changed(s)
    BY <1>1, <1>3, <1>4 DEF Changed, C!Writing
  <2>2. there = "save" => asks[r][1] # "edit"
    BY <1>1, <1>3 DEF C!Arrive, C!Goto, CanvasState
  <2> QED BY <1>3, <2>1, <2>2 DEF KeepsChanges
<1>9. FileFollows'
  BY <1>1, <1>3 DEF FileFollows, C!Writing
<1> QED BY <1>5, <1>7, <1>8, <1>9

LEMMA CanvasFind ==
  ASSUME CanvasInv, NEW r \in Requests, C!Find(r)
  PROVE  CanvasInv'
<1> USE DEF CanvasInv
<1>1. /\ pc[r] = "find"
      /\ UNCHANGED <<mem, file, up, asks, out, gone, met, anew, lapses>>
      /\ copy' = [copy EXCEPT ![r] = mem[C!Id(r)]]
      /\ \E there \in {"failed", "save"} : pc' = [pc EXCEPT ![r] = there]
  BY DEF C!Find, C!Goto
<1>2. PICK there \in {"failed", "save"} : pc' = [pc EXCEPT ![r] = there]
  BY <1>1
<1>3. \A q \in Requests : pc'[q] = IF q = r THEN there ELSE pc[q]
  BY <1>2 DEF CanvasState
<1>4. C!Id(r) \in Ids /\ mem[C!Id(r)] \subseteq Requests
  BY DEF CanvasState, C!Lists, C!Id
<1>5. CanvasState'
  BY <1>1, <1>2, <1>4 DEF CanvasState, C!Writing
<1>6. CanvasAlone'
  BY <1>1, <1>3 DEF CanvasAlone, C!AtWork, C!Writing, C!Id
<1>7. KeepsChanges'
  <2> SUFFICES ASSUME Clean, NEW s \in Requests, Changed(s)'
               PROVE  /\ s \in mem[C!Id(s)]
                      /\ \A q \in Requests : pc'[q] = "save" /\ asks[q][1] = "edit"
                            /\ C!Id(q) = C!Id(s) => s \in copy'[q]
    BY <1>1 DEF KeepsChanges, Clean, C!Id
  <2>1. s # r /\ Changed(s)
    BY <1>1, <1>3 DEF Changed, C!Writing
  <2>2. s \in mem[C!Id(s)]
    BY <2>1 DEF KeepsChanges
  <2> QED BY <1>1, <1>3, <2>1, <2>2 DEF KeepsChanges, CanvasState
<1>8. FileFollows'
  BY <1>1, <1>3 DEF FileFollows, C!Writing
<1> QED BY <1>5, <1>6, <1>7, <1>8

LEMMA CanvasSave ==
  ASSUME CanvasInv, NEW r \in Requests, C!Save(r)
  PROVE  CanvasInv'
<1> USE DEF CanvasInv
<1>1. pc[r] = "save" /\ ~C!Held /\ UNCHANGED <<file, up, asks, copy, gone, met, lapses>>
  BY DEF C!Save
<1>2. CASE pc' = [pc EXCEPT ![r] = "failed"] /\ UNCHANGED <<mem, out, anew>>
  <2>1. CanvasState'
    BY <1>1, <1>2 DEF CanvasState, C!Writing
  <2>2. CanvasAlone'
    BY <1>1, <1>2 DEF CanvasAlone, C!AtWork, C!Writing, C!Id, CanvasState
  <2>3. KeepsChanges'
    BY <1>1, <1>2 DEF KeepsChanges, Changed, Clean, C!Writing, C!Id, CanvasState
  <2>4. FileFollows'
    BY <1>1, <1>2 DEF FileFollows, C!Writing, CanvasState
  <2> QED BY <2>1, <2>2, <2>3, <2>4
<1>3. CASE /\ mem' = [mem EXCEPT ![C!Id(r)] = C!Made(r)]
           /\ out' = [out EXCEPT ![r] = mem']
           /\ anew' = anew \cup {q \in mem[C!Id(r)] : asks[r][1] = "create"}
           /\ pc' = [pc EXCEPT ![r] = "truncate"]
  <2>1. C!Id(r) \in Ids /\ mem[C!Id(r)] \subseteq Requests /\ asks[r][1] \in C!Ops
    BY DEF CanvasState, C!Lists, C!Id
  <2>2. /\ r \in C!Made(r) /\ C!Made(r) \subseteq Requests
        /\ asks[r][1] = "edit" => C!Made(r) = copy[r] \cup {r}
        /\ asks[r][1] = "content" => C!Made(r) = mem[C!Id(r)] \cup {r}
    BY <2>1 DEF C!Made, C!Ops, CanvasState
  <2>3. mem' \in C!Lists
    BY <1>3, <2>1, <2>2 DEF CanvasState, C!Lists
  <2>4. CanvasState'
    BY <1>1, <1>3, <2>3 DEF CanvasState, C!Writing
  <2>5. \A q \in Requests \ gone : pc[q] \notin C!Writing
    BY <1>1 DEF C!Held
  <2>6. CanvasAlone'
    <3>1. r \in C!AtWork /\ C!AtWork' = C!AtWork
      BY <1>1, <1>3 DEF C!AtWork, C!Writing, CanvasState
    <3>2. \A q, s \in Requests \ gone' : pc'[q] \in C!Writing /\ pc'[s] \in C!Writing => q = s
      BY <1>1, <1>3, <2>5 DEF CanvasState
    <3> QED BY <1>1, <3>1, <3>2 DEF CanvasAlone, C!Id
  <2>7. KeepsChanges'
    <3> SUFFICES ASSUME Clean, NEW s \in Requests, Changed(s)'
                 PROVE  /\ s \in mem'[C!Id(s)]
                        /\ \A q \in Requests : pc'[q] = "save" /\ asks[q][1] = "edit"
                              /\ C!Id(q) = C!Id(s) => s \in copy[q]
      BY <1>1 DEF KeepsChanges, Clean, C!Id
    <3>1. CASE s = r
      <4>1. s \in mem'[C!Id(s)]
        BY <1>3, <2>1, <2>2, <3>1 DEF CanvasState, C!Lists
      <4>2. ASSUME NEW q \in Requests, pc'[q] = "save", C!Id(q) = C!Id(s) PROVE FALSE
        <5>1. q # r /\ pc[q] = "save"
          BY <1>3, <4>2 DEF CanvasState
        <5>2. q \in met[r]
          BY <1>1, <3>1, <4>2, <5>1 DEF CanvasAlone, C!AtWork
        <5> QED BY <1>1, <3>1, <5>2 DEF Changed
      <4> QED BY <4>1, <4>2
    <3>2. CASE s # r
      <4>1. Changed(s) /\ s \notin anew'
        BY <1>1, <1>3, <3>2 DEF Changed, CanvasState
      <4>2. s \in mem[C!Id(s)]
        BY <4>1 DEF KeepsChanges
      <4>3. C!Id(r) = C!Id(s) => s \in C!Made(r)
        <5>1. CASE asks[r][1] = "create"
          BY <1>3, <4>1, <4>2, <5>1
        <5>2. CASE asks[r][1] = "edit"
          BY <1>1, <2>2, <4>1, <5>2 DEF KeepsChanges
        <5>3. CASE asks[r][1] = "content"
          BY <2>2, <4>2, <5>3
        <5> QED BY <2>1, <5>1, <5>2, <5>3 DEF C!Ops
      <4>4. s \in mem'[C!Id(s)]
        BY <1>3, <2>1, <4>2, <4>3 DEF CanvasState, C!Lists, C!Id
      <4>5. \A q \in Requests : pc'[q] = "save" => pc[q] = "save"
        BY <1>3 DEF CanvasState
      <4> QED BY <4>1, <4>4, <4>5 DEF KeepsChanges
    <3> QED BY <3>1, <3>2
  <2>8. FileFollows'
    <3> SUFFICES ASSUME lapses \subseteq {"crash"} PROVE FileFollows'
      BY <1>1 DEF FileFollows
    <3>1. gone = {}
      BY DEF FileFollows
    <3>2. \A q \in Requests : pc'[q] = IF q = r THEN "truncate" ELSE pc[q]
      BY <1>3 DEF CanvasState
    <3>3. out'[r] = mem'
      BY <1>3 DEF CanvasState
    <3> QED BY <1>1, <2>5, <3>1, <3>2, <3>3 DEF FileFollows, C!Writing
  <2> QED BY <2>4, <2>6, <2>7, <2>8
<1> QED BY <1>2, <1>3 DEF C!Save, C!Goto

LEMMA CanvasTruncate ==
  ASSUME CanvasInv, NEW r \in Requests, C!Truncate(r)
  PROVE  CanvasInv'
<1> USE DEF CanvasInv
<1>1. /\ pc[r] = "truncate" /\ pc' = [pc EXCEPT ![r] = "write"] /\ file' = C!Unreadable
      /\ UNCHANGED <<mem, up, asks, copy, out, gone, met, anew, lapses>>
  BY DEF C!Truncate, C!Goto
<1>2. CanvasState'
  BY <1>1 DEF CanvasState, C!Writing, C!Unreadable, C!Nothing, C!Lists
<1>3. CanvasAlone'
  BY <1>1 DEF CanvasAlone, C!AtWork, C!Writing, C!Id, CanvasState
<1>4. KeepsChanges'
  BY <1>1 DEF KeepsChanges, Changed, Clean, C!Writing, C!Id, CanvasState
<1>5. FileFollows'
  BY <1>1 DEF FileFollows, C!Writing, CanvasState
<1> QED BY <1>2, <1>3, <1>4, <1>5

LEMMA CanvasWrite ==
  ASSUME CanvasInv, NEW r \in Requests, C!Write(r)
  PROVE  CanvasInv'
<1> USE DEF CanvasInv
<1>1. /\ pc[r] = "write"
      /\ UNCHANGED <<mem, up, asks, copy, out, gone, met, anew, lapses>>
      /\ \E there \in {"failed", "done"} : pc' = [pc EXCEPT ![r] = there]
      /\ file' \in {C!Holds(out[r]), C!Unreadable}
      /\ file = C!Unreadable => file' = C!Holds(out[r])
  BY DEF C!Write, C!Goto
<1>2. PICK there \in {"failed", "done"} : pc' = [pc EXCEPT ![r] = there]
  BY <1>1
<1>3. \A q \in Requests : pc'[q] = IF q = r THEN there ELSE pc[q]
  BY <1>2 DEF CanvasState
<1>4. there = "done" => r \notin gone
  BY <1>1, <1>3 DEF C!Write, C!Goto, CanvasState
<1>5. CanvasState'
  <2>1. file' \in [readable : BOOLEAN, list : C!Lists]
    <3>1. out[r] \in C!Lists /\ C!Nothing \in C!Lists
      BY DEF CanvasState, C!Nothing, C!Lists
    <3>2. C!Unreadable \in [readable : BOOLEAN, list : C!Lists]
      BY <3>1 DEF C!Unreadable
    <3>3. C!Holds(out[r]) \in [readable : BOOLEAN, list : C!Lists]
      BY <3>1 DEF C!Holds
    <3> QED BY <1>1, <3>2, <3>3
  <2> QED BY <1>1, <1>2, <1>4, <2>1 DEF CanvasState, C!Writing
<1>6. CanvasAlone'
  BY <1>1, <1>3 DEF CanvasAlone, C!AtWork, C!Writing, C!Id
<1>7. KeepsChanges'
  BY <1>1, <1>3 DEF KeepsChanges, Changed, Clean, C!Writing, C!Id
<1>8. FileFollows'
  <2> SUFFICES ASSUME lapses \subseteq {"crash"} PROVE FileFollows'
    BY <1>1 DEF FileFollows
  <2>1. gone = {} /\ file = C!Unreadable /\ out[r] = mem
    BY <1>1 DEF FileFollows, C!Writing
  <2>2. \A q \in Requests : pc[q] \in C!Writing => q = r
    BY <1>1, <2>1 DEF CanvasAlone, C!Writing
  <2>3. file' = C!Holds(mem) /\ \A q \in Requests : pc'[q] \notin C!Writing
    BY <1>1, <1>3, <2>1, <2>2 DEF C!Writing
  <2> QED BY <1>1, <2>1, <2>3 DEF FileFollows, C!Writing
<1> QED BY <1>5, <1>6, <1>7, <1>8

LEMMA CanvasWriteFails ==
  ASSUME CanvasInv, NEW r \in Requests, C!WriteFails(r)
  PROVE  CanvasInv'
<1> USE DEF CanvasInv
<1>1. /\ pc[r] \in C!Writing /\ pc' = [pc EXCEPT ![r] = "failed"]
      /\ lapses' = lapses \cup {"failed"}
      /\ UNCHANGED <<mem, file, up, asks, copy, out, gone, met, anew>>
  BY DEF C!WriteFails, C!Goto
<1>2. CanvasState'
  BY <1>1 DEF CanvasState, C!Writing
<1>3. CanvasAlone'
  BY <1>1 DEF CanvasAlone, C!AtWork, C!Writing, C!Id, CanvasState
<1>4. KeepsChanges'
  <2>1. Clean' => Clean
    BY <1>1 DEF Clean
  <2> QED BY <1>1, <2>1 DEF KeepsChanges, Changed, C!Writing, C!Id, CanvasState
<1>5. FileFollows'
  BY <1>1 DEF FileFollows
<1> QED BY <1>2, <1>3, <1>4, <1>5

LEMMA CanvasDrop ==
  ASSUME CanvasInv, NEW r \in Requests, C!Drop(r)
  PROVE  CanvasInv'
<1> USE DEF CanvasInv
<1>1. /\ r \in C!AtWork \ gone
      /\ UNCHANGED <<mem, file, up, asks, copy, out, met, anew>>
  BY DEF C!Drop
<1>2. CASE /\ pc[r] \in C!Writing /\ gone' = gone \cup {r}
           /\ lapses' = lapses \cup {"dropped"} /\ UNCHANGED pc
  <2>1. CanvasState'
    BY <1>1, <1>2 DEF CanvasState, C!Writing
  <2>2. CanvasAlone'
    BY <1>1, <1>2 DEF CanvasAlone, C!AtWork, C!Writing, C!Id, CanvasState
  <2>3. KeepsChanges'
    <3>1. Clean' => Clean
      BY <1>2 DEF Clean
    <3> QED BY <1>1, <1>2, <3>1 DEF KeepsChanges, Changed, C!Writing, C!Id, CanvasState
  <2>4. FileFollows'
    BY <1>2 DEF FileFollows
  <2> QED BY <2>1, <2>2, <2>3, <2>4
<1>3. CASE /\ pc[r] \notin C!Writing /\ pc' = [pc EXCEPT ![r] = "failed"]
           /\ UNCHANGED <<gone, lapses>>
  <2>1. CanvasState'
    BY <1>1, <1>3 DEF CanvasState, C!Writing
  <2>2. CanvasAlone'
    BY <1>1, <1>3 DEF CanvasAlone, C!AtWork, C!Writing, C!Id, CanvasState
  <2>3. KeepsChanges'
    BY <1>1, <1>3 DEF KeepsChanges, Changed, Clean, C!Writing, C!Id, CanvasState
  <2>4. FileFollows'
    BY <1>1, <1>3 DEF FileFollows, C!Writing, CanvasState
  <2> QED BY <2>1, <2>2, <2>3, <2>4
<1> QED BY <1>2, <1>3 DEF C!Drop, C!Goto

LEMMA CanvasCrash ==
  ASSUME CanvasInv, C!Crash
  PROVE  CanvasInv'
<1> USE DEF CanvasInv
<1>1. /\ up' = FALSE
      /\ pc' = [r \in Requests |-> IF r \in C!AtWork THEN "failed" ELSE pc[r]]
      /\ lapses' = lapses \cup {"crash"} \cup {"torn" : r \in {r \in Requests : pc[r] \in C!Writing}}
      /\ UNCHANGED <<mem, file, asks, copy, out, gone, met, anew>>
  BY DEF C!Crash
<1>2. \A q \in Requests : /\ pc'[q] \in {"new", "done", "failed"}
                          /\ pc'[q] # "failed" => pc'[q] = pc[q]
                          /\ pc[q] \in C!Writing => pc'[q] = "failed" /\ "torn" \in lapses'
                          /\ pc[q] = "failed" => pc'[q] = "failed"
  BY <1>1 DEF C!AtWork, C!Writing, CanvasState
<1>3. lapses \subseteq lapses' /\ "crash" \in lapses'
      /\ lapses' \subseteq lapses \cup {"crash", "torn"}
  BY <1>1
<1>4. CanvasState'
  <2>1. pc' \in [Requests -> {"new", "find", "save", "done", "failed"} \cup C!Writing]
    BY <1>1, <1>2
  <2>2. lapses' \subseteq {"crash", "torn", "failed", "dropped"}
    BY <1>3 DEF CanvasState
  <2> QED BY <1>1, <1>2, <2>1, <2>2 DEF CanvasState
<1>5. CanvasAlone'
  BY <1>1, <1>2 DEF CanvasAlone, C!AtWork, C!Writing
<1>6. KeepsChanges'
  <2>1. Clean' => Clean
    BY <1>3 DEF Clean
  <2> QED BY <1>1, <1>2, <2>1 DEF KeepsChanges, Changed, C!Writing, C!Id
<1>7. FileFollows'
  <2> SUFFICES ASSUME lapses' \subseteq {"crash"} PROVE FileFollows'
    BY DEF FileFollows
  <2>1. lapses \subseteq {"crash"} /\ \A q \in Requests : pc[q] \notin C!Writing
    BY <1>2, <1>3
  <2> QED BY <1>1, <1>2, <2>1 DEF FileFollows, C!Writing
<1> QED BY <1>4, <1>5, <1>6, <1>7

LEMMA CanvasRestart ==
  ASSUME CanvasInv, C!Restart
  PROVE  CanvasInv'
<1> USE DEF CanvasInv
<1>1. /\ ~up /\ up' = TRUE
      /\ mem' = IF file.readable THEN file.list ELSE C!Nothing
      /\ UNCHANGED <<file, pc, asks, copy, out, gone, met, anew, lapses>>
  BY DEF C!Restart
<1>2. C!AtWork = {} /\ "crash" \in lapses
  BY <1>1 DEF CanvasAlone
<1>3. \A q \in Requests : pc[q] \notin C!Writing /\ pc[q] # "save"
  BY <1>2 DEF C!AtWork
<1>4. lapses \subseteq {"crash"} => mem' = mem
  <2> SUFFICES ASSUME lapses \subseteq {"crash"} PROVE mem' = mem
    OBVIOUS
  <2>1. file = C!Holds(mem)
    BY <1>3 DEF FileFollows
  <2> QED BY <1>1, <2>1 DEF C!Holds
<1>5. CanvasState'
  BY <1>1 DEF CanvasState, C!Nothing, C!Lists
<1>6. CanvasAlone'
  BY <1>1, <1>2, <1>3 DEF CanvasAlone, C!AtWork, C!Id
<1>7. KeepsChanges'
  <2>1. Clean' => Clean /\ mem' = mem
    BY <1>1, <1>2, <1>4 DEF Clean
  <2> QED BY <1>1, <1>3, <2>1 DEF KeepsChanges, Changed, C!Id
<1>8. FileFollows'
  BY <1>1, <1>3, <1>4 DEF FileFollows, C!Writing
<1> QED BY <1>5, <1>6, <1>7, <1>8

LEMMA CanvasNext == ASSUME CanvasInv, C!Next PROVE CanvasInv'
BY CanvasArrive, CanvasFind, CanvasSave, CanvasTruncate, CanvasWrite, CanvasWriteFails,
   CanvasDrop, CanvasCrash, CanvasRestart DEF C!Next, C!Handler

LEMMA CanvasImplies == ASSUME CanvasInv PROVE C!TypeOK /\ C!ChangesKept /\ C!FileInStep
<1> USE DEF CanvasInv
<1>1. C!TypeOK
  <2> DEFINE writers == {r \in Requests \ gone : pc[r] \in C!Writing}
  <2>1. Cardinality(writers) <= 1
    <3>1. CASE writers = {}
      BY <3>1, FS_EmptySet
    <3>2. CASE writers # {}
      <4>1. PICK w \in writers : TRUE
        BY <3>2
      <4>2. writers = {w}
        BY <4>1 DEF CanvasAlone
      <4>3. Cardinality({w}) = 1
        BY FS_Singleton
      <4> QED BY <4>2, <4>3
    <3> QED BY <3>1, <3>2
  <2> QED BY <2>1 DEF C!TypeOK, C!Cardinality, Cardinality, CanvasState, CanvasAlone
<1>2. C!ChangesKept
  BY DEF C!ChangesKept, KeepsChanges, Clean, Changed
<1>3. C!FileInStep
  BY DEF C!FileInStep, FileFollows, C!Held
<1> QED BY <1>1, <1>2, <1>3

AgentsState ==
  /\ file \in [readable : BOOLEAN, map : A!Maps] /\ lapses \subseteq {"overlap", "torn"}
  /\ pc \in [Requests -> {"new", "truncate", "write", "done", "failed"}]
  /\ asks \in [Requests -> Agents \X A!States] /\ copy \in [Requests -> A!Maps]
  /\ gone \subseteq Requests /\ last \in A!Maps
  /\ \A r \in A!AtWork : copy[r][A!Agent(r)] = asks[r][2]

(* What a map says of an agent is what was asked for last, or nothing; and *)
(* just what was asked for last if no write was cut short.                 *)
Recalls(map, a) == map[a] \in {last[a], A!Unset} /\ (lapses = {} => map[a] = last[a])

(* Requests come one at a time: the file, and the states that are going to *)
(* be written to it.                                                       *)
OneByOne ==
  "overlap" \notin lapses =>
    /\ \A q, r \in A!AtWork : q = r
    /\ \A r \in A!AtWork : \A a \in Agents \ {A!Agent(r)} : Recalls(copy[r], a)
    /\ \A r \in Requests : pc[r] = "write" => file = A!Unreadable
    /\ \A a \in Agents : file.map[a] \in {last[a], A!Unset}
    /\ lapses = {} /\ (\A r \in Requests : pc[r] # "write") =>
         file = A!Holds(last) \/ (file = A!Unreadable /\ last = A!NoneSet)

AgentsInv == AgentsState /\ OneByOne

LEMMA AgentsInit == ASSUME A!Init PROVE AgentsInv
<1> USE DEF A!Init
<1>1. A!NoneSet \in A!Maps
  BY DEF A!NoneSet, A!Maps
<1>2. AgentsState
  <2>1. file \in [readable : BOOLEAN, map : A!Maps]
    BY <1>1 DEF A!Unreadable
  <2> QED BY <1>1, <2>1 DEF AgentsState, A!AtWork
<1>3. OneByOne
  BY DEF OneByOne, A!AtWork, A!Unreadable, A!NoneSet
<1> QED BY <1>2, <1>3 DEF AgentsInv

LEMMA AgentsBegin ==
  ASSUME AgentsInv, NEW r \in Requests, A!Begin(r)
  PROVE  AgentsInv'
<1> USE DEF AgentsInv
<1> DEFINE old == IF file.readable THEN file.map ELSE A!NoneSet
<1>1. /\ pc[r] = "new" /\ pc' = [pc EXCEPT ![r] = "truncate"]
      /\ copy' = [copy EXCEPT ![r] = [old EXCEPT ![A!Agent(r)] = asks[r][2]]]
      /\ lapses' = lapses \cup {"overlap" : q \in A!AtWork}
      /\ UNCHANGED <<file, asks, gone, last>>
  BY DEF A!Begin, A!Set, A!Goto
<1>2. old \in A!Maps
  BY DEF AgentsState, A!NoneSet, A!Maps
<1>3. A!Agent(r) \in Agents /\ asks[r][2] \in A!States
  BY DEF AgentsState, A!Agent
<1> HIDE DEF old
<1> DEFINE new == [old EXCEPT ![A!Agent(r)] = asks[r][2]]
<1>4. /\ new \in A!Maps /\ new[A!Agent(r)] = asks[r][2]
      /\ \A a \in Agents \ {A!Agent(r)} : new[a] = old[a]
  BY <1>2, <1>3 DEF A!Maps
<1>5. /\ \A q \in Requests : copy'[q] = IF q = r THEN new ELSE copy[q]
      /\ \A q \in Requests : pc'[q] = IF q = r THEN "truncate" ELSE pc[q]
  BY <1>1 DEF AgentsState
<1> HIDE DEF new
<1>6. A!AtWork' = A!AtWork \cup {r}
  BY <1>5 DEF A!AtWork
<1>7. lapses' \subseteq lapses \cup {"overlap"} /\ lapses \subseteq lapses'
      /\ (A!AtWork # {} => "overlap" \in lapses')
  BY <1>1
<1>8. AgentsState'
  <2>1. pc' \in [Requests -> {"new", "truncate", "write", "done", "failed"}]
    BY <1>1 DEF AgentsState
  <2>2. copy' \in [Requests -> A!Maps]
    BY <1>1, <1>4 DEF AgentsState, new
  <2>3. \A q \in A!AtWork' : copy'[q][A!Agent(q)] = asks[q][2]
    BY <1>4, <1>5, <1>6 DEF AgentsState, A!AtWork
  <2>4. lapses' \subseteq {"overlap", "torn"}
    BY <1>7 DEF AgentsState
  <2>5. /\ file' \in [readable : BOOLEAN, map : A!Maps] /\ asks' \in [Requests -> Agents \X A!States]
        /\ gone' \subseteq Requests /\ last' \in A!Maps
    BY <1>1 DEF AgentsState
  <2>6. \A q \in A!AtWork' : copy'[q][A!Agent(q)'] = asks'[q][2]
    BY <1>1, <2>3 DEF A!Agent
  <2> QED BY <2>1, <2>2, <2>4, <2>5, <2>6 DEF AgentsState
<1>9. OneByOne'
  <2> SUFFICES ASSUME "overlap" \notin lapses' PROVE OneByOne'
    BY DEF OneByOne
  <2>0. A!AtWork = {} /\ \A x : x \in lapses' <=> x \in lapses
    BY <1>7
  <2>1. A!AtWork = {} /\ lapses' = lapses
    BY <2>0
  <2>2. \A a \in Agents : Recalls(old, a)
    <3>1. CASE file.readable
      <4>1. \A q \in Requests : pc[q] # "write"
        BY <2>1 DEF A!AtWork
      <4>2. \A a \in Agents : file.map[a] \in {last[a], A!Unset}
        BY <2>1 DEF OneByOne
      <4>3. lapses = {} => file.map = last
        BY <2>1, <3>1, <4>1 DEF OneByOne, A!Holds, A!Unreadable
      <4> QED BY <3>1, <4>2, <4>3 DEF Recalls, old
    <3>2. CASE ~file.readable
      <4>1. \A q \in Requests : pc[q] # "write"
        BY <2>1 DEF A!AtWork
      <4>2. lapses = {} => last = A!NoneSet
        BY <2>1, <3>2, <4>1 DEF OneByOne, A!Holds
      <4>3. \A a \in Agents : A!NoneSet[a] = A!Unset
        BY DEF A!NoneSet
      <4> QED BY <3>2, <4>2, <4>3 DEF Recalls, old
    <3> QED BY <3>1, <3>2
  <2>3. \A q \in A!AtWork' : q = r /\ \A a \in Agents \ {A!Agent(q)} : Recalls(copy[q], a)'
    BY <1>1, <1>4, <1>5, <1>6, <2>1, <2>2 DEF Recalls
  <2>4. \A q \in Requests : pc'[q] # "write" /\ pc[q] # "write"
    BY <1>5, <2>1 DEF A!AtWork
  <2>5. \A q \in A!AtWork' : \A a \in Agents \ {A!Agent(q)'} : Recalls(copy[q], a)'
    BY <1>1, <2>3 DEF A!Agent
  <2> QED BY <1>1, <2>1, <2>3, <2>4, <2>5 DEF OneByOne, A!Holds
<1> QED BY <1>8, <1>9

LEMMA AgentsTruncate ==
  ASSUME AgentsInv, NEW r \in Requests, A!Truncate(r)
  PROVE  AgentsInv'
<1> USE DEF AgentsInv
<1>1. /\ pc[r] = "truncate" /\ pc' = [pc EXCEPT ![r] = "write"] /\ file' = A!Unreadable
      /\ UNCHANGED <<asks, copy, gone, last, lapses>>
  BY DEF A!Truncate, A!Goto
<1>2. A!AtWork' = A!AtWork /\ r \in A!AtWork
  BY <1>1 DEF A!AtWork, AgentsState
<1>3. A!Unreadable \in [readable : BOOLEAN, map : A!Maps]
  <2>1. A!NoneSet \in A!Maps
    BY DEF A!NoneSet, A!Maps
  <2> QED BY <2>1 DEF A!Unreadable
<1>4. AgentsState'
  BY <1>1, <1>2, <1>3 DEF AgentsState, A!Agent
<1>5. OneByOne'
  <2>1. \A a \in Agents : A!Unreadable.map[a] = A!Unset
    BY DEF A!Unreadable, A!NoneSet
  <2>2. pc'[r] = "write"
    BY <1>1 DEF AgentsState
  <2> QED BY <1>1, <1>2, <2>1, <2>2 DEF OneByOne, Recalls, A!Agent
<1> QED BY <1>4, <1>5

LEMMA AgentsWrite ==
  ASSUME AgentsInv, NEW r \in Requests, A!Write(r)
  PROVE  AgentsInv'
<1> USE DEF AgentsInv
<1>1. /\ pc[r] = "write"
      /\ \E there \in {"failed", "done"} : pc' = [pc EXCEPT ![r] = there]
      /\ file' \in {A!Holds(copy[r]), A!Unreadable}
      /\ file = A!Unreadable => file' = A!Holds(copy[r])
      /\ last' = [last EXCEPT ![A!Agent(r)] = asks[r][2]]
      /\ UNCHANGED <<asks, copy, gone, lapses>>
  BY DEF A!Write, A!Goto
<1>2. PICK there \in {"failed", "done"} : pc' = [pc EXCEPT ![r] = there]
  BY <1>1
<1>3. \A q \in Requests : pc'[q] = IF q = r THEN there ELSE pc[q]
  BY <1>2 DEF AgentsState
<1>4. r \in A!AtWork /\ A!AtWork' = A!AtWork \ {r}
  BY <1>1, <1>3 DEF A!AtWork
<1>5. A!Agent(r) \in Agents /\ asks[r][2] \in A!States
  BY DEF AgentsState, A!Agent
<1>6. AgentsState'
  <2>1. A!NoneSet \in A!Maps /\ copy[r] \in A!Maps
    BY DEF A!NoneSet, A!Maps, AgentsState
  <2>2. A!Unreadable \in [readable : BOOLEAN, map : A!Maps]
    BY <2>1 DEF A!Unreadable
  <2>3. A!Holds(copy[r]) \in [readable : BOOLEAN, map : A!Maps]
    BY <2>1 DEF A!Holds
  <2>4. last' \in A!Maps
    BY <1>1, <1>5 DEF AgentsState, A!Maps
  <2> QED BY <1>1, <1>2, <1>4, <2>2, <2>3, <2>4 DEF AgentsState, A!Agent
<1>7. OneByOne'
  <2> SUFFICES ASSUME "overlap" \notin lapses PROVE OneByOne'
    BY <1>1 DEF OneByOne
  <2>1. A!AtWork' = {} /\ \A q \in Requests : pc'[q] # "write"
    BY <1>3, <1>4 DEF OneByOne, A!AtWork
  <2>2. file' = A!Holds(copy[r]) /\ file'.map = copy[r]
    BY <1>1 DEF OneByOne, A!Holds
  <2>3. \A a \in Agents : /\ copy[r][a] \in {last'[a], A!Unset}
                          /\ lapses = {} => copy[r][a] = last'[a]
    <3> TAKE a \in Agents
    <3>1. CASE a = A!Agent(r)
      BY <1>1, <1>4, <1>5, <3>1 DEF AgentsState, A!Maps
    <3>2. CASE a # A!Agent(r)
      <4>1. last'[a] = last[a]
        BY <1>1, <3>2 DEF AgentsState, A!Maps
      <4> QED BY <1>4, <3>2, <4>1 DEF OneByOne, Recalls
    <3> QED BY <3>1, <3>2
  <2>4. lapses = {} => copy[r] = last'
    <3>1. copy[r] \in A!Maps /\ last' \in A!Maps
      BY <1>6 DEF AgentsState
    <3> QED BY <2>3, <3>1 DEF A!Maps
  <2> QED BY <1>1, <2>1, <2>2, <2>3, <2>4 DEF OneByOne
<1> QED BY <1>6, <1>7

LEMMA AgentsStop ==
  ASSUME AgentsInv, pc' \in [Requests -> {"new", "truncate", "write", "done", "failed"}],
         \A q \in Requests : pc'[q] = pc[q] \/ pc'[q] = "failed",
         \/ lapses' = lapses /\ \A q \in Requests : pc[q] = "write" => pc'[q] = "write"
         \/ lapses' = lapses \cup {"torn"},
         gone' \subseteq Requests, UNCHANGED <<file, asks, copy, last>>
  PROVE  AgentsInv'
<1> USE DEF AgentsInv
<1>1. A!AtWork' \subseteq A!AtWork
  BY DEF A!AtWork
<1>2. AgentsState'
  BY <1>1 DEF AgentsState, A!Agent
<1>3. OneByOne'
  BY <1>1 DEF OneByOne, Recalls, A!Agent
<1> QED BY <1>2, <1>3

LEMMA AgentsNext == ASSUME AgentsInv, A!Next PROVE AgentsInv'
<1>1. ASSUME NEW r \in Requests, A!WriteFails(r) PROVE AgentsInv'
  BY <1>1, AgentsStop DEF A!WriteFails, A!Goto, AgentsInv, AgentsState
<1>2. ASSUME NEW r \in Requests, A!Drop(r) PROVE AgentsInv'
  BY <1>2, AgentsStop DEF A!Drop, A!Goto, AgentsInv, AgentsState
<1>3. ASSUME A!Crash PROVE AgentsInv'
  BY <1>3, AgentsStop DEF A!Crash, AgentsInv, AgentsState
<1> QED BY <1>1, <1>2, <1>3, AgentsBegin, AgentsTruncate, AgentsWrite DEF A!Next, A!Handler

LEMMA AgentsImplies == ASSUME AgentsInv PROVE A!TypeOK /\ A!AttachmentsHold
<1> USE DEF AgentsInv
<1>1. A!TypeOK
  BY DEF A!TypeOK, AgentsState
<1>2. A!AttachmentsHold
  <2>1. ASSUME "overlap" \notin lapses, lapses = {}, file.readable PROVE file.map = last
    <3>1. \A r \in Requests : pc[r] # "write"
      BY <2>1 DEF OneByOne, A!Unreadable
    <3>2. file = A!Holds(last)
      BY <2>1, <3>1 DEF OneByOne, A!Unreadable
    <3> QED BY <3>2 DEF A!Holds
  <2> QED BY <2>1 DEF A!AttachmentsHold, OneByOne
<1> QED BY <1>1, <1>2

Parts == Requests \cup {D!Heading, D!Torn}

DayState ==
  /\ file \in Seq(Parts) /\ exists \in BOOLEAN /\ (~exists => file = <<>>)
  /\ pc \in [Requests -> D!Working \cup {"new", "done", "failed"}]
  /\ gone \subseteq {r \in Requests : pc[r] \in {"open", "append", "failed"}}
  /\ existed \subseteq Requests /\ met \in [Requests -> SUBSET Requests]
  /\ \A r \in Requests : pc[r] = "append" \/ r \in existed => exists
  /\ \A q, r \in D!AtWork : q # r => q \in met[r]

(* A checkpoint is there once, from its write on, and a heading has        *)
(* something behind it.                                                    *)
Once(f, p) ==
  /\ \A r \in Requests : /\ p[r] \in D!Working \cup {"new"} => \A n \in DOMAIN f : f[n] # r
                         /\ p[r] = "done" => \E n \in DOMAIN f : f[n] = r
  /\ \A m, n \in DOMAIN f : f[m] = f[n] /\ f[n] \in Requests => m = n
  /\ \A n \in DOMAIN f : f[n] = D!Heading => n < Len(f) /\ f[n + 1] # D!Heading

(* One checkpoint at a time: who found no file still finds it empty, and a *)
(* file without a heading is waiting for one or was left so by a failure.  *)
Unheaded == \A n \in DOMAIN file : file[n] # D!Heading

OneHeading ==
  (\A r \in Requests : met[r] = {}) =>
    /\ \A r \in Requests \ existed : pc[r] = "open" => ~exists
    /\ \A r \in Requests \ existed : pc[r] = "append" => file = <<>>
    /\ \A n \in DOMAIN file : file[n] = D!Heading => n = 1
    /\ exists /\ Unheaded =>
         \E r \in Requests : pc[r] = "failed" \/ (pc[r] = "append" /\ r \notin existed)

DayInv == DayState /\ Once(file, pc) /\ OneHeading

LEMMA DayInit == ASSUME D!Init PROVE DayInv
<1> USE DEF D!Init
<1>1. DayState
  <2>1. D!AtWork = {}
    BY DEF D!AtWork, D!Working
  <2>2. file \in Seq(Parts)
    OBVIOUS
  <2> QED BY <2>1, <2>2 DEF DayState
<1>2. Once(file, pc)
  BY DEF Once
<1>3. OneHeading
  BY DEF OneHeading
<1> QED BY <1>1, <1>2, <1>3 DEF DayInv

(* Who does not write.                                                     *)
LEMMA OnceStays ==
  ASSUME NEW f, NEW p, NEW q, Once(f, p),
         \A r \in Requests : /\ q[r] \in D!Working \cup {"new"} => p[r] \in D!Working \cup {"new"}
                             /\ q[r] = "done" => p[r] = "done"
  PROVE  Once(f, q)
BY DEF Once

(* What a write adds to the file.                                          *)
Added(f, g, x) ==
  /\ g \in Seq(Parts)
  /\ \A n \in DOMAIN f : n \in DOMAIN g /\ g[n] = f[n]
  /\ \A n \in DOMAIN g : n \in DOMAIN f \/ g[n] = x \/ (n = Len(f) + 1 /\ g[n] = D!Heading)
  /\ \E n \in DOMAIN g : g[n] = x
  /\ \A m, n \in DOMAIN g : g[m] = g[n] /\ g[n] \in Requests => m = n
  /\ \A n \in DOMAIN g : g[n] = D!Heading => n < Len(g) /\ g[n + 1] # D!Heading

LEMMA DayGrows ==
  ASSUME NEW f \in Seq(Parts), NEW x \in Requests \cup {D!Torn},
         NEW p, D!DailyAssumption, Once(f, p), x \in Requests => p[x] \in D!Working
  PROVE  /\ Added(f, f \o <<x>>, x) /\ Added(f, f \o <<D!Heading, x>>, x)
         /\ \A n \in DOMAIN (f \o <<x>>) : n \in DOMAIN f \/ (f \o <<x>>)[n] = x
         /\ \E n \in DOMAIN (f \o <<D!Heading, x>>) : (f \o <<D!Heading, x>>)[n] = D!Heading
<1> DEFINE L == Len(f)
<1>1. L \in Nat /\ DOMAIN f = 1 .. L
  OBVIOUS
<1>2. D!Heading \notin Requests /\ D!Torn \notin Requests /\ D!Heading # D!Torn
  BY DEF D!DailyAssumption, D!Heading, D!Torn
<1>3. \A n \in DOMAIN f : x \in Requests => f[n] # x
  BY DEF Once
<1>4. /\ Added(f, f \o <<x>>, x)
      /\ \A n \in DOMAIN (f \o <<x>>) : n \in DOMAIN f \/ (f \o <<x>>)[n] = x
  <2> DEFINE g == f \o <<x>>
  <2>1. /\ g \in Seq(Parts) /\ Len(g) = L + 1 /\ DOMAIN g = 1 .. L + 1
        /\ \A n \in 1 .. L : g[n] = f[n]
        /\ g[L + 1] = x
    BY DEF Parts
  <2> HIDE DEF g
  <2>2. \A n \in DOMAIN g : n \in DOMAIN f \/ n = L + 1
    BY <1>1, <2>1
  <2>3. /\ \A n \in DOMAIN f : n \in DOMAIN g /\ g[n] = f[n]
        /\ \A n \in DOMAIN g : n \in DOMAIN f \/ g[n] = x
    BY <1>1, <2>1, <2>2
  <2>4. \E n \in DOMAIN g : g[n] = x
    BY <1>1, <2>1
  <2>5. \A m, n \in DOMAIN g : g[m] = g[n] /\ g[n] \in Requests => m = n
    BY <1>1, <1>3, <2>1, <2>2 DEF Once
  <2>6. \A n \in DOMAIN g : g[n] = D!Heading => n < Len(g) /\ g[n + 1] # D!Heading
    <3> SUFFICES ASSUME NEW n \in DOMAIN g, g[n] = D!Heading PROVE n < Len(g) /\ g[n + 1] # D!Heading
      OBVIOUS
    <3>1. n \in 1 .. L
      BY <1>1, <1>2, <2>1, <2>2
    <3>2. n < L /\ f[n + 1] # D!Heading
      BY <1>1, <2>1, <3>1 DEF Once
    <3> QED BY <1>1, <2>1, <3>1, <3>2
  <2>7. Added(f, g, x)
    BY <2>1, <2>3, <2>4, <2>5, <2>6 DEF Added
  <2> QED BY <2>3, <2>7 DEF g
<1>5. /\ Added(f, f \o <<D!Heading, x>>, x)
      /\ \E n \in DOMAIN (f \o <<D!Heading, x>>) : (f \o <<D!Heading, x>>)[n] = D!Heading
  <2> DEFINE g == f \o <<D!Heading, x>>
  <2>1. /\ g \in Seq(Parts) /\ Len(g) = L + 2 /\ DOMAIN g = 1 .. L + 2
        /\ \A n \in 1 .. L : g[n] = f[n]
        /\ g[L + 1] = D!Heading /\ g[L + 2] = x
    BY DEF Parts
  <2> HIDE DEF g
  <2>2. \A n \in DOMAIN g : n \in DOMAIN f \/ n = L + 1 \/ n = L + 2
    BY <1>1, <2>1
  <2>3. /\ \A n \in DOMAIN f : n \in DOMAIN g /\ g[n] = f[n]
        /\ \A n \in DOMAIN g : n \in DOMAIN f \/ g[n] = x \/ (n = L + 1 /\ g[n] = D!Heading)
    BY <1>1, <2>1, <2>2
  <2>4. \E n \in DOMAIN g : g[n] = x
    BY <1>1, <2>1
  <2>5. \E n \in DOMAIN g : g[n] = D!Heading
    BY <1>1, <2>1
  <2>6. \A m, n \in DOMAIN g : g[m] = g[n] /\ g[n] \in Requests => m = n
    BY <1>1, <1>2, <1>3, <2>1, <2>2 DEF Once
  <2>7. \A n \in DOMAIN g : g[n] = D!Heading => n < Len(g) /\ g[n + 1] # D!Heading
    <3> SUFFICES ASSUME NEW n \in DOMAIN g, g[n] = D!Heading PROVE n < Len(g) /\ g[n + 1] # D!Heading
      OBVIOUS
    <3>1. CASE n \in 1 .. L
      <4>1. n < L /\ f[n + 1] # D!Heading
        BY <1>1, <2>1, <3>1 DEF Once
      <4> QED BY <1>1, <2>1, <3>1, <4>1
    <3>2. CASE n = L + 1
      <4>1. g[n + 1] = x /\ n < Len(g)
        BY <1>1, <2>1, <3>2
      <4> QED BY <1>2, <4>1
    <3>3. n # L + 2
      BY <1>2, <2>1
    <3> QED BY <1>1, <2>2, <3>1, <3>2, <3>3
  <2>8. Added(f, g, x)
    BY <2>1, <2>3, <2>4, <2>6, <2>7 DEF Added
  <2> QED BY <2>5, <2>8 DEF g
<1> QED BY <1>4, <1>5

LEMMA DayBegin ==
  ASSUME DayInv, NEW r \in Requests, D!Begin(r)
  PROVE  DayInv'
<1> USE DEF DayInv
<1> DEFINE now == D!AtWork \cup {r}
<1>1. /\ pc[r] = "new" /\ pc' = [pc EXCEPT ![r] = "look"]
      /\ met' = [q \in Requests |-> met[q] \cup {s \in now \ {q} : q \in now}]
      /\ UNCHANGED <<file, exists, existed, gone>>
  BY DEF D!Begin, D!Goto
<1>2. \A q \in Requests : pc'[q] = IF q = r THEN "look" ELSE pc[q]
  BY <1>1 DEF DayState
<1>3. \A q \in Requests : met[q] \subseteq met'[q] /\ met'[q] \subseteq Requests
                          /\ (q \in now => now \ {q} \subseteq met'[q])
  BY <1>1 DEF DayState, D!AtWork
<1>4. D!AtWork' = now
  BY <1>2 DEF D!AtWork, D!Working
<1> HIDE DEF now
<1>5. DayState'
  <2>1. met' \in [Requests -> SUBSET Requests]
    BY <1>1, <1>3
  <2>2. \A q, s \in D!AtWork' : q # s => q \in met'[s]
    BY <1>3, <1>4 DEF D!AtWork
  <2> QED BY <1>1, <1>2, <2>1, <2>2 DEF DayState, D!Working
<1>6. Once(file, pc)'
  <2>1. Once(file, pc')
    BY <1>1, <1>2 DEF Once, D!Working
  <2> QED BY <1>1, <1>2, <2>1 DEF Once
<1>7. OneHeading'
  <2>1. (\A q \in Requests : met'[q] = {}) => \A q \in Requests : met[q] = {}
    BY <1>3
  <2> QED BY <1>1, <1>2, <2>1 DEF OneHeading, Unheaded
<1> QED BY <1>5, <1>6, <1>7

LEMMA DayLook ==
  ASSUME DayInv, NEW r \in Requests, D!Look(r)
  PROVE  DayInv'
<1> USE DEF DayInv
<1>1. /\ pc[r] = "look" /\ pc' = [pc EXCEPT ![r] = "open"]
      /\ existed' = existed \cup {s \in {r} : exists}
      /\ UNCHANGED <<file, exists, gone, met>>
  BY DEF D!Look, D!Goto
<1>2. \A q \in Requests : pc'[q] = IF q = r THEN "open" ELSE pc[q]
  BY <1>1 DEF DayState
<1>3. DayState'
  <2>1. D!AtWork' = D!AtWork
    BY <1>1, <1>2 DEF D!AtWork, D!Working
  <2> QED BY <1>1, <1>2, <2>1 DEF DayState, D!Working
<1>4. Once(file, pc)'
  <2>1. Once(file, pc')
    BY <1>1, <1>2 DEF Once, D!Working
  <2> QED BY <1>1, <1>2, <2>1 DEF Once
<1>5. OneHeading'
  BY <1>1, <1>2 DEF OneHeading, Unheaded
<1> QED BY <1>3, <1>4, <1>5

LEMMA DayOpen ==
  ASSUME DayInv, NEW r \in Requests, D!Open(r)
  PROVE  DayInv'
<1> USE DEF DayInv
<1>1. /\ pc[r] = "open" /\ exists' = TRUE
      /\ \E there \in {"failed", "append"} : pc' = [pc EXCEPT ![r] = there]
      /\ UNCHANGED <<file, existed, gone, met>>
  BY DEF D!Open, D!Goto
<1>2. PICK there \in {"failed", "append"} : pc' = [pc EXCEPT ![r] = there]
  BY <1>1
<1>3. \A q \in Requests : pc'[q] = IF q = r THEN there ELSE pc[q]
  BY <1>2 DEF DayState
<1>4. D!AtWork' \subseteq D!AtWork /\ r \in D!AtWork
  BY <1>1, <1>3 DEF D!AtWork, D!Working
<1>5. DayState'
  BY <1>1, <1>2, <1>3, <1>4 DEF DayState, D!Working
<1>6. Once(file, pc)'
  <2>1. Once(file, pc')
    BY <1>1, <1>3 DEF Once, D!Working
  <2> QED BY <1>1, <1>3, <2>1 DEF Once
<1>7. OneHeading'
  <2> SUFFICES ASSUME \A q \in Requests : met[q] = {} PROVE OneHeading'
    BY <1>1 DEF OneHeading
  <2>1. \A q \in D!AtWork : q = r
    BY <1>4 DEF DayState, D!AtWork
  <2>2. \A q \in Requests : pc'[q] # "open" /\ (pc'[q] = "append" => q = r)
    BY <1>1, <1>3, <2>1 DEF D!AtWork, D!Working
  <2>3. CASE r \in existed
    <3>1. exists
      BY <2>3 DEF DayState
    <3> QED BY <1>1, <1>3, <2>2, <2>3, <3>1 DEF OneHeading, Unheaded
  <2>4. CASE r \notin existed
    <3>1. file = <<>>
      BY <1>1, <2>4 DEF OneHeading, DayState
    <3>2. \A n \in DOMAIN file : FALSE
      BY <3>1
    <3>3. pc'[r] = "failed" \/ (pc'[r] = "append" /\ r \notin existed')
      BY <1>1, <1>3, <2>4
    <3> QED BY <1>1, <2>2, <3>1, <3>2, <3>3 DEF OneHeading, Unheaded
  <2> QED BY <2>3, <2>4
<1> QED BY <1>5, <1>6, <1>7

LEMMA DayWrite ==
  ASSUME DayInv, D!DailyAssumption, NEW r \in Requests, D!Write(r)
  PROVE  DayInv'
<1> USE DEF DayInv
<1>1. /\ pc[r] = "append" /\ file' = file \o D!Body(r)
      /\ \E there \in {"failed", "done"} : pc' = [pc EXCEPT ![r] = there]
      /\ UNCHANGED <<exists, existed, gone, met>>
  BY DEF D!Write, D!Goto
<1>2. PICK there \in {"failed", "done"} : pc' = [pc EXCEPT ![r] = there]
  BY <1>1
<1>3. \A q \in Requests : pc'[q] = IF q = r THEN there ELSE pc[q]
  BY <1>2 DEF DayState
<1>4. r \in gone => there = "failed"
  BY <1>1, <1>3 DEF D!Write, D!Goto, DayState
<1>5. D!AtWork' = D!AtWork \ {r} /\ r \in D!AtWork
  BY <1>1, <1>3 DEF D!AtWork, D!Working
<1>6. file' \in {file \o <<r>>, file \o <<D!Heading, r>>}
      /\ (r \in existed => file' = file \o <<r>>)
      /\ (r \notin existed => file' = file \o <<D!Heading, r>>)
  BY <1>1 DEF D!Body
<1> DEFINE g == file'
<1>7. /\ Added(file, g, r)
      /\ r \in existed => \A n \in DOMAIN g : n \in DOMAIN file \/ g[n] = r
      /\ r \notin existed => \E n \in DOMAIN g : g[n] = D!Heading
  <2>1. file \in Seq(Parts) /\ Once(file, pc) /\ pc[r] \in D!Working /\ r \in Requests \cup {D!Torn}
    BY <1>1 DEF DayState, D!Working
  <2>2. CASE r \in existed
    <3>1. /\ Added(file, file \o <<r>>, r)
          /\ \A n \in DOMAIN (file \o <<r>>) : n \in DOMAIN file \/ (file \o <<r>>)[n] = r
      BY <2>1, DayGrows
    <3> QED BY <1>6, <2>2, <3>1
  <2>3. CASE r \notin existed
    <3>1. /\ Added(file, file \o <<D!Heading, r>>, r)
          /\ \E n \in DOMAIN (file \o <<D!Heading, r>>) : (file \o <<D!Heading, r>>)[n] = D!Heading
      BY <2>1, DayGrows
    <3> QED BY <1>6, <2>3, <3>1
  <2> QED BY <2>2, <2>3
<1> HIDE DEF g
<1>8. DayState'
  BY <1>1, <1>2, <1>4, <1>5, <1>7 DEF DayState, D!Working, g, Added
<1>9. Once(g, pc')
  <2>1. ASSUME NEW q \in Requests
        PROVE  /\ pc'[q] \in D!Working \cup {"new"} => \A n \in DOMAIN g : g[n] # q
               /\ pc'[q] = "done" => \E n \in DOMAIN g : g[n] = q
    <3>1. CASE q = r
      BY <1>3, <1>7, <3>1 DEF D!Working, Added
    <3>2. CASE q # r
      <4>1. D!Heading \notin Requests
        BY DEF D!DailyAssumption
      <4> QED BY <1>3, <1>7, <3>2, <4>1 DEF Once, Added
    <3> QED BY <3>1, <3>2
  <2> QED BY <1>7, <2>1 DEF Once, Added
<1>10. OneHeading'
  <2> SUFFICES ASSUME \A q \in Requests : met[q] = {} PROVE OneHeading'
    BY <1>1 DEF OneHeading
  <2>1. \A q \in D!AtWork : q = r
    BY <1>5 DEF DayState, D!AtWork
  <2>2. \A q \in Requests : pc'[q] \notin {"open", "append"}
    BY <1>3, <2>1 DEF D!AtWork, D!Working
  <2>3. D!Heading \notin Requests
    BY DEF D!DailyAssumption
  <2>4. CASE r \in existed
    <3>1. \A n \in DOMAIN g : g[n] = D!Heading => n \in DOMAIN file /\ file[n] = D!Heading
      BY <1>7, <2>3, <2>4 DEF Added
    <3>2. (\A n \in DOMAIN g : g[n] # D!Heading) => Unheaded
      BY <1>7 DEF Unheaded, Added
    <3>3. \A q \in Requests : pc[q] = "append" => q \in existed
      BY <2>1, <2>4 DEF D!AtWork, D!Working
    <3>4. \A q \in Requests : pc[q] = "failed" => pc'[q] = "failed"
      BY <1>1, <1>3
    <3> QED BY <1>1, <2>2, <3>1, <3>2, <3>3, <3>4 DEF OneHeading, Unheaded, g
  <2>5. CASE r \notin existed
    <3>1. file = <<>>
      BY <1>1, <2>5 DEF OneHeading
    <3>2. DOMAIN file = {} /\ Len(file) = 0
      BY <3>1
    <3>3. \A n \in DOMAIN g : g[n] = D!Heading => n = 1
      BY <1>7, <2>3, <3>2 DEF Added
    <3>4. \E n \in DOMAIN g : g[n] = D!Heading
      BY <1>7, <2>5
    <3> QED BY <2>2, <3>3, <3>4 DEF OneHeading, Unheaded, g
  <2> QED BY <2>4, <2>5
<1> QED BY <1>8, <1>9, <1>10 DEF g

LEMMA DayWriteFails ==
  ASSUME DayInv, D!DailyAssumption, NEW r \in Requests, D!WriteFails(r)
  PROVE  DayInv'
<1> USE DEF DayInv
<1>1. /\ pc[r] = "append" /\ pc' = [pc EXCEPT ![r] = "failed"]
      /\ file' \in {file, file \o SubSeq(D!Body(r), 1, Len(D!Body(r)) - 1) \o <<D!Torn>>}
      /\ UNCHANGED <<exists, existed, gone, met>>
  BY DEF D!WriteFails, D!Goto
<1>2. \A q \in Requests : pc'[q] = IF q = r THEN "failed" ELSE pc[q]
  BY <1>1 DEF DayState
<1>3. D!AtWork' = D!AtWork \ {r} /\ r \in D!AtWork
  BY <1>1, <1>2 DEF D!AtWork, D!Working
<1>4. file \in Seq(Parts)
  BY DEF DayState
<1>5. \/ file' = file
      \/ file' = file \o <<D!Torn>> /\ r \in existed
      \/ file' = file \o <<D!Heading, D!Torn>> /\ r \notin existed
  <2>1. CASE r \in existed
    <3>1. D!Body(r) = <<r>>
      BY <2>1 DEF D!Body
    <3>2. SubSeq(D!Body(r), 1, Len(D!Body(r)) - 1) = <<>>
      BY <3>1
    <3>3. file \o <<>> = file
      BY <1>4
    <3> QED BY <1>1, <2>1, <3>2, <3>3
  <2>2. CASE r \notin existed
    <3>1. D!Body(r) = <<D!Heading, r>>
      BY <2>2 DEF D!Body
    <3>2. <<D!Heading, r>> \in Seq(Parts) /\ Len(<<D!Heading, r>>) = 2 /\ <<D!Heading, r>>[1] = D!Heading
      BY DEF Parts
    <3>3. SubSeq(<<D!Heading, r>>, 1, 1) = <<D!Heading>>
      <4> DEFINE b == <<D!Heading, r>>
      <4> HIDE DEF b
      <4>1. b \in Seq(Parts) /\ Len(b) = 2 /\ b[1] = D!Heading
        BY <3>2 DEF b
      <4>2. SubSeq(b, 1, 1) \in Seq(Parts) /\ Len(SubSeq(b, 1, 1)) = 1
            /\ SubSeq(b, 1, 1)[1] = D!Heading
        BY <4>1
      <4>3. <<D!Heading>> \in Seq(Parts) /\ Len(<<D!Heading>>) = 1 /\ <<D!Heading>>[1] = D!Heading
        BY DEF Parts
      <4> DEFINE c == SubSeq(b, 1, 1)  d == <<D!Heading>>
      <4> HIDE DEF c, d
      <4>4. c \in Seq(Parts) /\ d \in Seq(Parts) /\ Len(c) = 1 /\ Len(d) = 1 /\ c[1] = d[1]
        BY <4>2, <4>3 DEF c, d
      <4>5. c = d
        BY <4>4, SeqEqual
      <4> QED BY <4>5 DEF b, c, d
    <3>4. file \o <<D!Heading>> \o <<D!Torn>> = file \o <<D!Heading, D!Torn>>
      <4> DEFINE c == file \o <<D!Heading>> \o <<D!Torn>>  d == file \o <<D!Heading, D!Torn>>
                 L == Len(file)
      <4>1. /\ c \in Seq(Parts) /\ Len(c) = L + 2 /\ c[L + 1] = D!Heading /\ c[L + 2] = D!Torn
            /\ \A n \in 1 .. L : c[n] = file[n]
        BY <1>4 DEF Parts
      <4>2. /\ d \in Seq(Parts) /\ Len(d) = L + 2 /\ d[L + 1] = D!Heading /\ d[L + 2] = D!Torn
            /\ \A n \in 1 .. L : d[n] = file[n]
        BY <1>4 DEF Parts
      <4>3. L \in Nat
        BY <1>4
      <4> HIDE DEF c, d, L
      <4>4. \A n \in 1 .. L + 2 : n \in 1 .. L \/ n = L + 1 \/ n = L + 2
        BY <4>3
      <4>5. c = d
        BY <4>1, <4>2, <4>4, SeqEqual
      <4> QED BY <4>5 DEF c, d
    <3>5. SubSeq(D!Body(r), 1, Len(D!Body(r)) - 1) = <<D!Heading>>
      <4> DEFINE b == <<D!Heading, r>>
      <4>1. D!Body(r) = b /\ Len(b) - 1 = 1 /\ SubSeq(b, 1, 1) = <<D!Heading>>
        BY <3>1, <3>2, <3>3
      <4> HIDE DEF b
      <4> QED BY <4>1
    <3>6. file' = file \/ file' = file \o <<D!Heading>> \o <<D!Torn>>
      BY <1>1, <3>5
    <3> QED BY <2>2, <3>4, <3>6
  <2> QED BY <2>1, <2>2
<1> DEFINE g == file'
<1>6. CASE g = file
  <2>1. DayState'
    BY <1>1, <1>2, <1>3, <1>6 DEF DayState, D!Working
  <2>2. Once(file, pc)'
    <3>1. Once(file, pc')
      BY <1>2 DEF Once, D!Working
    <3> QED BY <1>6, <3>1 DEF Once
  <2>3. OneHeading'
    BY <1>1, <1>2, <1>6 DEF OneHeading
  <2> QED BY <2>1, <2>2, <2>3
<1>7. CASE g # file
  <2>1. /\ Added(file, g, D!Torn)
        /\ r \in existed => \A n \in DOMAIN g : n \in DOMAIN file \/ g[n] = D!Torn
    <3>1. D!Torn \notin Requests /\ D!Torn \in Requests \cup {D!Torn} /\ Once(file, pc)
      BY DEF D!DailyAssumption
    <3>2. CASE r \in existed
      BY <1>4, <1>5, <1>7, <3>1, <3>2, DayGrows
    <3>3. CASE r \notin existed
      BY <1>4, <1>5, <1>7, <3>1, <3>3, DayGrows
    <3> QED BY <3>2, <3>3
  <2> HIDE DEF g
  <2>3. D!Heading \notin Requests /\ D!Torn \notin Requests /\ D!Heading # D!Torn
    BY DEF D!DailyAssumption, D!Heading, D!Torn
  <2>4. DayState'
    BY <1>1, <1>2, <1>3, <2>1 DEF DayState, D!Working, g, Added
  <2>5. Once(g, pc')
    <3>1. ASSUME NEW q \in Requests
          PROVE  /\ pc'[q] \in D!Working \cup {"new"} => \A n \in DOMAIN g : g[n] # q
                 /\ pc'[q] = "done" => \E n \in DOMAIN g : g[n] = q
      BY <1>2, <2>1, <2>3 DEF Once, D!Working, Added
    <3> QED BY <2>1, <3>1 DEF Once, Added
  <2>6. OneHeading'
    <3> SUFFICES ASSUME \A q \in Requests : met[q] = {} PROVE OneHeading'
      BY <1>1 DEF OneHeading
    <3>1. \A q \in D!AtWork : q = r
      BY <1>3 DEF DayState, D!AtWork
    <3>2. \A q \in Requests : pc'[q] \notin {"open", "append"}
      BY <1>2, <3>1 DEF D!AtWork, D!Working
    <3>3. ASSUME NEW n \in DOMAIN g, g[n] = D!Heading PROVE n = 1
      <4>1. CASE n \in DOMAIN file
        BY <2>1, <3>3, <4>1 DEF OneHeading, Added
      <4>2. CASE n \notin DOMAIN file
        <5>1. r \notin existed /\ n = Len(file) + 1
          BY <2>1, <2>3, <3>3, <4>2 DEF Added
        <5>2. file = <<>>
          BY <1>1, <5>1 DEF OneHeading
        <5> QED BY <5>1, <5>2
      <4> QED BY <4>1, <4>2
    <3> QED BY <1>2, <3>2, <3>3 DEF OneHeading, g
  <2> QED BY <2>4, <2>5, <2>6 DEF g
<1> QED BY <1>6, <1>7

(* A handler that is dropped, and all of them in a crash.                  *)
LEMMA DayStop ==
  ASSUME DayInv,
         pc' \in [Requests -> D!Working \cup {"new", "done", "failed"}],
         \A q \in Requests : pc'[q] = pc[q] \/ pc'[q] = "failed",
         gone' \subseteq {r \in Requests : pc'[r] \in {"open", "append", "failed"}},
         UNCHANGED <<file, exists, existed, met>>
  PROVE  DayInv'
<1> USE DEF DayInv
<1>1. D!AtWork' \subseteq D!AtWork
  BY DEF D!AtWork, D!Working
<1>2. DayState'
  BY <1>1 DEF DayState
<1>3. Once(file, pc)'
  <2>1. Once(file, pc')
    BY DEF Once, D!Working
  <2> QED BY <2>1 DEF Once
<1>4. OneHeading'
  BY DEF OneHeading, Unheaded
<1> QED BY <1>2, <1>3, <1>4

LEMMA DayNext == ASSUME DayInv, D!DailyAssumption, D!Next PROVE DayInv'
<1>1. ASSUME NEW r \in Requests, D!Drop(r) PROVE DayInv'
  BY <1>1, DayStop DEF D!Drop, D!Goto, DayInv, DayState
<1>2. ASSUME D!Crash PROVE DayInv'
  BY <1>2, DayStop DEF D!Crash, DayInv, DayState, D!AtWork, D!Working
<1> QED BY <1>1, <1>2, DayBegin, DayLook, DayOpen, DayWrite, DayWriteFails DEF D!Next, D!Handler

LEMMA DayImplies == ASSUME DayInv PROVE D!TypeOK /\ D!HeadedOnce
<1> USE DEF DayInv
<1>1. D!TypeOK
  <2>1. ToSet(file) \subseteq Parts
    BY DEF ToSet, DayState
  <2> QED BY <2>1 DEF D!TypeOK, D!Range, ToSet, DayState, Parts
<1>2. ASSUME NEW r \in Requests, pc[r] = "done"
      PROVE  Cardinality({n \in DOMAIN file : file[n] = r}) = 1
  <2>1. PICK m \in DOMAIN file : file[m] = r
    BY <1>2 DEF Once
  <2>2. {n \in DOMAIN file : file[n] = r} = {m}
    BY <2>1 DEF Once
  <2>3. Cardinality({m}) = 1
    BY FS_Singleton
  <2> QED BY <2>2, <2>3
<1>3. \A n \in D!Headings : n < Len(file) /\ file[n + 1] # D!Heading
  BY DEF Once, D!Headings
<1>4. ASSUME \A r \in Requests : met[r] = {}
      PROVE  /\ D!Headings \subseteq {1}
             /\ file # <<>> /\ D!Headings = {} => \E r \in Requests : pc[r] = "failed"
  <2>1. D!Headings \subseteq {1}
    BY <1>4 DEF OneHeading, D!Headings
  <2>2. ASSUME file # <<>>, D!Headings = {} PROVE \E r \in Requests : pc[r] = "failed"
    <3>1. exists /\ Unheaded
      BY <2>2 DEF DayState, Unheaded, D!Headings
    <3> QED BY <1>4, <2>2, <3>1 DEF OneHeading
  <2> QED BY <2>1, <2>2
<1> QED BY <1>1, <1>2, <1>3, <1>4 DEF D!HeadedOnce, D!Cardinality, Cardinality

----------------------------------------------------------------------------
(* WHAT THE API KEEPS *)

Stores == {"output", "jsonl", "canvas", "attachments", "daily"}

StoreInv ==
  /\ store \in Stores
  /\ store = "output" => PtyInv
  /\ store = "jsonl" => ListInv
  /\ store = "canvas" => CanvasInv
  /\ store = "attachments" => AgentsInv
  /\ store = "daily" => DayInv

LEMMA StoreInit == Init => StoreInv
<1> SUFFICES ASSUME Init PROVE StoreInv
  OBVIOUS
<1>1. CASE store = "output" /\ P!Init
  BY <1>1, RetainedAssumption, PtyInit DEF StoreInv, Stores
<1>2. CASE store = "jsonl" /\ J!Init
  BY <1>2, ListInit DEF StoreInv, Stores
<1>3. CASE store = "canvas" /\ C!Init
  BY <1>3, CanvasInit DEF StoreInv, Stores
<1>4. CASE store = "attachments" /\ A!Init
  BY <1>4, AgentsInit DEF StoreInv, Stores
<1>5. CASE store = "daily" /\ D!Init
  BY <1>5, DayInit DEF StoreInv, Stores
<1> QED BY <1>1, <1>2, <1>3, <1>4, <1>5 DEF Init

LEMMA NothingHappens ==
  ASSUME UNCHANGED vars
  PROVE  (ListInv => ListInv') /\ (CanvasInv => CanvasInv')
         /\ (AgentsInv => AgentsInv') /\ (DayInv => DayInv')
<1>1. UNCHANGED ofFiles
  BY DEF vars
<1>2. /\ file' = file /\ pc' = pc /\ gone' = gone /\ mem' = mem /\ up' = up /\ met' = met
      /\ asks' = asks /\ copy' = copy /\ out' = out /\ anew' = anew /\ lapses' = lapses
      /\ last' = last /\ exists' = exists /\ existed' = existed
  BY <1>1 DEF ofFiles
<1>3. ListInv => ListInv'
  <2>1. ListState => ListState'
    BY <1>2 DEF ListState, J!AtWork
  <2>2. WrittenOnce => WrittenOnce'
    BY <1>2 DEF WrittenOnce
  <2>3. ReadOrPushed => ReadOrPushed'
    BY <1>2 DEF ReadOrPushed
  <2>4. HaveMet /\ Followed => HaveMet' /\ Followed'
    BY <1>2 DEF HaveMet, Followed, J!AtWork
  <2>5. EndsItsLine => EndsItsLine'
    BY <1>2 DEF EndsItsLine, J!With
  <2>6. StartsItsLine => StartsItsLine'
    BY <1>2 DEF StartsItsLine, J!With
  <2>7. TornBySomeone => TornBySomeone'
    <3>1. TornPlaces' = TornPlaces /\ Tore' = Tore
      BY <1>2 DEF TornPlaces, Tore
    <3> QED BY <3>1 DEF TornBySomeone
  <2>8. FewHaveCome => FewHaveCome'
    BY <1>2 DEF FewHaveCome, Come
  <2>9. Shown => Shown'
    BY <1>2 DEF Shown
  <2>10. InFileOrder => InFileOrder'
    BY <1>2 DEF InFileOrder, J!With
  <2> QED BY <2>1, <2>2, <2>3, <2>4, <2>5, <2>6, <2>7, <2>8, <2>9, <2>10 DEF ListInv
<1>4. CanvasInv => CanvasInv'
  BY <1>2 DEF CanvasInv, CanvasState, CanvasAlone, KeepsChanges, FileFollows, Clean, Changed,
              C!AtWork, C!Id
<1>5. AgentsInv => AgentsInv'
  <2>1. A!AtWork' = A!AtWork /\ \A r \in Requests : A!Agent(r)' = A!Agent(r)
    BY <1>2 DEF A!AtWork, A!Agent
  <2>2. AgentsState => AgentsState'
    BY <1>2, <2>1 DEF AgentsState, A!Agent, A!AtWork
  <2>3. OneByOne => OneByOne'
    BY <1>2, <2>1 DEF OneByOne, Recalls, A!Agent, A!AtWork
  <2> QED BY <2>2, <2>3 DEF AgentsInv
<1>6. DayInv => DayInv'
  BY <1>2 DEF DayInv, DayState, Once, OneHeading, Unheaded, D!AtWork, D!Headings
<1> QED BY <1>3, <1>4, <1>5, <1>6

LEMMA StoreNext == StoreInv /\ [Next]_vars => StoreInv'
<1> SUFFICES ASSUME StoreInv, [Next]_vars PROVE StoreInv'
  OBVIOUS
<1>1. CASE store = "output" /\ P!Next /\ UNCHANGED store
  <2>1. PtyInv'
    BY <1>1, RetainedAssumption, PtyNext DEF StoreInv
  <2> QED BY <1>1, <2>1 DEF StoreInv
<1>2. CASE store = "jsonl" /\ J!Next /\ UNCHANGED store
  <2>1. ListInv'
    BY <1>2, RetainedAssumption, ListNext DEF StoreInv
  <2> QED BY <1>2, <2>1 DEF StoreInv
<1>3. CASE store = "canvas" /\ C!Next /\ UNCHANGED store
  <2>1. CanvasInv'
    BY <1>3, CanvasNext DEF StoreInv
  <2> QED BY <1>3, <2>1 DEF StoreInv
<1>4. CASE store = "attachments" /\ A!Next /\ UNCHANGED store
  <2>1. AgentsInv'
    BY <1>4, AgentsNext DEF StoreInv
  <2> QED BY <1>4, <2>1 DEF StoreInv
<1>5. CASE store = "daily" /\ D!Next /\ UNCHANGED store
  <2>1. DayInv'
    BY <1>5, RetainedAssumption, DayNext DEF StoreInv
  <2> QED BY <1>5, <2>1 DEF StoreInv
<1>6. CASE UNCHANGED vars
  <2>1. UNCHANGED store /\ UNCHANGED P!vars
    BY <1>6 DEF vars, ofOutput, P!vars
  <2>2. PtyInv => PtyInv'
    BY <2>1, RetainedAssumption, PtyNext
  <2> QED BY <1>6, <2>1, <2>2, NothingHappens DEF StoreInv
<1> QED BY <1>1, <1>2, <1>3, <1>4, <1>5, <1>6 DEF Next

LEMMA StoreInvariant == Spec => []StoreInv
BY StoreInit, StoreNext, PTL DEF Spec

(* Every reachable state of each store is well typed: there is one writer  *)
(* of the canvases and one of the attachments at a time (the mutexes of    *)
(* CanvasStore::save and AttachmentStore::save), no list has an entry      *)
(* twice, and what a handler claims to have written is in its file.        *)
THEOREM TypeCorrect == Spec => []TypeOK
<1>1. StoreInv => TypeOK
  BY PtyTypeOK, ListTypeOK, CanvasImplies, AgentsImplies, DayImplies DEF StoreInv, Stores, TypeOK
<1> QED BY <1>1, StoreInvariant, PTL

(* Whatever a terminal prints, its ring buffer has what came out of the    *)
(* output pipeline line by line; and whatever requests overlap, are        *)
(* dropped or killed, entries, canvas changes, agent states and            *)
(* checkpoints are lost only in the ways that GivenIsKept names.           *)
THEOREM WhatIsGivenIsKept == Spec => []GivenIsKept
<1>1. StoreInv => GivenIsKept
  BY RetainedAssumption, PtyNothingLost, SavesAreKept, CanvasImplies, AgentsImplies, DayImplies
     DEF StoreInv, GivenIsKept
<1> QED BY <1>1, StoreInvariant, PTL

(* PtyOutputProcessor: however a stream of any length is cut into reads,   *)
(* when the reader is done the pieces that it has put out are together     *)
(* what one read of the whole stream puts out, and normalizing them again  *)
(* changes nothing.                                                        *)
THEOREM ReadsAreInvisible == Spec => []ChunkingInvisible
<1>1. StoreInv => ChunkingInvisible
  BY PtyChunking DEF StoreInv, ChunkingInvisible
<1> QED BY <1>1, StoreInvariant, PTL

(* The lines of a JSONL file that parse and the list in memory are the     *)
(* same entries in the same order until requests overlap, and canvases.json *)
(* has the canvases in memory whenever nobody writes it and no write was   *)
(* lost.                                                                   *)
THEOREM MemoryAndFileAgree == Spec => []MemoryTellsFile
<1>1. StoreInv => MemoryTellsFile
  BY RetainedAssumption, ListTellsTheFile, CanvasImplies DEF StoreInv, MemoryTellsFile
<1> QED BY <1>1, StoreInvariant, PTL

=============================================================================
