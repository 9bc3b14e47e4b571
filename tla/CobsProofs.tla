----------------------------- MODULE CobsProofs -----------------------------
(***************************************************************************)
(* Proofs about the codec, for sequences of any length: what is encoded    *)
(* has no zero, has the length that cobs.h reserves for it, and decodes to *)
(* what it was made from.                                                  *)
(*                                                                         *)
(* The codec is defined by recursion over positions.  Induction is         *)
(* derived from the pigeonhole principle on finite sets, and stated for    *)
(* sets of positions, so that it can be applied to any property.           *)
(***************************************************************************)
EXTENDS Cobs, FiniteSetTheorems, SequenceTheorems, TLAPS

-----------------------------------------------------------------------------
(* Induction                                                               *)

\* No set of naturals up to one of its members goes down for ever.
LEMMA NoDescent ==
  ASSUME NEW m \in Nat, NEW U \in SUBSET (0 .. m), m \in U, \A n \in U : n - 1 \in U
  PROVE  FALSE
<1>1. IsFiniteSet(U)
  <2>1. IsFiniteSet(0 .. m)
    BY FS_Interval
  <2>. QED
    BY <2>1, FS_Subset
<1>2. /\ IsFiniteSet(U \ {m}) /\ Cardinality(U) \in Nat
      /\ Cardinality(U \ {m}) = Cardinality(U) - 1
  BY <1>1, FS_RemoveElement, FS_CardinalityType
<1>. DEFINE pred == [n \in U |-> n - 1]
<1>3. pred \in [U -> U \ {m}]
  OBVIOUS
<1>4. PICK x \in U, y \in U : x # y /\ pred[x] = pred[y]
  <2>1. Cardinality(U \ {m}) < Cardinality(U)
    BY <1>2
  <2>. HIDE DEF pred
  <2>. QED
    BY <1>1, <1>2, <1>3, <2>1, FS_PigeonHole
<1>. QED
  BY <1>4

\* A set that has 0 and with each natural the next has all of them.
LEMMA Induction ==
  ASSUME NEW S, 0 \in S, \A n \in Nat : n \in S => n + 1 \in S
  PROVE  Nat \subseteq S
<1>. SUFFICES ASSUME NEW m \in Nat, m \notin S PROVE FALSE
  OBVIOUS
<1>. DEFINE U == {n \in 0 .. m : n \notin S}
<1>1. m \in U /\ U \in SUBSET (0 .. m)
  OBVIOUS
<1>2. ASSUME NEW n \in U PROVE n - 1 \in U
  <2>1. n \in Nat /\ n <= m /\ n \notin S /\ n # 0
    OBVIOUS
  <2>2. n - 1 \in Nat /\ (n - 1) + 1 = n
    BY <2>1
  <2>. QED
    BY <2>1, <2>2
<1>. HIDE DEF U
<1>. QED
  BY <1>1, <1>2, NoDescent

\* From the last position down: what holds of a position when it holds of all
\* later ones holds of all.
LEMMA DownInduction ==
  ASSUME NEW a \in Nat, NEW N \in Nat, NEW T,
         \A i \in a .. N : (\A j \in i + 1 .. N : j \in T) => i \in T
  PROVE  a .. N \subseteq T
<1>. DEFINE S == {k \in Nat : \A j \in N + 1 - k .. N : j \in a .. N => j \in T}
<1>1. 0 \in S
  OBVIOUS
<1>2. ASSUME NEW k \in Nat, k \in S PROVE k + 1 \in S
  <2>1. CASE N - k \notin a .. N
    BY <1>2, <2>1
  <2>2. CASE N - k \in a .. N
    <3>1. \A j \in (N - k) + 1 .. N : j \in T
      BY <1>2, <2>2
    <3>2. N - k \in T
      BY <2>2, <3>1
    <3>. QED
      BY <1>2, <3>1, <3>2
  <2>. QED
    BY <2>1, <2>2
<1>3. N + 1 \in S
  <2>. HIDE DEF S
  <2>. QED
    BY <1>1, <1>2, Induction
<1>. QED
  BY <1>3

\* A recursion over the positions a to N with values in V: at a position in
\* stop the value is given by base, at any other step makes it from the value
\* at a later position next.
Recursive(a, N, V, stop, base, next, step) ==
  /\ a \in Nat /\ N \in Nat
  /\ base \in [a .. N -> V]
  /\ step \in [a .. N -> [V -> V]]
  /\ \A i \in a .. N : i \notin stop => next[i] \in i + 1 .. N

\* f is a function defined by such a recursion.
Solves(f, a, N, V, stop, base, next, step) ==
  /\ f \in [a .. N -> V]
  /\ \A i \in a .. N : f[i] = IF i \in stop THEN base[i] ELSE step[i][f[next[i]]]

\* There is one.
LEMMA Recursion ==
  ASSUME NEW a, NEW N, NEW V, NEW stop, NEW base, NEW next, NEW step,
         Recursive(a, N, V, stop, base, next, step)
  PROVE  \E f : Solves(f, a, N, V, stop, base, next, step)
<1>. USE DEF Recursive, Solves
<1>. DEFINE Ok(f, k) == \A i \in k .. N : i \in a .. N =>
                          f[i] = IF i \in stop THEN base[i] ELSE step[i][f[next[i]]]
            S == {k \in Nat : \E f \in [a .. N -> V] : Ok(f, N + 1 - k)}
<1>1. 0 \in S
  <2>1. Ok(base, N + 1 - 0)
    OBVIOUS
  <2>. QED
    BY <2>1
<1>2. ASSUME NEW k \in Nat, k \in S PROVE k + 1 \in S
  <2>1. PICK f \in [a .. N -> V] : Ok(f, N + 1 - k)
    BY <1>2
  <2>2. CASE N - k \notin a .. N
    <3>1. Ok(f, N + 1 - (k + 1))
      BY <2>1, <2>2
    <3>. HIDE DEF Ok
    <3>. QED
      BY <3>1
  <2>3. CASE N - k \in a .. N
    <3>. DEFINE i == N - k
                v == IF i \in stop THEN base[i] ELSE step[i][f[next[i]]]
                g == [f EXCEPT ![i] = v]
    <3>1. i \in a .. N /\ N + 1 - (k + 1) = i /\ N + 1 - k = i + 1
      BY <2>3
    <3>. HIDE DEF i
    <3>2. v \in V
      BY <3>1
    <3>. HIDE DEF v
    <3>3. g \in [a .. N -> V] /\ g[i] = v /\ \A j \in a .. N : j # i => g[j] = f[j]
      BY <3>1, <3>2
    <3>. HIDE DEF g
    <3>4. Ok(g, i)
      <4>. SUFFICES ASSUME NEW j \in i .. N
                    PROVE  g[j] = IF j \in stop THEN base[j] ELSE step[j][g[next[j]]]
        BY <3>1
      <4>1. j \in a .. N /\ (j \notin stop => next[j] \in a .. N /\ next[j] # i)
        BY <3>1
      <4>2. j \notin stop => g[next[j]] = f[next[j]]
        BY <3>3, <4>1
      <4>3. CASE j = i
        BY <3>3, <4>1, <4>2, <4>3 DEF v
      <4>4. CASE j # i
        <5>1. g[j] = f[j] /\ j \in i + 1 .. N
          BY <3>1, <3>3, <4>1, <4>4
        <5>2. f[j] = IF j \in stop THEN base[j] ELSE step[j][f[next[j]]]
          BY <2>1, <3>1, <4>1, <5>1
        <5>. QED
          BY <4>2, <5>1, <5>2
      <4>. QED
        BY <4>3, <4>4
    <3>5. Ok(g, N + 1 - (k + 1))
      BY <3>1, <3>4
    <3>. HIDE DEF Ok
    <3>. QED
      BY <3>3, <3>5
  <2>. QED
    BY <2>2, <2>3
<1>3. N + 1 \in S
  <2>. HIDE DEF S
  <2>. QED
    BY <1>1, <1>2, Induction
<1>. QED
  BY <1>3

-----------------------------------------------------------------------------
(* The run of bytes that makes a block                                     *)

\* Where the run that begins at position i of s may not go on.
Stops(s, i, k) == k = CodeMax - 1 \/ i + k > Len(s) \/ s[i + k] = 0

\* RunLength counts up to the first place where the run stops.
LEMMA RunLengthStops ==
  ASSUME NEW s \in Seq(Nat), NEW i \in 1 .. Len(s) + 1
  PROVE  /\ RunLength(s, i) \in 0 .. CodeMax - 1
         /\ Stops(s, i, RunLength(s, i))
         /\ \A k \in 0 .. RunLength(s, i) - 1 : ~Stops(s, i, k)
<1>. USE CodeMaxAssumption
<1>. DEFINE M  == CodeMax - 1
            IsRun(g) == g = [k \in 0 .. M |-> IF k = M \/ i + k > Len(s) \/ s[i + k] = 0
                                              THEN k ELSE g[k + 1]]
<1>1. \E g : IsRun(g)
  <2>. DEFINE stop == {k \in 0 .. M : Stops(s, i, k)}
              base == [k \in 0 .. M |-> k]
              next == [k \in 0 .. M |-> k + 1]
              step == [k \in 0 .. M |-> [v \in 0 .. M |-> v]]
  <2>1. Recursive(0, M, 0 .. M, stop, base, next, step)
    BY DEF Recursive, Stops
  <2>2. PICK f : Solves(f, 0, M, 0 .. M, stop, base, next, step)
    <3>. HIDE DEF stop, base, next, step, M
    <3>. QED
      BY <2>1, Recursion
  <2>3. ASSUME NEW k \in 0 .. M
        PROVE  f[k] = IF k = M \/ i + k > Len(s) \/ s[i + k] = 0 THEN k ELSE f[k + 1]
    <3>1. CASE k \in stop
      BY <2>2, <3>1 DEF Solves, Stops
    <3>2. CASE k \notin stop
      <4>1. k + 1 \in 0 .. M /\ ~(k = M \/ i + k > Len(s) \/ s[i + k] = 0)
        BY <3>2 DEF Stops
      <4>2. f[k + 1] \in 0 .. M /\ next[k] = k + 1
        BY <2>2, <4>1 DEF Solves
      <4>. QED
        BY <2>2, <3>2, <4>1, <4>2 DEF Solves
    <3>. QED
      BY <3>1, <3>2
  <2>4. IsRun(f)
    <3>1. f \in [0 .. M -> 0 .. M]
      BY <2>2 DEF Solves
    <3>. HIDE DEF M
    <3>. QED
      BY <2>3, <3>1
  <2>. QED
    BY <2>4
<1>2. PICK g : IsRun(g) /\ RunLength(s, i) = g[0]
  BY <1>1 DEF RunLength
<1>. DEFINE T == {k \in 0 .. M : /\ g[k] \in k .. M /\ Stops(s, i, g[k])
                                 /\ \A j \in k .. g[k] - 1 : ~Stops(s, i, j)}
<1>3. ASSUME NEW k \in 0 .. M, \A j \in k + 1 .. M : j \in T PROVE k \in T
  <2>1. CASE Stops(s, i, k)
    <3>1. g[k] = k
      BY <1>2, <2>1 DEF Stops
    <3>. QED
      BY <2>1, <3>1
  <2>2. CASE ~Stops(s, i, k)
    <3>1. k + 1 \in 0 .. M /\ g[k] = g[k + 1]
      BY <1>2, <2>2 DEF Stops
    <3>2. k + 1 \in T
      BY <1>3, <3>1
    <3>. QED
      BY <2>2, <3>1, <3>2
  <2>. QED
    BY <2>1, <2>2
<1>4. 0 .. M \subseteq T
  <2>1. 0 \in Nat /\ M \in Nat
    OBVIOUS
  <2>. HIDE DEF T, M
  <2>. QED
    BY <1>3, <2>1, DownInduction
<1>5. 0 \in T
  BY <1>4
<1>. QED
  BY <1>2, <1>5

-----------------------------------------------------------------------------
(* The encoder                                                             *)

\* The bytes an encoded frame is made of, for frames over B.
Coded(B) == (B \cup 1 .. CodeMax) \ {0}

\* The block that the encoder makes of the run at position i.
Block(s, i) == <<RunLength(s, i) + 1>> \o SubSeq(s, i, (i + RunLength(s, i)) - 1)

\* A block is a code byte, which tells its length, and the bytes of the run.
LEMMA BlockShape ==
  ASSUME NEW B \in SUBSET Nat, NEW s \in Seq(B), NEW i \in 1 .. Len(s) + 1
  PROVE  /\ RunLength(s, i) \in 0 .. CodeMax - 1
         /\ i + RunLength(s, i) <= Len(s) + 1
         /\ Block(s, i) \in Seq(Coded(B))
         /\ Len(Block(s, i)) = RunLength(s, i) + 1
         /\ Block(s, i)[1] = RunLength(s, i) + 1
         /\ \A k \in 1 .. RunLength(s, i) : /\ Block(s, i)[k + 1] = s[i + k - 1]
                                            /\ s[i + k - 1] # 0
<1>. USE CodeMaxAssumption
<1>. DEFINE n == RunLength(s, i)
<1>1. s \in Seq(Nat)
  BY SeqMonotonic
<1>2. /\ n \in 0 .. CodeMax - 1
      /\ \A k \in 0 .. n - 1 : i + k <= Len(s) /\ s[i + k] # 0
  BY <1>1, RunLengthStops DEF Stops
<1>. HIDE DEF n
<1>3. i + n <= Len(s) + 1
  <2>1. CASE n = 0
    BY <2>1
  <2>2. CASE n # 0
    <3>1. n - 1 \in 0 .. n - 1
      BY <1>2, <2>2
    <3>2. i + (n - 1) <= Len(s)
      BY <1>2, <3>1
    <3>. QED
      BY <1>2, <3>2
  <2>. QED
    BY <2>1, <2>2
<1>4. \A k \in 1 .. n : i + k - 1 \in 1 .. Len(s) /\ s[i + k - 1] # 0
  <2>. SUFFICES ASSUME NEW k \in 1 .. n PROVE i + k - 1 \in 1 .. Len(s) /\ s[i + k - 1] # 0
    OBVIOUS
  <2>1. k - 1 \in 0 .. n - 1 /\ i + (k - 1) = i + k - 1
    BY <1>2
  <2>2. i + (k - 1) <= Len(s) /\ s[i + (k - 1)] # 0
    BY <1>2, <2>1
  <2>. QED
    BY <2>1, <2>2
<1>. DEFINE run == SubSeq(s, i, (i + n) - 1)
<1>5. /\ run \in Seq(Coded(B)) /\ Len(run) = n
      /\ \A k \in 1 .. n : run[k] = s[i + k - 1]
  <2>1. \A j \in i .. (i + n) - 1 : s[j] \in Coded(B)
    <3>. SUFFICES ASSUME NEW j \in i .. (i + n) - 1 PROVE s[j] \in Coded(B)
      OBVIOUS
    <3>1. j - i + 1 \in 1 .. n /\ i + (j - i + 1) - 1 = j
      BY <1>2
    <3>2. j \in 1 .. Len(s) /\ s[j] # 0
      BY <1>4, <3>1
    <3>. QED
      BY <3>2 DEF Coded
  <2>2. i \in Int /\ (i + n) - 1 \in Int /\ ((i + n) - 1) - i + 1 = n
    BY <1>2
  <2>. QED
    BY <1>2, <2>1, <2>2, SubSeqProperties, SMTT(30)
<1>6. <<n + 1>> \in Seq(Coded(B)) /\ Len(<<n + 1>>) = 1 /\ <<n + 1>>[1] = n + 1
  <2>1. n + 1 \in Coded(B)
    BY <1>2 DEF Coded
  <2>. QED
    BY <2>1
<1>. HIDE DEF run
<1>7. /\ <<n + 1>> \o run \in Seq(Coded(B)) /\ Len(<<n + 1>> \o run) = n + 1
      /\ \A k \in 1 .. n + 1 : (<<n + 1>> \o run)[k] = IF k <= 1 THEN <<n + 1>>[k]
                                                         ELSE run[k - 1]
  BY <1>2, <1>5, <1>6, ConcatProperties
<1>8. (<<n + 1>> \o run)[1] = n + 1
  BY <1>2, <1>6, <1>7
<1>9. \A k \in 1 .. n : (<<n + 1>> \o run)[k + 1] = s[i + k - 1]
  <2>. SUFFICES ASSUME NEW k \in 1 .. n PROVE (<<n + 1>> \o run)[k + 1] = s[i + k - 1]
    OBVIOUS
  <2>1. k + 1 \in 1 .. n + 1 /\ ~(k + 1 <= 1) /\ (k + 1) - 1 = k
    BY <1>2
  <2>. QED
    BY <1>5, <1>7, <2>1
<1>10. Block(s, i) = <<n + 1>> \o run
  BY DEF Block, n, run
<1>. QED
  BY <1>2, <1>3, <1>4, <1>7, <1>8, <1>9, <1>10 DEF n

\* enc is the function that CobsEncode defines.
IsEncoder(enc, s) ==
  enc = [i \in 1 .. Len(s) + 1 |->
          IF i + RunLength(s, i) > Len(s)      THEN Block(s, i)
          ELSE IF RunLength(s, i) = CodeMax - 1
               THEN Block(s, i) \o enc[i + RunLength(s, i)]
          ELSE Block(s, i) \o enc[i + RunLength(s, i) + 1]]

\* The three ways a block is followed by the rest of the frame: it is the last
\* one, it is full, or it stands for a zero.
LEMMA EncoderCases ==
  ASSUME NEW B \in SUBSET Nat, NEW s \in Seq(B), NEW i \in 1 .. Len(s) + 1,
         NEW enc, IsEncoder(enc, s)
  PROVE  \/ /\ i + RunLength(s, i) = Len(s) + 1
            /\ enc[i] = Block(s, i)
         \/ /\ i + RunLength(s, i) <= Len(s) /\ RunLength(s, i) = CodeMax - 1
            /\ enc[i] = Block(s, i) \o enc[i + RunLength(s, i)]
         \/ /\ i + RunLength(s, i) <= Len(s) /\ RunLength(s, i) < CodeMax - 1
            /\ s[i + RunLength(s, i)] = 0
            /\ enc[i] = Block(s, i) \o enc[i + RunLength(s, i) + 1]
<1>. USE CodeMaxAssumption
<1>1. s \in Seq(Nat)
  BY SeqMonotonic
<1>2. Stops(s, i, RunLength(s, i))
  BY <1>1, RunLengthStops
<1>3. RunLength(s, i) \in 0 .. CodeMax - 1 /\ i + RunLength(s, i) <= Len(s) + 1
  BY BlockShape
<1>4. enc[i] = IF i + RunLength(s, i) > Len(s)      THEN Block(s, i)
               ELSE IF RunLength(s, i) = CodeMax - 1
                    THEN Block(s, i) \o enc[i + RunLength(s, i)]
               ELSE Block(s, i) \o enc[i + RunLength(s, i) + 1]
  BY DEF IsEncoder
<1>5. CASE i + RunLength(s, i) > Len(s)
  BY <1>3, <1>4, <1>5
<1>6. CASE i + RunLength(s, i) <= Len(s) /\ RunLength(s, i) = CodeMax - 1
  BY <1>3, <1>4, <1>6
<1>7. CASE i + RunLength(s, i) <= Len(s) /\ RunLength(s, i) # CodeMax - 1
  <2>1. s[i + RunLength(s, i)] = 0
    BY <1>2, <1>3, <1>7 DEF Stops
  <2>. QED
    BY <1>3, <1>4, <1>7, <2>1, SMTT(30)
<1>. QED
  BY <1>3, <1>5, <1>6, <1>7

\* There is such a function, and CobsEncode is its value at the first position.
LEMMA EncodeUnfolds ==
  ASSUME NEW B \in SUBSET Nat, NEW s \in Seq(B)
  PROVE  \E enc : IsEncoder(enc, s) /\ CobsEncode(s) = enc[1]
<1>. USE CodeMaxAssumption
<1>. DEFINE N    == Len(s) + 1
            V    == Seq(Coded(B))
            n(i) == RunLength(s, i)
            stop == {i \in 1 .. N : i + n(i) > Len(s)}
            base == [i \in 1 .. N |-> Block(s, i)]
            next == [i \in 1 .. N |-> IF n(i) = CodeMax - 1 THEN i + n(i) ELSE i + n(i) + 1]
            step == [i \in 1 .. N |-> [v \in V |-> Block(s, i) \o v]]
<1>1. \A i \in 1 .. N : n(i) \in 0 .. CodeMax - 1 /\ Block(s, i) \in V
  BY BlockShape
<1>2. Recursive(1, N, V, stop, base, next, step)
  <2>. HIDE DEF n, V
  <2>1. base \in [1 .. N -> V]
    BY <1>1
  <2>2. step \in [1 .. N -> [V -> V]]
    <3>. SUFFICES ASSUME NEW i \in 1 .. N, NEW v \in V PROVE Block(s, i) \o v \in V
      OBVIOUS
    <3>. QED
      BY <1>1, ConcatProperties DEF V
  <2>3. \A i \in 1 .. N : i \notin stop => next[i] \in i + 1 .. N
    BY <1>1
  <2>4. 1 \in Nat /\ N \in Nat
    OBVIOUS
  <2>. HIDE DEF N, stop, base, next, step
  <2>. QED
    BY <2>1, <2>2, <2>3, <2>4 DEF Recursive
<1>3. PICK f : Solves(f, 1, N, V, stop, base, next, step)
  <2>. HIDE DEF N, V, stop, base, next, step
  <2>. QED
    BY <1>2, Recursion
<1>4. f \in [1 .. N -> V]
  BY <1>3 DEF Solves
<1>5. ASSUME NEW i \in 1 .. N
      PROVE  f[i] = IF i + n(i) > Len(s)        THEN Block(s, i)
                    ELSE IF n(i) = CodeMax - 1 THEN Block(s, i) \o f[i + n(i)]
                    ELSE Block(s, i) \o f[i + n(i) + 1]
  <2>1. f[i] = IF i \in stop THEN base[i] ELSE step[i][f[next[i]]]
    BY <1>3 DEF Solves
  <2>2. CASE i \in stop
    BY <2>1, <2>2
  <2>3. CASE i \notin stop
    <3>1. next[i] \in 1 .. N
      BY <1>2, <2>3 DEF Recursive
    <3>2. f[next[i]] \in V
      BY <1>4, <3>1
    <3>3. step[i][f[next[i]]] = Block(s, i) \o f[next[i]]
      <4>. HIDE DEF next, V
      <4>. QED
        BY <3>2
    <3>. HIDE DEF step, V
    <3>. QED
      BY <2>1, <2>3, <3>3
  <2>. QED
    BY <2>2, <2>3
<1>6. IsEncoder(f, s)
  <2>. HIDE DEF V
  <2>. QED
    BY <1>4, <1>5 DEF IsEncoder
<1>. HIDE DEF N, V, n, stop, base, next, step
<1>. QED
  BY <1>6 DEF CobsEncode, IsEncoder, Block

\* The longest encoded form of r bytes in q full blocks or less: cobs.h's
\* COBS_ENCODE_DST_BUF_LEN_MAX is the least of these.
Bound(r, e) == \A q \in Nat : q >= 1 /\ r <= q * (CodeMax - 1) => Len(e) <= r + q

\* A block in front of the rest of a frame.
LEMMA BlockAndRest ==
  ASSUME NEW C, NEW block \in Seq(C), NEW rest \in Seq(C), NEW n \in Nat,
         Len(block) = n + 1
  PROVE  /\ block \o rest \in Seq(C) /\ block \o rest # <<>>
         /\ Len(block \o rest) = n + 1 + Len(rest)
<1>1. block \o rest \in Seq(C) /\ Len(block \o rest) = n + 1 + Len(rest)
  BY ConcatProperties
<1>2. Len(block \o rest) # 0
  BY <1>1
<1>. QED
  BY <1>1, <1>2, EmptySeq

\* A frame that is one block is one byte longer than what it stands for.
LEMMA BoundLast ==
  ASSUME NEW r \in Nat, NEW e, Len(e) = r + 1
  PROVE  Bound(r, e)
BY DEF Bound

\* A full block costs one byte for CodeMax - 1 of them.
LEMMA BoundFull ==
  ASSUME NEW r \in Nat, NEW e, NEW rest, NEW l \in Nat, Len(rest) = l,
         Len(e) = CodeMax + l, r > CodeMax - 1, Bound(r - (CodeMax - 1), rest)
  PROVE  Bound(r, e)
<1>. USE CodeMaxAssumption
<1>. SUFFICES ASSUME NEW q \in Nat, q >= 1, r <= q * (CodeMax - 1)
              PROVE  Len(e) <= r + q
  BY DEF Bound
<1>1. q * (CodeMax - 1) = (q - 1) * (CodeMax - 1) + (CodeMax - 1)
  OBVIOUS
<1>2. q # 1
  OBVIOUS
<1>3. q - 1 \in Nat /\ q - 1 >= 1
  BY <1>2
<1>4. (q - 1) * (CodeMax - 1) \in Nat
  BY <1>3
<1>5. r - (CodeMax - 1) <= (q - 1) * (CodeMax - 1)
  BY <1>1, <1>4
<1>6. l <= (r - (CodeMax - 1)) + (q - 1)
  BY <1>3, <1>5 DEF Bound
<1>. QED
  BY <1>6

\* Any other block has a byte for the zero it stands for.
LEMMA BoundZero ==
  ASSUME NEW r \in Nat, NEW e, NEW rest, NEW l \in Nat, Len(rest) = l, NEW n \in Nat,
         Len(e) = n + 1 + l, r > n, Bound(r - (n + 1), rest)
  PROVE  Bound(r, e)
<1>. SUFFICES ASSUME NEW q \in Nat, q >= 1, r <= q * (CodeMax - 1)
              PROVE  Len(e) <= r + q
  BY DEF Bound
<1>1. q * (CodeMax - 1) \in Int
  BY CodeMaxAssumption
<1>2. r - (n + 1) <= q * (CodeMax - 1)
  BY <1>1
<1>3. l <= (r - (n + 1)) + q
  BY <1>2 DEF Bound
<1>. QED
  BY <1>3

\* What the encoder makes of the bytes from any position on has no zero, is
\* not empty and is not too long.
LEMMA EncodedSuffix ==
  ASSUME NEW B \in SUBSET Nat, NEW s \in Seq(B), NEW enc, IsEncoder(enc, s),
         NEW i \in 1 .. Len(s) + 1
  PROVE  /\ enc[i] \in Seq(Coded(B)) /\ enc[i] # <<>>
         /\ Bound(Len(s) + 1 - i, enc[i])
<1>. USE CodeMaxAssumption
<1>. DEFINE N == Len(s) + 1
            Good(j) == /\ enc[j] \in Seq(Coded(B)) /\ enc[j] # <<>>
                       /\ Bound(N - j, enc[j])
            T == {j \in 1 .. N : Good(j)}
<1>1. ASSUME NEW j \in 1 .. N, \A k \in j + 1 .. N : k \in T PROVE Good(j)
  <2>1. PICK n \in 0 .. CodeMax - 1 : n = RunLength(s, j)
    BY BlockShape
  <2>2. PICK block \in Seq(Coded(B)) :
          block = Block(s, j) /\ Len(block) = n + 1 /\ j + n <= N
    BY <2>1, BlockShape
  <2>3. \/ /\ j + n = Len(s) + 1
           /\ enc[j] = block
        \/ /\ j + n <= Len(s) /\ n = CodeMax - 1
           /\ enc[j] = block \o enc[j + n]
        \/ /\ j + n <= Len(s) /\ n < CodeMax - 1
           /\ enc[j] = block \o enc[j + n + 1]
    BY <2>1, <2>2, EncoderCases
  <2>4. CASE j + n = Len(s) + 1 /\ enc[j] = block
    <3>1. Len(enc[j]) = (N - j) + 1 /\ N - j \in Nat
      BY <2>2, <2>4
    <3>2. Bound(N - j, enc[j])
      <4>. HIDE DEF N
      <4>. QED
        BY <3>1, BoundLast
    <3>3. Len(enc[j]) # 0
      BY <2>2, <2>4
    <3>. QED
      BY <2>2, <2>4, <3>2, <3>3, EmptySeq
  <2>5. ASSUME NEW k \in j + n .. N, k > j, enc[j] = block \o enc[k]
        PROVE  /\ Bound(N - k, enc[k]) /\ Len(enc[k]) \in Nat
               /\ enc[j] \in Seq(Coded(B)) /\ enc[j] # <<>>
               /\ Len(enc[j]) = n + 1 + Len(enc[k])
    <3>0. k \in j + 1 .. N
      BY <2>5
    <3>1. Good(k)
      <4>1. k \in T
        BY <1>1, <3>0
      <4>. QED
        BY <4>1
    <3>2. enc[k] \in Seq(Coded(B)) /\ n \in Nat
      BY <3>1
    <3>3. /\ block \o enc[k] \in Seq(Coded(B)) /\ block \o enc[k] # <<>>
          /\ Len(block \o enc[k]) = n + 1 + Len(enc[k])
      BY <2>2, <3>2, BlockAndRest
    <3>. QED
      BY <2>5, <3>1, <3>2, <3>3
  <2>6. CASE j + n <= Len(s) /\ n = CodeMax - 1 /\ enc[j] = block \o enc[j + n]
    <3>0. j + n \in j + n .. N /\ j + n > j
      BY <2>6
    <3>1. /\ Bound(N - (j + n), enc[j + n]) /\ Len(enc[j + n]) \in Nat
          /\ enc[j] \in Seq(Coded(B)) /\ enc[j] # <<>>
          /\ Len(enc[j]) = n + 1 + Len(enc[j + n])
      BY <2>5, <2>6, <3>0
    <3>2. /\ N - (j + n) = (N - j) - (CodeMax - 1) /\ N - j > CodeMax - 1 /\ N - j \in Nat
          /\ n + 1 = CodeMax
      BY <2>6
    <3>3. Bound(N - j, enc[j])
      <4>. HIDE DEF N
      <4>. QED
        BY <3>1, <3>2, BoundFull
    <3>. QED
      BY <3>1, <3>3
  <2>7. CASE j + n <= Len(s) /\ n < CodeMax - 1 /\ enc[j] = block \o enc[j + n + 1]
    <3>0. j + n + 1 \in j + n .. N /\ j + n + 1 > j
      BY <2>7
    <3>1. /\ Bound(N - (j + n + 1), enc[j + n + 1]) /\ Len(enc[j + n + 1]) \in Nat
          /\ enc[j] \in Seq(Coded(B)) /\ enc[j] # <<>>
          /\ Len(enc[j]) = n + 1 + Len(enc[j + n + 1])
      BY <2>5, <2>7, <3>0
    <3>2. /\ N - (j + n + 1) = (N - j) - (n + 1) /\ N - j > n /\ N - j \in Nat
          /\ n \in Nat
      BY <2>7
    <3>3. Bound(N - j, enc[j])
      <4>. HIDE DEF N
      <4>. QED
        BY <3>1, <3>2, BoundZero
    <3>. QED
      BY <3>1, <3>3
  <2>. QED
    BY <2>3, <2>4, <2>6, <2>7
<1>2. 1 .. N \subseteq T
  <2>1. 1 \in Nat /\ N \in Nat
    OBVIOUS
  <2>2. \A j \in 1 .. N : (\A k \in j + 1 .. N : k \in T) => j \in T
    BY <1>1
  <2>. HIDE DEF T, N
  <2>. QED
    BY <2>1, <2>2, DownInduction
<1>3. i \in T
  BY <1>2
<1>. QED
  BY <1>3

-----------------------------------------------------------------------------
(* The decoder                                                             *)

\* No block begins at position i of b, or it runs past the end of b.
Broken(b, i) == i > Len(b) \/ b[i] = 0 \/ i + b[i] - 1 > Len(b)

\* The bytes of the block at position i, and the zero that follows them.
Data(b, i) == SubSeq(b, i + 1, (i + b[i]) - 1)
Gap(b, i)  == IF b[i] = CodeMax THEN <<>> ELSE <<0>>

HasZero(d) == \E k \in 1 .. Len(d) : d[k] = 0

\* dec is the function that CobsDecode defines.
IsDecoder(dec, b) ==
  dec = [i \in 1 .. Len(b) + 1 |->
          IF Broken(b, i) THEN Malformed
          ELSE IF HasZero(Data(b, i)) THEN Malformed
          ELSE IF i + b[i] > Len(b) THEN [ok |-> TRUE, out |-> Data(b, i)]
          ELSE IF dec[i + b[i]].ok
               THEN [ok  |-> TRUE,
                     out |-> Data(b, i) \o Gap(b, i) \o dec[i + b[i]].out]
          ELSE Malformed]

\* What the decoder returns for bytes of B.
Decoded(B) == [ok : BOOLEAN, out : Seq(B)]

\* The bytes of a block are bytes of the frame, one less than its code.
LEMMA DataShape ==
  ASSUME NEW B \in SUBSET Nat, NEW b \in Seq(B), NEW i \in 1 .. Len(b) + 1,
         ~Broken(b, i)
  PROVE  /\ i \in 1 .. Len(b) /\ b[i] \in Nat \ {0} /\ i + b[i] <= Len(b) + 1
         /\ Data(b, i) \in Seq(B) /\ Len(Data(b, i)) = b[i] - 1
         /\ \A k \in 1 .. b[i] - 1 : Data(b, i)[k] = b[i + k]
<1>1. i \in 1 .. Len(b) /\ b[i] # 0
  BY DEF Broken
<1>2. PICK n \in Nat \ {0} : n = b[i]
  BY <1>1, ElementOfSeq
<1>3. i + n <= Len(b) + 1
  BY <1>1, <1>2 DEF Broken
<1>4. /\ \A k \in i + 1 .. (i + n) - 1 : b[k] \in B
      /\ i + 1 \in Int /\ (i + n) - 1 \in Int /\ ((i + n) - 1) - (i + 1) + 1 = n - 1
  BY <1>1, <1>3, ElementOfSeq
<1>5. /\ SubSeq(b, i + 1, (i + n) - 1) \in Seq(B)
      /\ Len(SubSeq(b, i + 1, (i + n) - 1)) =
           IF i + 1 <= (i + n) - 1 THEN ((i + n) - 1) - (i + 1) + 1 ELSE 0
      /\ \A k \in 1 .. ((i + n) - 1) - (i + 1) + 1 :
           SubSeq(b, i + 1, (i + n) - 1)[k] = b[i + 1 + k - 1]
  BY <1>4, SubSeqProperties
<1>6. Len(SubSeq(b, i + 1, (i + n) - 1)) = n - 1
  BY <1>1, <1>5
<1>7. \A k \in 1 .. n - 1 : SubSeq(b, i + 1, (i + n) - 1)[k] = b[i + k]
  <2>. SUFFICES ASSUME NEW k \in 1 .. n - 1
                PROVE  SubSeq(b, i + 1, (i + n) - 1)[k] = b[i + k]
    OBVIOUS
  <2>1. k \in 1 .. ((i + n) - 1) - (i + 1) + 1 /\ i + 1 + k - 1 = i + k
    BY <1>4
  <2>. QED
    BY <1>5, <2>1
<1>. QED
  BY <1>1, <1>2, <1>3, <1>5, <1>6, <1>7 DEF Data

\* The value at a position, from the value at the position of the next block.
LEMMA DecoderCases ==
  ASSUME NEW B \in SUBSET Nat, NEW b \in Seq(B), NEW dec, IsDecoder(dec, b),
         NEW i \in 1 .. Len(b) + 1
  PROVE  \/ dec[i] = Malformed
         \/ /\ ~Broken(b, i) /\ i + b[i] = Len(b) + 1
            /\ dec[i] = [ok |-> TRUE, out |-> Data(b, i)]
         \/ /\ ~Broken(b, i) /\ i + b[i] <= Len(b) /\ dec[i + b[i]].ok
            /\ dec[i] = [ok  |-> TRUE,
                         out |-> Data(b, i) \o Gap(b, i) \o dec[i + b[i]].out]
<1>1. dec[i] = IF Broken(b, i) THEN Malformed
               ELSE IF HasZero(Data(b, i)) THEN Malformed
               ELSE IF i + b[i] > Len(b) THEN [ok |-> TRUE, out |-> Data(b, i)]
               ELSE IF dec[i + b[i]].ok
                    THEN [ok  |-> TRUE,
                          out |-> Data(b, i) \o Gap(b, i) \o dec[i + b[i]].out]
               ELSE Malformed
  BY DEF IsDecoder
<1>2. CASE Broken(b, i) \/ HasZero(Data(b, i))
  BY <1>1, <1>2
<1>3. CASE ~Broken(b, i) /\ ~HasZero(Data(b, i))
  <2>1. PICK n \in Nat : n = b[i] /\ i + n <= Len(b) + 1
    BY <1>3, DataShape
  <2>2. CASE i + n > Len(b)
    <3>1. i + b[i] > Len(b) /\ i + b[i] = Len(b) + 1
      BY <2>1, <2>2
    <3>. QED
      BY <1>1, <1>3, <3>1
  <2>3. CASE i + n <= Len(b)
    <3>1. ~(i + b[i] > Len(b)) /\ i + b[i] <= Len(b)
      BY <2>1, <2>3
    <3>. QED
      BY <1>1, <1>3, <3>1
  <2>. QED
    BY <2>1, <2>2, <2>3
<1>. QED
  BY <1>2, <1>3

\* A zero, where there is one, is a byte.
LEMMA GapType ==
  ASSUME NEW B \in SUBSET Nat, 0 \in B, NEW b, NEW i
  PROVE  /\ Gap(b, i) \in Seq(B)
         /\ Len(Gap(b, i)) \in 0 .. 1
<1>1. <<0>> \in Seq(B) /\ <<>> \in Seq(B) /\ Len(<<0>>) = 1 /\ Len(<<>>) = 0
  OBVIOUS
<1>. QED
  BY <1>1 DEF Gap

\* There is such a function, and CobsDecode is its value at the first position.
LEMMA DecodeUnfolds ==
  ASSUME NEW B \in SUBSET Nat, 0 \in B, NEW b \in Seq(B)
  PROVE  \E dec : /\ IsDecoder(dec, b)
                  /\ CobsDecode(b) = IF b = <<>> THEN [ok |-> TRUE, out |-> <<>>] ELSE dec[1]
<1>. DEFINE N    == Len(b) + 1
            V    == Decoded(B)
            Bad(i) == Broken(b, i) \/ HasZero(Data(b, i))
            stop == {i \in 1 .. N : Bad(i) \/ i + b[i] > Len(b)}
            base == [i \in 1 .. N |-> IF Bad(i) THEN Malformed
                                      ELSE [ok |-> TRUE, out |-> Data(b, i)]]
            next == [i \in 1 .. N |-> i + b[i]]
            more(i, v) == IF v.ok
                          THEN [ok |-> TRUE, out |-> Data(b, i) \o Gap(b, i) \o v.out]
                          ELSE Malformed
            step == [i \in 1 .. N |-> [v \in V |-> IF i \in stop THEN v ELSE more(i, v)]]
<1>1. Malformed \in V
  BY DEF Decoded, Malformed
<1>2. Recursive(1, N, V, stop, base, next, step)
  <2>1. base \in [1 .. N -> V]
    <3>. SUFFICES ASSUME NEW i \in 1 .. N, ~Bad(i)
                  PROVE  [ok |-> TRUE, out |-> Data(b, i)] \in V
      BY <1>1
    <3>1. Data(b, i) \in Seq(B)
      BY DataShape
    <3>. QED
      BY <3>1 DEF Decoded
  <2>2. step \in [1 .. N -> [V -> V]]
    <3>. SUFFICES ASSUME NEW i \in 1 .. N, NEW v \in V, i \notin stop PROVE more(i, v) \in V
      OBVIOUS
    <3>1. Data(b, i) \in Seq(B) /\ Gap(b, i) \in Seq(B) /\ v.out \in Seq(B)
      BY DataShape, GapType DEF Decoded
    <3>2. Data(b, i) \o Gap(b, i) \in Seq(B)
      BY <3>1, ConcatProperties
    <3>3. Data(b, i) \o Gap(b, i) \o v.out \in Seq(B)
      BY <3>1, <3>2, ConcatProperties
    <3>. QED
      BY <1>1, <3>3 DEF Decoded
  <2>3. ASSUME NEW i \in 1 .. N, i \notin stop PROVE next[i] \in i + 1 .. N
    <3>1. b[i] \in Nat \ {0} /\ i + b[i] <= Len(b) + 1
      BY <2>3, DataShape
    <3>. QED
      BY <2>3, <3>1
  <2>4. 1 \in Nat /\ N \in Nat
    OBVIOUS
  <2>. HIDE DEF N, V, stop, base, next, step
  <2>. QED
    BY <2>1, <2>2, <2>3, <2>4 DEF Recursive
<1>3. PICK f : Solves(f, 1, N, V, stop, base, next, step)
  <2>. HIDE DEF N, V, stop, base, next, step
  <2>. QED
    BY <1>2, Recursion
<1>4. f \in [1 .. N -> V]
  BY <1>3 DEF Solves
<1>5. ASSUME NEW i \in 1 .. N
      PROVE  f[i] = IF Broken(b, i) THEN Malformed
                    ELSE IF HasZero(Data(b, i)) THEN Malformed
                    ELSE IF i + b[i] > Len(b) THEN [ok |-> TRUE, out |-> Data(b, i)]
                    ELSE IF f[i + b[i]].ok
                         THEN [ok  |-> TRUE,
                               out |-> Data(b, i) \o Gap(b, i) \o f[i + b[i]].out]
                    ELSE Malformed
  <2>1. f[i] = IF i \in stop THEN base[i] ELSE step[i][f[next[i]]]
    BY <1>3 DEF Solves
  <2>2. CASE i \in stop
    <3>1. f[i] = IF Bad(i) THEN Malformed ELSE [ok |-> TRUE, out |-> Data(b, i)]
      BY <2>1, <2>2
    <3>. QED
      BY <2>2, <3>1
  <2>3. CASE i \notin stop
    <3>1. next[i] \in 1 .. N /\ next[i] = i + b[i]
      BY <1>2, <2>3 DEF Recursive
    <3>2. f[next[i]] \in V
      BY <1>4, <3>1
    <3>3. step[i][f[next[i]]] = more(i, f[next[i]])
      <4>. HIDE DEF next, V, more, stop
      <4>. QED
        BY <2>3, <3>2
    <3>4. f[i] = more(i, f[i + b[i]])
      <4>. HIDE DEF next, V, more, stop, step
      <4>. QED
        BY <2>1, <2>3, <3>1, <3>3
    <3>5. ~Broken(b, i) /\ ~HasZero(Data(b, i)) /\ ~(i + b[i] > Len(b))
      BY <2>3
    <3>. QED
      BY <3>4, <3>5
  <2>. QED
    BY <2>2, <2>3
<1>6. IsDecoder(f, b)
  <2>. HIDE DEF V
  <2>. QED
    BY <1>4, <1>5 DEF IsDecoder
<1>. HIDE DEF N, V, stop, base, next, step
<1>. QED
  BY <1>6 DEF CobsDecode, IsDecoder, Broken, HasZero, Data, Gap

\* From every position the decoder returns bytes, fewer than there are left.
LEMMA DecodedSuffix ==
  ASSUME NEW B \in SUBSET Nat, 0 \in B, NEW b \in Seq(B), NEW dec, IsDecoder(dec, b),
         NEW i \in 1 .. Len(b) + 1
  PROVE  /\ dec[i] \in Decoded(B)
         /\ dec[i].ok => Len(dec[i].out) <= Len(b) - i
<1>. DEFINE N == Len(b) + 1
            Good(j) == /\ dec[j] \in Decoded(B)
                       /\ dec[j].ok => Len(dec[j].out) <= Len(b) - j
            T == {j \in 1 .. N : Good(j)}
<1>1. ASSUME NEW j \in 1 .. N, \A k \in j + 1 .. N : k \in T PROVE Good(j)
  <2>1. \/ dec[j] = Malformed
        \/ /\ ~Broken(b, j) /\ j + b[j] = Len(b) + 1
           /\ dec[j] = [ok |-> TRUE, out |-> Data(b, j)]
        \/ /\ ~Broken(b, j) /\ j + b[j] <= Len(b) /\ dec[j + b[j]].ok
           /\ dec[j] = [ok  |-> TRUE,
                        out |-> Data(b, j) \o Gap(b, j) \o dec[j + b[j]].out]
    BY DecoderCases
  <2>2. CASE dec[j] = Malformed
    BY <2>2 DEF Malformed, Decoded
  <2>3. CASE /\ ~Broken(b, j) /\ j + b[j] = Len(b) + 1
             /\ dec[j] = [ok |-> TRUE, out |-> Data(b, j)]
    <3>1. PICK n \in Nat \ {0} : n = b[j]
      BY <2>3, DataShape
    <3>2. Data(b, j) \in Seq(B) /\ Len(Data(b, j)) = n - 1
      BY <2>3, <3>1, DataShape
    <3>3. Len(Data(b, j)) <= Len(b) - j
      BY <2>3, <3>1, <3>2, SMTT(30)
    <3>. QED
      BY <2>3, <3>2, <3>3 DEF Decoded
  <2>4. CASE /\ ~Broken(b, j) /\ j + b[j] <= Len(b) /\ dec[j + b[j]].ok
             /\ dec[j] = [ok  |-> TRUE,
                          out |-> Data(b, j) \o Gap(b, j) \o dec[j + b[j]].out]
    <3>0. ~Broken(b, j)
      BY <2>4
    <3>1. PICK n \in Nat \ {0} : n = b[j]
      BY <3>0, DataShape
    <3>2. Data(b, j) \in Seq(B) /\ Len(Data(b, j)) = n - 1
      BY <3>0, <3>1, DataShape
    <3>3. Gap(b, j) \in Seq(B) /\ Len(Gap(b, j)) \in 0 .. 1
      BY GapType
    <3>4. j + n \in j + 1 .. N
      BY <2>4, <3>1
    <3>5. Good(j + n)
      <4>1. j + n \in T
        BY <1>1, <3>4
      <4>. QED
        BY <4>1
    <3>6. /\ dec[j + n].out \in Seq(B) /\ Len(dec[j + n].out) \in Nat
          /\ Len(dec[j + n].out) <= Len(b) - (j + n)
      BY <2>4, <3>1, <3>5, SMTT(30) DEF Decoded
    <3>7. /\ Data(b, j) \o Gap(b, j) \in Seq(B)
          /\ Len(Data(b, j) \o Gap(b, j)) = (n - 1) + Len(Gap(b, j))
      BY <3>2, <3>3, ConcatProperties
    <3>8. PICK out \in Seq(B) : out = Data(b, j) \o Gap(b, j) \o dec[j + n].out
      BY <3>6, <3>7, ConcatProperties
    <3>9. Len(out) = (n - 1) + Len(Gap(b, j)) + Len(dec[j + n].out)
      <4>1. PICK d \in Seq(B) : d = Data(b, j) \o Gap(b, j)
        BY <3>7
      <4>2. Len(d \o dec[j + n].out) = Len(d) + Len(dec[j + n].out)
        BY <3>6, ConcatProperties
      <4>. QED
        BY <3>7, <3>8, <4>1, <4>2
    <3>10. Len(out) <= Len(b) - j
      <4>1. PICK l \in Nat : l = Len(dec[j + n].out) /\ l <= Len(b) - (j + n)
        BY <3>6
      <4>2. PICK g \in 0 .. 1 : g = Len(Gap(b, j))
        BY <3>3
      <4>3. Len(out) = (n - 1) + g + l
        BY <3>9, <4>1, <4>2
      <4>4. l <= Len(b) - (j + n)
        BY <4>1
      <4>. QED
        BY <4>3, <4>4
    <3>11. dec[j] = [ok |-> TRUE, out |-> out]
      BY <2>4, <3>1, <3>8
    <3>. HIDE DEF N
    <3>. QED
      BY <3>10, <3>11 DEF Decoded
  <2>. QED
    BY <2>1, <2>2, <2>3, <2>4
<1>2. 1 .. N \subseteq T
  <2>1. 1 \in Nat /\ N \in Nat
    OBVIOUS
  <2>2. \A j \in 1 .. N : (\A k \in j + 1 .. N : k \in T) => j \in T
    BY <1>1
  <2>. HIDE DEF T, N
  <2>. QED
    BY <2>1, <2>2, DownInduction
<1>3. i \in T
  BY <1>2
<1>. QED
  BY <1>3

\* The bytes of a block that does not run past the end.
LEMMA DataOfBlock ==
  ASSUME NEW b \in Seq(Nat), NEW i \in 1 .. Len(b), NEW n \in Nat, b[i] = n + 1,
         i + n <= Len(b)
  PROVE  /\ ~Broken(b, i)
         /\ Data(b, i) \in Seq(Nat) /\ Len(Data(b, i)) = n
         /\ \A k \in 1 .. n : Data(b, i)[k] = b[i + k]
<1>1. ~Broken(b, i)
  BY DEF Broken
<1>2. Nat \in SUBSET Nat /\ i \in 1 .. Len(b) + 1
  OBVIOUS
<1>3. /\ Data(b, i) \in Seq(Nat) /\ Len(Data(b, i)) = b[i] - 1
      /\ \A k \in 1 .. b[i] - 1 : Data(b, i)[k] = b[i + k]
  BY <1>1, <1>2, DataShape, SMTT(30)
<1>4. b[i] - 1 = n
  OBVIOUS
<1>. QED
  BY <1>1, <1>3, <1>4, Zenon

\* At position i of b there is a block with the bytes d.
BlockAt(b, i, d) ==
  /\ b \in Seq(Nat) /\ d \in Seq(Nat)
  /\ i \in 1 .. Len(b) /\ b[i] = Len(d) + 1 /\ i + Len(d) <= Len(b)
  /\ \A k \in 1 .. Len(d) : b[i + k] = d[k] /\ d[k] # 0

\* A block decodes to its bytes, and to the zero it stands for when another one
\* follows.
LEMMA DecodeBlock ==
  ASSUME NEW b, NEW dec, IsDecoder(dec, b), NEW i, NEW d, BlockAt(b, i, d)
  PROVE  dec[i] = IF i + Len(d) = Len(b) THEN [ok |-> TRUE, out |-> d]
                  ELSE IF dec[i + Len(d) + 1].ok
                       THEN [ok  |-> TRUE,
                             out |-> d \o (IF Len(d) + 1 = CodeMax THEN <<>> ELSE <<0>>)
                                       \o dec[i + Len(d) + 1].out]
                  ELSE Malformed
<1>. PICK n \in Nat : n = Len(d)
  BY DEF BlockAt
<1>0. /\ b \in Seq(Nat) /\ d \in Seq(Nat) /\ Len(d) = n
      /\ i \in 1 .. Len(b) /\ b[i] = n + 1 /\ i + n <= Len(b)
      /\ \A k \in 1 .. n : b[i + k] = d[k] /\ d[k] # 0
  BY DEF BlockAt
<1>1. /\ ~Broken(b, i)
      /\ Data(b, i) \in Seq(Nat) /\ Len(Data(b, i)) = n
      /\ \A k \in 1 .. n : Data(b, i)[k] = b[i + k]
  BY <1>0, DataOfBlock
<1>2. \A k \in 1 .. n : Data(b, i)[k] = d[k]
  BY <1>0, <1>1
<1>3. Data(b, i) = d
  BY <1>0, <1>1, <1>2, SeqEqual, SMTT(30)
<1>4. ~HasZero(d)
  BY <1>0 DEF HasZero
<1>5. dec[i] = IF i + b[i] > Len(b) THEN [ok |-> TRUE, out |-> Data(b, i)]
               ELSE IF dec[i + b[i]].ok
                    THEN [ok  |-> TRUE,
                          out |-> Data(b, i) \o Gap(b, i) \o dec[i + b[i]].out]
               ELSE Malformed
  <2>1. i \in 1 .. Len(b) + 1
    BY <1>0
  <2>. QED
    BY <1>1, <1>3, <1>4, <2>1 DEF IsDecoder
<1>6. i + b[i] = i + n + 1 /\ (i + b[i] > Len(b) <=> i + n = Len(b))
  BY <1>0
<1>7. Gap(b, i) = IF n + 1 = CodeMax THEN <<>> ELSE <<0>>
  BY <1>0 DEF Gap
<1>. QED
  BY <1>0, <1>3, <1>5, <1>6, <1>7

\* What stands in the middle of a sequence is found behind what stands before.
LEMMA Middle ==
  ASSUME NEW S, NEW p \in Seq(S), NEW m \in Seq(S), NEW r \in Seq(S)
  PROVE  /\ p \o (m \o r) \in Seq(S)
         /\ Len(p \o (m \o r)) = Len(p) + Len(m) + Len(r)
         /\ \A k \in 1 .. Len(m) : (p \o (m \o r))[Len(p) + k] = m[k]
<1>1. PICK t \in Seq(S) : t = m \o r
  BY ConcatProperties
<1>2. Len(t) = Len(m) + Len(r) /\ \A k \in 1 .. Len(m) : t[k] = m[k]
  BY <1>1, ConcatProperties
<1>3. /\ p \o t \in Seq(S) /\ Len(p \o t) = Len(p) + Len(t)
      /\ \A k \in 1 .. Len(p) + Len(t) :
           (p \o t)[k] = IF k <= Len(p) THEN p[k] ELSE t[k - Len(p)]
  BY ConcatProperties
<1>4. ASSUME NEW k \in 1 .. Len(m) PROVE (p \o t)[Len(p) + k] = m[k]
  <2>1. /\ Len(p) + k \in 1 .. Len(p) + Len(t)
        /\ ~(Len(p) + k <= Len(p)) /\ (Len(p) + k) - Len(p) = k
    BY <1>2
  <2>2. (p \o t)[Len(p) + k] = t[k]
    BY <1>3, <2>1
  <2>. QED
    BY <1>2, <2>2
<1>5. Len(p \o t) = Len(p) + Len(m) + Len(r)
  BY <1>2, <1>3
<1>. QED
  BY <1>1, <1>3, <1>4, <1>5

\* A part of a sequence.
LEMMA Part ==
  \A s \in Seq(Nat) : \A i \in 1 .. Len(s) + 1 : \A n \in Nat :
    i + n <= Len(s) + 1 =>
      /\ SubSeq(s, i, (i + n) - 1) \in Seq(Nat)
      /\ Len(SubSeq(s, i, (i + n) - 1)) = n
      /\ \A k \in 1 .. n : SubSeq(s, i, (i + n) - 1)[k] = s[i + k - 1]
<1>. SUFFICES ASSUME NEW s \in Seq(Nat), NEW i \in 1 .. Len(s) + 1, NEW n \in Nat,
                     i + n <= Len(s) + 1
              PROVE  /\ SubSeq(s, i, (i + n) - 1) \in Seq(Nat)
                     /\ Len(SubSeq(s, i, (i + n) - 1)) = n
                     /\ \A k \in 1 .. n : SubSeq(s, i, (i + n) - 1)[k] = s[i + k - 1]
  BY Zenon
<1>1. PICK j \in Int : j = (i + n) - 1
  OBVIOUS
<1>2. j - i + 1 = n /\ \A k \in i .. j : s[k] \in Nat
  BY <1>1, ElementOfSeq
<1>3. /\ SubSeq(s, i, j) \in Seq(Nat)
      /\ Len(SubSeq(s, i, j)) = IF i <= j THEN j - i + 1 ELSE 0
      /\ \A k \in 1 .. j - i + 1 : SubSeq(s, i, j)[k] = s[i + k - 1]
  BY <1>2, SubSeqProperties, SMTT(30)
<1>4. Len(SubSeq(s, i, j)) = n
  BY <1>2, <1>3
<1>. QED
  BY <1>1, <1>2, <1>3, <1>4

\* The run at position i of s.
Run(s, i) == SubSeq(s, i, (i + RunLength(s, i)) - 1)

\* A run has no zero and is followed by one, by the end, or fills a block.
LEMMA RunShape ==
  ASSUME NEW B \in SUBSET Nat, NEW s \in Seq(B), NEW i \in 1 .. Len(s) + 1
  PROVE  /\ Run(s, i) \in Seq(Nat) /\ Len(Run(s, i)) = RunLength(s, i)
         /\ \A k \in 1 .. RunLength(s, i) : Run(s, i)[k] = s[i + k - 1]
<1>1. s \in Seq(Nat)
  BY SeqMonotonic
<1>2. RunLength(s, i) \in Nat /\ i + RunLength(s, i) <= Len(s) + 1
  <2>1. RunLength(s, i) \in 0 .. CodeMax - 1 /\ i + RunLength(s, i) <= Len(s) + 1
    BY BlockShape
  <2>. QED
    BY <2>1, CodeMaxAssumption
<1>3. PICK n \in Nat : n = RunLength(s, i) /\ i + n <= Len(s) + 1
  BY <1>2
<1>4. /\ SubSeq(s, i, (i + n) - 1) \in Seq(Nat) /\ Len(SubSeq(s, i, (i + n) - 1)) = n
      /\ \A k \in 1 .. n : SubSeq(s, i, (i + n) - 1)[k] = s[i + k - 1]
  BY <1>1, <1>3, Part, Zenon
<1>. QED
  BY <1>3, <1>4, Zenon DEF Run

\* A block of the encoder, wherever it stands in a frame.
LEMMA BlockOfRun ==
  ASSUME NEW B \in SUBSET Nat, NEW s \in Seq(B), NEW i \in 1 .. Len(s) + 1,
         NEW b \in Seq(Nat), NEW P \in 1 .. Len(b), P + RunLength(s, i) <= Len(b),
         \A k \in 1 .. RunLength(s, i) + 1 : b[(P - 1) + k] = Block(s, i)[k]
  PROVE  BlockAt(b, P, Run(s, i))
<1>1. PICK n \in Nat : n = RunLength(s, i)
  <2>1. RunLength(s, i) \in 0 .. CodeMax - 1
    BY BlockShape
  <2>. QED
    BY <2>1, CodeMaxAssumption
<1>2. /\ Block(s, i)[1] = n + 1
      /\ \A k \in 1 .. n : Block(s, i)[k + 1] = s[i + k - 1] /\ s[i + k - 1] # 0
  BY <1>1, BlockShape
<1>3. PICK d \in Seq(Nat) : /\ d = Run(s, i) /\ Len(d) = n
                            /\ \A k \in 1 .. n : d[k] = s[i + k - 1]
  BY <1>1, RunShape
<1>4. b[P] = n + 1
  <2>1. 1 \in 1 .. n + 1 /\ (P - 1) + 1 = P
    OBVIOUS
  <2>. QED
    BY <1>1, <1>2, <2>1
<1>5. \A k \in 1 .. n : b[P + k] = d[k] /\ d[k] # 0
  <2>. SUFFICES ASSUME NEW k \in 1 .. n PROVE b[P + k] = d[k] /\ d[k] # 0
    OBVIOUS
  <2>1. k + 1 \in 1 .. n + 1 /\ P + k = (P - 1) + (k + 1)
    BY SMTT(30)
  <2>2. b[P + k] = Block(s, i)[k + 1]
    BY <1>1, <2>1
  <2>. QED
    BY <1>2, <1>3, <2>2
<1>6. Len(d) = n /\ P + n <= Len(b)
  BY <1>1, <1>3
<1>. HIDE DEF Run
<1>. QED
  BY <1>3, <1>4, <1>5, <1>6 DEF BlockAt

\* Concatenation is associative.
LEMMA Associative ==
  \A p, m, r \in Seq(Nat) : (p \o m) \o r = p \o (m \o r)
<1>. SUFFICES ASSUME NEW p \in Seq(Nat), NEW m \in Seq(Nat), NEW r \in Seq(Nat)
              PROVE  (p \o m) \o r = p \o (m \o r)
  BY Zenon
<1>. QED
  BY ConcatAssociative, SMTT(30)

\* A frame that goes on with a block of the encoder after p.
LEMMA FrameWithBlock ==
  ASSUME NEW B \in SUBSET Nat, NEW s \in Seq(B), NEW i \in 1 .. Len(s) + 1,
         NEW p \in Seq(Nat), NEW r \in Seq(Nat)
  PROVE  /\ BlockAt(p \o (Block(s, i) \o r), Len(p) + 1, Run(s, i))
         /\ Len(p \o (Block(s, i) \o r)) = Len(p) + 1 + RunLength(s, i) + Len(r)
         /\ p \o (Block(s, i) \o r) = (p \o Block(s, i)) \o r
         /\ p \o Block(s, i) \in Seq(Nat)
         /\ Len(p \o Block(s, i)) = Len(p) + 1 + RunLength(s, i)
<1>. PICK n \in Nat : n = RunLength(s, i)
  <2>1. RunLength(s, i) \in 0 .. CodeMax - 1
    BY BlockShape
  <2>. QED
    BY <2>1, CodeMaxAssumption
<1>1. Block(s, i) \in Seq(Nat) /\ Len(Block(s, i)) = n + 1
  <2>1. Coded(B) \subseteq Nat
    BY CodeMaxAssumption DEF Coded
  <2>2. Block(s, i) \in Seq(Coded(B)) /\ Len(Block(s, i)) = n + 1
    BY BlockShape
  <2>. QED
    BY <2>1, <2>2, SeqMonotonic
<1>2. PICK block \in Seq(Nat) : block = Block(s, i) /\ Len(block) = n + 1
  BY <1>1
<1>3. p \o block \in Seq(Nat) /\ Len(p \o block) = Len(p) + 1 + n
  <2>1. p \o block \in Seq(Nat) /\ Len(p \o block) = Len(p) + Len(block)
    BY ConcatProperties
  <2>2. Len(p) \in Nat
    OBVIOUS
  <2>. QED
    BY <1>2, <2>1, <2>2
<1>4. p \o (block \o r) = (p \o block) \o r
  BY Associative, Zenon
<1>5. PICK b \in Seq(Nat) :
        /\ b = p \o (block \o r)
        /\ Len(b) = Len(p) + Len(block) + Len(r)
        /\ \A k \in 1 .. Len(block) : b[Len(p) + k] = block[k]
  <2>1. /\ p \o (block \o r) \in Seq(Nat)
        /\ Len(p \o (block \o r)) = Len(p) + Len(block) + Len(r)
        /\ \A k \in 1 .. Len(block) : (p \o (block \o r))[Len(p) + k] = block[k]
    BY Middle
  <2>. QED
    BY <2>1
<1>6. PICK P \in Nat : P = Len(p) + 1
  OBVIOUS
<1>7. Len(b) = P + n + Len(r) /\ P \in 1 .. Len(b) /\ P + n <= Len(b)
  <2>1. PICK m \in Nat : m = Len(p)
    OBVIOUS
  <2>2. PICK l \in Nat : l = Len(r)
    OBVIOUS
  <2>3. Len(b) = m + (n + 1) + l
    <3>1. PICK w : w = Len(b)
      OBVIOUS
    <3>2. PICK c : c = Len(block) /\ c = n + 1
      BY <1>2
    <3>3. w = (m + c) + l
      BY <1>5, <2>1, <2>2, <3>1, <3>2, Zenon
    <3>. QED
      BY <3>1, <3>2, <3>3
  <2>4. P = m + 1
    BY <1>6, <2>1
  <2>5. PICK w : w = Len(b) /\ w = m + (n + 1) + l
    BY <2>3
  <2>6. w = P + n + l
    BY <2>4, <2>5
  <2>7. w \in Nat /\ P >= 1 /\ P + n <= w
    BY <2>4, <2>6, SMTT(30)
  <2>8. P \in 1 .. w
    BY <2>6, <2>7, SMTT(30)
  <2>. QED
    BY <2>2, <2>5, <2>6, <2>7, <2>8, Zenon
<1>8. \A k \in 1 .. n + 1 : b[(P - 1) + k] = Block(s, i)[k]
  <2>1. P - 1 = Len(p)
    BY <1>6
  <2>2. \A k \in 1 .. n + 1 : b[Len(p) + k] = Block(s, i)[k]
    BY <1>2, <1>5
  <2>. QED
    BY <2>1, <2>2
<1>9. BlockAt(b, P, Run(s, i))
  BY <1>7, <1>8, BlockOfRun
<1>. QED
  BY <1>2, <1>3, <1>4, <1>5, <1>6, <1>7, <1>9

\* A run and what the sequence has after it.
LEMMA RunAndRest ==
  ASSUME NEW B \in SUBSET Nat, NEW s \in Seq(B), NEW i \in 1 .. Len(s) + 1,
         NEW n \in Nat, n = RunLength(s, i)
  PROVE  /\ i + n = Len(s) + 1 => Run(s, i) = SubSeq(s, i, Len(s))
         /\ i + n <= Len(s) =>
              /\ Run(s, i) \o SubSeq(s, i + n, Len(s)) = SubSeq(s, i, Len(s))
              /\ s[i + n] = 0 =>
                   Run(s, i) \o <<0>> \o SubSeq(s, i + n + 1, Len(s)) = SubSeq(s, i, Len(s))
<1>1. PICK k \in Nat : k = (i + n) - 1
  OBVIOUS
<1>2. Run(s, i) = SubSeq(s, i, k)
  BY <1>1 DEF Run
<1>3. i + n = Len(s) + 1 => k = Len(s)
  BY <1>1
<1>4. ASSUME i + n <= Len(s) PROVE SubSeq(s, i, k) \o SubSeq(s, i + n, Len(s)) = SubSeq(s, i, Len(s))
  <2>1. k \in i - 1 .. Len(s) /\ Len(s) \in k .. Len(s) /\ i + n = k + 1
    BY <1>1, <1>4
  <2>2. SubSeq(s, i, k) \o SubSeq(s, k + 1, Len(s)) = SubSeq(s, i, Len(s))
    BY <2>1, ConcatAdjacentSubSeq
  <2>. QED
    BY <2>1, <2>2
<1>5. ASSUME i + n <= Len(s), s[i + n] = 0
      PROVE  SubSeq(s, i, k) \o <<0>> \o SubSeq(s, i + n + 1, Len(s)) = SubSeq(s, i, Len(s))
  <2>1. PICK m \in 1 .. Len(s) : m = i + n
    BY <1>5
  <2>2. SubSeq(s, m, Len(s)) = <<s[m]>> \o SubSeq(s, m + 1, Len(s))
    <3>1. Len(s) \in m .. Len(s)
      BY <2>1
    <3>. QED
      BY <3>1, SubSeqRecursiveFirst
  <2>3. SubSeq(s, i, k) \in Seq(Nat) /\ SubSeq(s, m + 1, Len(s)) \in Seq(Nat) /\ <<0>> \in Seq(Nat)
    <3>1. s \in Seq(Nat)
      BY SeqMonotonic
    <3>2. (\A j \in i .. k : s[j] \in Nat) /\ (\A j \in m + 1 .. Len(s) : s[j] \in Nat)
      <4>1. \A j \in 1 .. Len(s) : s[j] \in Nat
        BY <3>1, ElementOfSeq
      <4>2. k <= Len(s)
        BY <1>1, <2>1
      <4>. QED
        BY <4>1, <4>2
    <3>3. k \in Int /\ i \in Int /\ m + 1 \in Int /\ Len(s) \in Int
      OBVIOUS
    <3>4. SubSeq(s, i, k) \in Seq(Nat)
      BY <3>2, <3>3, SubSeqProperties
    <3>5. SubSeq(s, m + 1, Len(s)) \in Seq(Nat)
      BY <3>2, <3>3, SubSeqProperties
    <3>. QED
      BY <3>4, <3>5
  <2>4. (SubSeq(s, i, k) \o <<0>>) \o SubSeq(s, m + 1, Len(s))
          = SubSeq(s, i, k) \o (<<0>> \o SubSeq(s, m + 1, Len(s)))
    BY <2>3, Associative, Zenon
  <2>. QED
    BY <1>4, <1>5, <2>1, <2>2, <2>4
<1>. QED
  BY <1>2, <1>3, <1>4, <1>5

\* What the encoder made of the bytes of s from position i on decodes to them,
\* whatever blocks p there are in front.
LEMMA DecodeEncoded ==
  ASSUME NEW B \in SUBSET Nat, NEW s \in Seq(B), NEW enc, IsEncoder(enc, s)
  PROVE  \A i \in 1 .. Len(s) + 1 : \A p \in Seq(Nat) : \A dec :
           IsDecoder(dec, p \o enc[i]) =>
             dec[Len(p) + 1] = [ok |-> TRUE, out |-> SubSeq(s, i, Len(s))]
<1>. DEFINE N == Len(s) + 1
            Good(j) == \A q \in Seq(Nat) : \A d :
                         IsDecoder(d, q \o enc[j]) =>
                           d[Len(q) + 1] = [ok |-> TRUE, out |-> SubSeq(s, j, Len(s))]
            T == {j \in 1 .. N : Good(j)}
<1>1. ASSUME NEW j \in 1 .. N, \A k \in j + 1 .. N : k \in T,
             NEW q \in Seq(Nat), NEW d, IsDecoder(d, q \o enc[j])
      PROVE  d[Len(q) + 1] = [ok |-> TRUE, out |-> SubSeq(s, j, Len(s))]
  <2>1. PICK n \in Nat : n = RunLength(s, j) /\ n <= CodeMax - 1 /\ j + n <= N
    <3>1. RunLength(s, j) \in 0 .. CodeMax - 1 /\ j + RunLength(s, j) <= Len(s) + 1
      BY BlockShape
    <3>. QED
      BY <3>1, CodeMaxAssumption
  <2>2. \A k \in 1 .. N : enc[k] \in Seq(Nat) /\ Len(enc[k]) # 0
    <3>1. Coded(B) \subseteq Nat
      BY CodeMaxAssumption DEF Coded
    <3>. SUFFICES ASSUME NEW k \in 1 .. N PROVE enc[k] \in Seq(Nat) /\ Len(enc[k]) # 0
      OBVIOUS
    <3>2. enc[k] \in Seq(Coded(B)) /\ enc[k] # <<>>
      BY EncodedSuffix
    <3>3. enc[k] \in Seq(Nat)
      BY <3>1, <3>2, SeqMonotonic
    <3>. QED
      BY <3>2, <3>3, EmptySeq
  <2>3. ASSUME NEW r \in Seq(Nat), enc[j] = Block(s, j) \o r
        PROVE  /\ Len(r) = 0 => d[Len(q) + 1] = [ok |-> TRUE, out |-> Run(s, j)]
               /\ IsDecoder(d, (q \o Block(s, j)) \o r)
               /\ q \o Block(s, j) \in Seq(Nat) /\ Len(q \o Block(s, j)) = Len(q) + 1 + n
               /\ Len(r) # 0 =>
                    d[Len(q) + 1] =
                      IF d[Len(q) + 1 + n + 1].ok
                      THEN [ok  |-> TRUE,
                            out |-> Run(s, j) \o (IF n + 1 = CodeMax THEN <<>> ELSE <<0>>)
                                      \o d[Len(q) + 1 + n + 1].out]
                      ELSE Malformed
    <3>1. /\ BlockAt(q \o (Block(s, j) \o r), Len(q) + 1, Run(s, j))
          /\ Len(q \o (Block(s, j) \o r)) = Len(q) + 1 + n + Len(r)
          /\ q \o (Block(s, j) \o r) = (q \o Block(s, j)) \o r
          /\ q \o Block(s, j) \in Seq(Nat) /\ Len(q \o Block(s, j)) = Len(q) + 1 + n
      <4>1. j \in 1 .. Len(s) + 1 /\ n = RunLength(s, j)
        BY <2>1
      <4>. HIDE DEF N
      <4>2. PICK i \in 1 .. Len(s) + 1 : i = j
        BY <4>1
      <4>3. /\ BlockAt(q \o (Block(s, i) \o r), Len(q) + 1, Run(s, i))
            /\ Len(q \o (Block(s, i) \o r)) = Len(q) + 1 + RunLength(s, i) + Len(r)
            /\ q \o (Block(s, i) \o r) = (q \o Block(s, i)) \o r
            /\ q \o Block(s, i) \in Seq(Nat)
            /\ Len(q \o Block(s, i)) = Len(q) + 1 + RunLength(s, i)
        BY FrameWithBlock, Zenon
      <4>. QED
        BY <4>1, <4>2, <4>3, Zenon
    <3>2. PICK b : b = q \o (Block(s, j) \o r)
      OBVIOUS
    <3>3. BlockAt(b, Len(q) + 1, Run(s, j)) /\ Len(b) = Len(q) + 1 + n + Len(r)
      BY <3>1, <3>2
    <3>4. IsDecoder(d, b)
      BY <1>1, <2>3, <3>2
    <3>5. Len(Run(s, j)) = n
      BY <2>1, RunShape
    <3>6. PICK P \in Nat : P = Len(q) + 1
      OBVIOUS
    <3>7. PICK l \in Nat : l = Len(r)
      OBVIOUS
    <3>8. d[P] = IF P + n = P + n + l THEN [ok |-> TRUE, out |-> Run(s, j)]
                 ELSE IF d[P + n + 1].ok
                      THEN [ok  |-> TRUE,
                            out |-> Run(s, j) \o (IF n + 1 = CodeMax THEN <<>> ELSE <<0>>)
                                      \o d[P + n + 1].out]
                 ELSE Malformed
      <4>1. BlockAt(b, P, Run(s, j)) /\ Len(b) = P + n + l
        BY <3>3, <3>6, <3>7
      <4>. QED
        <5>1. d[P] = IF P + Len(Run(s, j)) = Len(b) THEN [ok |-> TRUE, out |-> Run(s, j)]
                     ELSE IF d[P + Len(Run(s, j)) + 1].ok
                          THEN [ok  |-> TRUE,
                                out |-> Run(s, j)
                                          \o (IF Len(Run(s, j)) + 1 = CodeMax THEN <<>> ELSE <<0>>)
                                          \o d[P + Len(Run(s, j)) + 1].out]
                     ELSE Malformed
          BY <3>4, <4>1, DecodeBlock
        <5>. QED
          BY <3>5, <4>1, <5>1
    <3>9. P + n = P + n + l <=> l = 0
      OBVIOUS
    <3>10. IsDecoder(d, (q \o Block(s, j)) \o r)
      BY <3>1, <3>2, <3>4
    <3>. QED
      BY <3>1, <3>6, <3>7, <3>8, <3>9, <3>10
  <2>4. \/ /\ j + n = N /\ enc[j] = Block(s, j)
        \/ /\ j + n <= Len(s) /\ n = CodeMax - 1
           /\ enc[j] = Block(s, j) \o enc[j + n]
        \/ /\ j + n <= Len(s) /\ n < CodeMax - 1
           /\ s[j + n] = 0
           /\ enc[j] = Block(s, j) \o enc[j + n + 1]
    BY <2>1, EncoderCases
  <2>5. ASSUME NEW k \in j + n .. N, k > j, enc[j] = Block(s, j) \o enc[k],
               k = j + n \/ k = j + n + 1
        PROVE  /\ d[Len(q) + 1 + n + 1] = [ok |-> TRUE, out |-> SubSeq(s, k, Len(s))]
               /\ d[Len(q) + 1] =
                    [ok  |-> TRUE,
                     out |-> Run(s, j) \o (IF n + 1 = CodeMax THEN <<>> ELSE <<0>>)
                               \o SubSeq(s, k, Len(s))]
    <3>1. k \in j + 1 .. N /\ k \in 1 .. N
      BY <2>5
    <3>2. PICK r \in Seq(Nat) : r = enc[k] /\ Len(r) # 0
      BY <2>2, <3>1
    <3>3. PICK t \in Seq(Nat) : t = q \o Block(s, j)
      BY <2>3, <2>5, <3>2
    <3>4. /\ IsDecoder(d, t \o enc[k]) /\ Len(t) = Len(q) + 1 + n
          /\ d[Len(q) + 1] =
               IF d[Len(q) + 1 + n + 1].ok
               THEN [ok  |-> TRUE,
                     out |-> Run(s, j) \o (IF n + 1 = CodeMax THEN <<>> ELSE <<0>>)
                               \o d[Len(q) + 1 + n + 1].out]
               ELSE Malformed
      BY <2>3, <2>5, <3>2, <3>3
    <3>5. Good(k)
      <4>1. k \in T
        BY <1>1, <3>1
      <4>. QED
        BY <4>1
    <3>6. d[Len(t) + 1] = [ok |-> TRUE, out |-> SubSeq(s, k, Len(s))]
      BY <3>4, <3>5
    <3>7. d[Len(q) + 1 + n + 1] = [ok |-> TRUE, out |-> SubSeq(s, k, Len(s))]
      BY <3>4, <3>6
    <3>. QED
      BY <3>4, <3>7
  <2>6. CASE j + n = N /\ enc[j] = Block(s, j)
    <3>1. Block(s, j) \in Seq(Nat)
      BY <2>2, <2>6
    <3>2. enc[j] = Block(s, j) \o <<>> /\ <<>> \in Seq(Nat) /\ Len(<<>>) = 0
      BY <2>6, <3>1, ConcatEmptySeq
    <3>3. d[Len(q) + 1] = [ok |-> TRUE, out |-> Run(s, j)]
      BY <2>3, <3>2
    <3>4. Run(s, j) = SubSeq(s, j, Len(s))
      BY <2>1, <2>6, RunAndRest
    <3>. QED
      BY <3>3, <3>4
  <2>7. CASE /\ j + n <= Len(s) /\ n = CodeMax - 1
             /\ enc[j] = Block(s, j) \o enc[j + n]
    <3>1. j + n \in j + n .. N /\ j + n > j /\ n + 1 = CodeMax
      BY <2>7, CodeMaxAssumption
    <3>2. d[Len(q) + 1] = [ok |-> TRUE, out |-> Run(s, j) \o <<>> \o SubSeq(s, j + n, Len(s))]
      BY <2>5, <2>7, <3>1
    <3>3. Run(s, j) \o <<>> = Run(s, j)
      BY RunShape, ConcatEmptySeq
    <3>4. Run(s, j) \o SubSeq(s, j + n, Len(s)) = SubSeq(s, j, Len(s))
      BY <2>1, <2>7, RunAndRest
    <3>. QED
      BY <3>2, <3>3, <3>4
  <2>8. CASE /\ j + n <= Len(s) /\ n < CodeMax - 1
             /\ s[j + n] = 0
             /\ enc[j] = Block(s, j) \o enc[j + n + 1]
    <3>1. j + n + 1 \in j + n .. N /\ j + n + 1 > j /\ n + 1 # CodeMax
      BY <2>8, CodeMaxAssumption
    <3>2. d[Len(q) + 1] = [ok |-> TRUE, out |-> Run(s, j) \o <<0>> \o SubSeq(s, j + n + 1, Len(s))]
      BY <2>5, <2>8, <3>1
    <3>3. Run(s, j) \o <<0>> \o SubSeq(s, j + n + 1, Len(s)) = SubSeq(s, j, Len(s))
      BY <2>1, <2>8, RunAndRest
    <3>. QED
      BY <3>2, <3>3
  <2>. QED
    BY <2>4, <2>6, <2>7, <2>8
<1>2. 1 .. N \subseteq T
  <2>1. 1 \in Nat /\ N \in Nat
    OBVIOUS
  <2>2. \A j \in 1 .. N : (\A k \in j + 1 .. N : k \in T) => j \in T
    BY <1>1
  <2>. HIDE DEF T, N
  <2>. QED
    BY <2>1, <2>2, DownInduction
<1>3. \A i \in 1 .. N : Good(i)
  BY <1>2
<1>. QED
  BY <1>3, Zenon

-----------------------------------------------------------------------------
(* What the codec promises                                                 *)

\* What the encoder makes has no zero, so that a zero can delimit it; it is
\* made of the code bytes and the bytes of the source; and it fits in the
\* destination whose size cobs.h gives.
THEOREM EncodedShape ==
  ASSUME NEW B \in SUBSET Nat, NEW s \in Seq(B)
  PROVE  /\ CobsEncode(s) \in Seq(Coded(B)) /\ CobsEncode(s) # <<>>
         /\ Len(CobsEncode(s)) <= COBS_ENCODE_DST_BUF_LEN_MAX(Len(s))
<1>1. PICK enc : IsEncoder(enc, s) /\ CobsEncode(s) = enc[1]
  BY EncodeUnfolds
<1>2. /\ enc[1] \in Seq(Coded(B)) /\ enc[1] # <<>>
      /\ Bound(Len(s), enc[1])
  <2>1. 1 \in 1 .. Len(s) + 1 /\ Len(s) + 1 - 1 = Len(s)
    OBVIOUS
  <2>. QED
    BY <1>1, <2>1, EncodedSuffix
<1>3. PICK n \in Nat : n = Len(s)
  OBVIOUS
<1>4. PICK c \in Nat \ {0} : c = CodeMax - 1
  BY CodeMaxAssumption
<1>5. \A q \in Nat : q >= 1 /\ n <= q * c => Len(enc[1]) <= n + q
  BY <1>2, <1>3, <1>4 DEF Bound
<1>6. CASE n = 0
  <2>1. 1 \in Nat /\ n <= 1 * c
    BY <1>6
  <2>2. Len(enc[1]) <= n + 1
    BY <1>5, <2>1
  <2>. QED
    BY <1>1, <1>2, <1>3, <1>6, <2>2 DEF COBS_ENCODE_DST_BUF_LEN_MAX
<1>7. CASE n # 0
  <2>. DEFINE m == n + c - 1
              q == m \div c
  <2>1. m \in Nat /\ m = n + CodeMax - 2
    BY <1>4, <1>7, CodeMaxAssumption
  <2>2. q \in Int /\ c * q <= m /\ m < c * q + c
    <3>. HIDE DEF m
    <3>1. q \in Int
      BY <2>1
    <3>2. c * q <= m /\ m < c * q + c
      BY <2>1
    <3>. QED
      BY <3>1, <3>2
  <2>. HIDE DEF q
  <2>3. PICK x \in Int : x = c * q
    BY <2>2
  <2>4. n <= x
    BY <2>2, <2>3
  <2>5. q >= 1
    <3>1. q <= 0 => c * q <= 0
      BY <2>2
    <3>. QED
      BY <1>7, <2>2, <2>3, <2>4, <3>1
  <2>6. q \in Nat /\ q * c = x
    BY <2>2, <2>3, <2>5
  <2>7. Len(enc[1]) <= n + q
    BY <1>5, <2>4, <2>5, <2>6
  <2>8. COBS_ENCODE_DST_BUF_LEN_MAX(Len(s)) = n + q
    BY <1>3, <1>4, <1>7, <2>1 DEF COBS_ENCODE_DST_BUF_LEN_MAX, q
  <2>. QED
    BY <1>1, <1>2, <2>7, <2>8
<1>. QED
  BY <1>6, <1>7

\* The decoder gives back what the encoder was given, for every sequence of
\* bytes: nothing is lost or added, whatever zeros and full blocks it has.
THEOREM DecodeInvertsEncode ==
  ASSUME NEW B \in SUBSET Nat, NEW s \in Seq(B)
  PROVE  CobsDecode(CobsEncode(s)) = [ok |-> TRUE, out |-> s]
<1>1. PICK enc : IsEncoder(enc, s) /\ CobsEncode(s) = enc[1]
  BY EncodeUnfolds
<1>2. 1 \in 1 .. Len(s) + 1
  OBVIOUS
<1>3. enc[1] \in Seq(Nat) /\ enc[1] # <<>>
  <2>1. Coded(B) \subseteq Nat
    BY CodeMaxAssumption DEF Coded
  <2>2. enc[1] \in Seq(Coded(B)) /\ enc[1] # <<>>
    BY <1>1, <1>2, EncodedSuffix
  <2>. QED
    BY <2>1, <2>2, SeqMonotonic
<1>4. PICK b \in Seq(Nat) : b = enc[1] /\ b # <<>>
  BY <1>3
<1>5. PICK dec : IsDecoder(dec, b) /\ CobsDecode(b) = dec[1]
  <2>1. Nat \in SUBSET Nat /\ 0 \in Nat
    OBVIOUS
  <2>. QED
    BY <1>4, <2>1, DecodeUnfolds
<1>6. PICK p \in Seq(Nat) : p \o enc[1] = b /\ Len(p) + 1 = 1
  <2>1. <<>> \in Seq(Nat) /\ <<>> \o enc[1] = b /\ Len(<<>>) + 1 = 1
    BY <1>4, ConcatEmptySeq
  <2>. QED
    BY <2>1, Zenon
<1>7. dec[Len(p) + 1] = [ok |-> TRUE, out |-> SubSeq(s, 1, Len(s))]
  <2>1. IsDecoder(dec, p \o enc[1]) /\ IsEncoder(enc, s)
    BY <1>1, <1>5, <1>6, Zenon
  <2>2. \A i \in 1 .. Len(s) + 1 : \A q \in Seq(Nat) : \A d :
          IsDecoder(d, q \o enc[i]) =>
            d[Len(q) + 1] = [ok |-> TRUE, out |-> SubSeq(s, i, Len(s))]
    BY <2>1, DecodeEncoded, Zenon
  <2>. QED
    BY <1>2, <2>1, <2>2, Zenon
<1>8. SubSeq(s, 1, Len(s)) = s
  BY SubSeqFull
<1>9. dec[1] = [ok |-> TRUE, out |-> s]
  BY <1>6, <1>7, <1>8, Zenon
<1>. QED
  BY <1>1, <1>4, <1>5, <1>9, Zenon

\* Whatever it is fed, the decoder returns bytes, and when it finds a frame the
\* frame fits in the destination whose size cobs.h gives: the buffer of the
\* parser, which is as long as the encoded frame, has room for it.
THEOREM DecodedShape ==
  ASSUME NEW B \in SUBSET Nat, 0 \in B, NEW b \in Seq(B)
  PROVE  /\ CobsDecode(b) \in Decoded(B)
         /\ CobsDecode(b).ok =>
              Len(CobsDecode(b).out) <= COBS_DECODE_DST_BUF_LEN_MAX(Len(b))
<1>1. CASE b = <<>>
  <2>1. CobsDecode(b) = [ok |-> TRUE, out |-> <<>>] /\ Len(b) = 0
    BY <1>1, EmptySeq DEF CobsDecode
  <2>. QED
    BY <2>1, EmptySeq DEF Decoded, COBS_DECODE_DST_BUF_LEN_MAX
<1>2. CASE b # <<>>
  <2>1. PICK dec : IsDecoder(dec, b) /\ CobsDecode(b) = dec[1]
    BY <1>2, DecodeUnfolds
  <2>2. 1 \in 1 .. Len(b) + 1 /\ Len(b) # 0
    BY <1>2, EmptySeq
  <2>3. dec[1] \in Decoded(B) /\ (dec[1].ok => Len(dec[1].out) <= Len(b) - 1)
    BY <2>1, <2>2, DecodedSuffix
  <2>. QED
    BY <2>1, <2>2, <2>3 DEF COBS_DECODE_DST_BUF_LEN_MAX
<1>. QED
  BY <1>1, <1>2
=============================================================================
