-------------------------- MODULE OracleIndex_proofs --------------------------
(***************************************************************************)
(* The index loses no call and counts none twice, for any recording, any   *)
(* faults of it and any order of its chunks: theorems of OracleIndex.      *)
(*                                                                         *)
(* The recorder numbers its calls, so that no two entries are of the same  *)
(* call (ChunksFit), in whatever way the chunks are passed on (EntriesFit). *)
(* Of every entry read, the verification holds one invocation: open,       *)
(* waiting for a reopen, or exported (Ledger); a step moves it from one    *)
(* place to another.                                                       *)
(*                                                                         *)
(* The second half replays the recording: GG[i][k] says of each track,     *)
(* after event k of chunk i, which calls the recorder had open, which wait *)
(* for a reopen, and whether the innermost has its exit recorded (Run).    *)
(* The recorder keeps to a replay as long as no slice is left without an   *)
(* end and no packet dropped (Faithful).                                   *)
(***************************************************************************)
EXTENDS OracleIndex, FiniteSetTheorems, FunctionTheorems,
        SequenceTheorems, WellFoundedInduction, TLAPS

LEMMA Least ==
  ASSUME NEW S \in SUBSET Nat, S # {}
  PROVE  \E m \in S : \A k \in S : m <= k
<1> DEFINE less == {ss \in Nat \X Nat : ss[1] < ss[2]}
<1>1. IsWellFoundedOn(less, Nat)
  <2>1. less = OpToRel(<, Nat)
    BY DEF OpToRel
  <2> QED BY <2>1, NatLessThanWellFounded
<1> HIDE DEF less
<1>2. PICK m \in S : \A k \in S : <<k, m>> \notin less
  BY <1>1, WFMin
<1>3. ASSUME NEW k \in S PROVE m <= k
  <2>1. <<k, m>> \notin less /\ m \in Nat /\ k \in Nat
    BY <1>2
  <2>2. k < m => <<k, m>> \in less
    BY <2>1 DEF less
  <2> QED BY <2>1, <2>2
<1> QED BY <1>3

----------------------------------------------------------------------------
(* What is flattened comes from one place of one of the sequences.          *)
Flattened(seqs, f, i) == IF i = 1 THEN seqs[i] ELSE f[i - 1] \o seqs[i]
FlatTo(seqs, f, k) ==
  /\ f = [i \in 1..Len(seqs) |-> f[i]]
  /\ \A i \in 1..Len(seqs) : i <= k => f[i] = Flattened(seqs, f, i)

LEMMA FlatExists ==
  ASSUME NEW seqs, Len(seqs) \in Nat
  PROVE  \E f : f = [i \in 1..Len(seqs) |-> Flattened(seqs, f, i)]
<1> DEFINE N   == Len(seqs)
           Bad == {k \in Nat : ~\E f : FlatTo(seqs, f, k)}
<1>1. 0 \notin Bad
  <2> DEFINE f == [i \in 1..N |-> seqs]
  <2>1. FlatTo(seqs, f, 0)
    BY DEF FlatTo
  <2> QED BY <2>1
<1>2. ASSUME NEW k \in Nat, k \notin Bad PROVE k + 1 \notin Bad
  <2>1. PICK f : FlatTo(seqs, f, k)
    BY <1>2
  <2> DEFINE g == [i \in 1..N |-> IF i = k + 1 THEN Flattened(seqs, f, i) ELSE f[i]]
  <2>2. /\ \A i \in 1..N : g[i] = IF i = k + 1 THEN Flattened(seqs, f, i) ELSE f[i]
        /\ g = [i \in 1..N |-> g[i]]
    OBVIOUS
  <2> HIDE DEF g
  <2>3. ASSUME NEW i \in 1..N, i <= k + 1 PROVE g[i] = Flattened(seqs, g, i)
    <3>1. i # 1 => i - 1 \in 1..N /\ i - 1 # k + 1
      BY <2>3
    <3>2. Flattened(seqs, g, i) = Flattened(seqs, f, i)
      BY <2>2, <3>1 DEF Flattened
    <3>3. i # k + 1 => i <= k
      BY <2>3
    <3> QED BY <2>1, <2>2, <3>2, <3>3 DEF FlatTo
  <2>4. FlatTo(seqs, g, k + 1)
    BY <2>2, <2>3 DEF FlatTo
  <2> QED BY <2>4
<1>3. Bad = {}
  <2> SUFFICES ASSUME Bad # {} PROVE FALSE
    OBVIOUS
  <2>1. PICK m \in Bad : \A k \in Bad : m <= k
    BY Least
  <2>2. m # 0 /\ m \in Nat
    BY <1>1, <2>1
  <2>3. m - 1 \in Nat /\ m - 1 \notin Bad /\ (m - 1) + 1 = m
    BY <2>1, <2>2
  <2> HIDE DEF Bad
  <2> QED BY <1>2, <2>1, <2>3
<1>4. PICK f : FlatTo(seqs, f, N)
  BY <1>3
<1>5. f = [i \in 1..N |-> Flattened(seqs, f, i)]
  BY <1>4 DEF FlatTo
<1> QED BY <1>5

(* Position n of what is flattened is position from[n][2] of sequence       *)
(* from[n][1].                                                              *)
ComesFrom(seqs, flat, from, k) ==
  /\ \A n \in DOMAIN flat :
       /\ from[n][1] \in 1..k /\ from[n][2] \in DOMAIN seqs[from[n][1]]
       /\ flat[n] = seqs[from[n][1]][from[n][2]]
  /\ \A n, m \in DOMAIN flat : from[n][1] = from[m][1] /\ from[n][2] = from[m][2] => n = m

LEMMA ConcatComesFrom ==
  ASSUME NEW S, NEW seqs, NEW k \in Nat, NEW flat \in Seq(S), seqs[k + 1] \in Seq(S),
         NEW from, ComesFrom(seqs, flat, from, k)
  PROVE  \E origin : ComesFrom(seqs, flat \o seqs[k + 1], origin, k + 1)
<1> DEFINE next   == seqs[k + 1]
           both   == flat \o next
           origin == [n \in DOMAIN both |->
                        IF n <= Len(flat) THEN from[n] ELSE <<k + 1, n - Len(flat)>>]
<1>1. /\ both \in Seq(S) /\ Len(flat) \in Nat /\ Len(next) \in Nat
      /\ DOMAIN both = 1..(Len(flat) + Len(next))
      /\ DOMAIN flat = 1..Len(flat) /\ DOMAIN next = 1..Len(next)
      /\ \A n \in 1..(Len(flat) + Len(next)) :
           both[n] = IF n <= Len(flat) THEN flat[n] ELSE next[n - Len(flat)]
  BY ConcatProperties, LenProperties
<1>2. \A n \in DOMAIN both : origin[n] = IF n <= Len(flat) THEN from[n]
                                         ELSE <<k + 1, n - Len(flat)>>
  OBVIOUS
<1>3. next = seqs[k + 1]
  OBVIOUS
<1> HIDE DEF both, next, origin
<1>4. ASSUME NEW n \in DOMAIN both, n <= Len(flat)
      PROVE  /\ n \in DOMAIN flat /\ origin[n] = from[n] /\ both[n] = flat[n]
             /\ from[n][1] \in 1..k /\ from[n][2] \in DOMAIN seqs[from[n][1]]
             /\ flat[n] = seqs[from[n][1]][from[n][2]]
  <2>1. n \in DOMAIN flat
    BY <1>1, <1>4
  <2> QED BY <1>1, <1>2, <1>4, <2>1 DEF ComesFrom
<1>5. ASSUME NEW n \in DOMAIN both, ~(n <= Len(flat))
      PROVE  /\ origin[n][1] = k + 1 /\ origin[n][2] = n - Len(flat) /\ n - Len(flat) \in DOMAIN next
             /\ both[n] = next[n - Len(flat)]
  <2>1. n \in 1..(Len(flat) + Len(next))
    BY <1>1
  <2>2. n - Len(flat) \in 1..Len(next)
    BY <1>1, <1>5, <2>1
  <2>3. origin[n] = <<k + 1, n - Len(flat)>>
    BY <1>2, <1>5
  <2> QED BY <1>1, <1>5, <2>1, <2>2, <2>3
<1>6. \A n, m \in DOMAIN flat : from[n][1] = from[m][1] /\ from[n][2] = from[m][2] => n = m
  BY DEF ComesFrom
<1>7. ASSUME NEW n \in DOMAIN both
      PROVE  /\ origin[n][1] \in 1..(k + 1) /\ origin[n][2] \in DOMAIN seqs[origin[n][1]]
             /\ both[n] = seqs[origin[n][1]][origin[n][2]]
  <2>1. CASE n <= Len(flat)
    BY <1>4, <2>1
  <2>2. CASE ~(n <= Len(flat))
    BY <1>3, <1>5, <2>2
  <2> QED BY <2>1, <2>2
<1>8. ASSUME NEW n \in DOMAIN both, NEW m \in DOMAIN both,
             origin[n][1] = origin[m][1], origin[n][2] = origin[m][2]
      PROVE  n = m
  <2>1. CASE n <= Len(flat) /\ m <= Len(flat)
    BY <1>4, <1>6, <1>8, <2>1
  <2>2. CASE ~(n <= Len(flat)) /\ ~(m <= Len(flat))
    <3>1. n - Len(flat) = m - Len(flat)
      BY <1>5, <1>8, <2>2
    <3> QED BY <1>1, <3>1
  <2>3. CASE (n <= Len(flat)) # (m <= Len(flat))
    <3>1. \A i \in 1..k : i # k + 1
      OBVIOUS
    <3> QED BY <1>4, <1>5, <1>8, <2>3, <3>1
  <2> QED BY <2>1, <2>2, <2>3
<1>9. ComesFrom(seqs, both, origin, k + 1)
  BY <1>7, <1>8 DEF ComesFrom
<1> QED BY <1>9 DEF both, next

LEMMA FlattenFacts ==
  ASSUME NEW S, NEW seqs \in Seq(Seq(S))
  PROVE  /\ FlattenSeq(seqs) \in Seq(S)
         /\ \E from : ComesFrom(seqs, FlattenSeq(seqs), from, Len(seqs))
<1>1. Len(seqs) \in Nat /\ \A i \in 1..Len(seqs) : seqs[i] \in Seq(S)
  BY LenProperties, ElementOfSeq
<1>2. CASE Len(seqs) = 0
  <2>1. FlattenSeq(seqs) = <<>>
    BY <1>2 DEF FlattenSeq
  <2>2. ComesFrom(seqs, <<>>, <<>>, Len(seqs))
    BY DEF ComesFrom
  <2> QED BY <2>1, <2>2
<1>3. CASE Len(seqs) # 0
  <2> DEFINE N == Len(seqs)
             flatten[i \in 1..Len(seqs)] == IF i = 1 THEN seqs[i] ELSE flatten[i-1] \o seqs[i]
  <2>1. FlattenSeq(seqs) = flatten[Len(seqs)]
    BY <1>3, Zenon DEF FlattenSeq
  <2>2. flatten = CHOOSE f : f = [i \in 1..Len(seqs) |-> IF i = 1 THEN seqs[i]
                                                         ELSE f[i - 1] \o seqs[i]]
    BY Zenon
  <2> HIDE DEF flatten
  <2>3. flatten = [i \in 1..N |-> Flattened(seqs, flatten, i)]
    BY <1>1, <2>2, FlatExists DEF Flattened
  <2>4. \A i \in 1..N : flatten[i] = Flattened(seqs, flatten, i)
    BY <2>3
  <2> DEFINE Good(i) == flatten[i] \in Seq(S) /\ \E from : ComesFrom(seqs, flatten[i], from, i)
             Bad == {i \in 1..N : ~Good(i)}
  <2>5. Good(1)
    <3> DEFINE from == [n \in DOMAIN seqs[1] |-> <<1, n>>]
    <3>1. 1 \in 1..N
      BY <1>1, <1>3
    <3>2. flatten[1] = seqs[1]
      BY <2>4, <3>1 DEF Flattened
    <3>3. ComesFrom(seqs, seqs[1], from, 1)
      BY DEF ComesFrom
    <3> HIDE DEF from
    <3> QED BY <1>1, <3>1, <3>2, <3>3
  <2>6. ASSUME NEW i \in 1..N, Good(i), i + 1 \in 1..N PROVE Good(i + 1)
    <3>1. flatten[i + 1] = flatten[i] \o seqs[i + 1]
      <4>1. i + 1 # 1 /\ (i + 1) - 1 = i
        BY <2>6
      <4>2. flatten[i + 1] = Flattened(seqs, flatten, i + 1)
        BY <2>4, <2>6
      <4> QED BY <4>1, <4>2 DEF Flattened
    <3>2. PICK from : ComesFrom(seqs, flatten[i], from, i)
      BY <2>6
    <3>3. seqs[i + 1] \in Seq(S) /\ flatten[i] \in Seq(S) /\ i \in Nat
      BY <1>1, <2>6
    <3>4. \E origin : ComesFrom(seqs, flatten[i] \o seqs[i + 1], origin, i + 1)
      BY <3>2, <3>3, ConcatComesFrom
    <3> QED BY <3>1, <3>3, <3>4, ConcatProperties
  <2>7. Bad = {}
    <3> SUFFICES ASSUME Bad # {} PROVE FALSE
      OBVIOUS
    <3>1. Bad \in SUBSET Nat
      OBVIOUS
    <3>2. PICK m \in Bad : \A k \in Bad : m <= k
      BY <3>1, Least
    <3>3. m \in 1..N /\ ~Good(m)
      BY <3>2
    <3>4. m # 1
      BY <2>5, <3>3
    <3>5. m - 1 \in 1..N /\ m - 1 \notin Bad /\ (m - 1) + 1 = m
      <4>1. m - 1 \in 1..N /\ (m - 1) + 1 = m /\ ~(m <= m - 1)
        BY <1>1, <3>3, <3>4
      <4> HIDE DEF Bad
      <4> QED BY <3>2, <4>1
    <3>6. Good(m - 1)
      BY <3>5
    <3> HIDE DEF Good, Bad
    <3> QED BY <2>6, <3>3, <3>5, <3>6
  <2>8. N \in 1..N
    BY <1>1, <1>3
  <2>9. Good(N)
    BY <2>7, <2>8
  <2> QED BY <2>1, <2>9
<1> QED BY <1>2, <1>3

----------------------------------------------------------------------------
(* The chunks: every entry is of a call of its own.                         *)
Fits(e, low, high) ==
  e.track \in Tracks /\ (e.kind = "enter" => e.call \in Nat /\ low < e.call /\ e.call <= high)
ChunksFit(cs, k) ==
  /\ \E S : cs \in Seq(Seq(S))
  /\ \A i \in DOMAIN cs : \A n \in DOMAIN cs[i] : Fits(cs[i][n], 0, k)
  /\ \A i, j \in DOMAIN cs : \A n \in DOMAIN cs[i], m \in DOMAIN cs[j] :
       cs[i][n].kind = "enter" /\ cs[j][m].kind = "enter" /\ cs[i][n].call = cs[j][m].call
         => i = j /\ n = m

LEMMA ChunksTyped ==
  ASSUME NEW S, NEW cs \in Seq(Seq(S))
  PROVE  /\ Len(cs) \in Nat /\ DOMAIN cs = 1..Len(cs)
         /\ \A i \in DOMAIN cs : /\ cs[i] \in Seq(S) /\ Len(cs[i]) \in Nat
                                 /\ DOMAIN cs[i] = 1..Len(cs[i])
<1>1. Len(cs) \in Nat /\ DOMAIN cs = 1..Len(cs) /\ \A i \in DOMAIN cs : cs[i] \in Seq(S)
  BY LenProperties, ElementOfSeq
<1>2. \A i \in DOMAIN cs : Len(cs[i]) \in Nat /\ DOMAIN cs[i] = 1..Len(cs[i])
  BY <1>1, LenProperties
<1> QED BY <1>1, <1>2

LEMMA EntriesDiffer ==
  ASSUME NEW cs, NEW k, ChunksFit(cs, k),
         NEW i \in DOMAIN cs, NEW j \in DOMAIN cs, NEW n \in DOMAIN cs[i], NEW m \in DOMAIN cs[j],
         cs[i][n].kind = "enter", cs[j][m].kind = "enter", cs[i][n].call = cs[j][m].call
  PROVE  i = j /\ n = m
BY DEF ChunksFit

(* Chunks of which every event is an event of its own of other chunks.      *)
Taken(ds, cs, f) ==
  /\ \A i \in DOMAIN ds : \A n \in DOMAIN ds[i] :
       f[i] \in DOMAIN cs /\ n \in DOMAIN cs[f[i]] /\ ds[i][n] = cs[f[i]][n]
  /\ \A i, j \in DOMAIN ds : f[i] = f[j] => i = j

LEMMA ChunksTaken ==
  ASSUME NEW cs, NEW k \in Nat, ChunksFit(cs, k),
         NEW S, NEW ds \in Seq(Seq(S)), NEW f, Taken(ds, cs, f)
  PROVE  ChunksFit(ds, k)
<1>1. \A i \in DOMAIN ds : \A n \in DOMAIN ds[i] : Fits(ds[i][n], 0, k)
  BY DEF ChunksFit, Taken
<1>2. ASSUME NEW i \in DOMAIN ds, NEW j \in DOMAIN ds, NEW n \in DOMAIN ds[i], NEW m \in DOMAIN ds[j],
             ds[i][n].kind = "enter", ds[j][m].kind = "enter", ds[i][n].call = ds[j][m].call
      PROVE  i = j /\ n = m
  <2>1. /\ f[i] \in DOMAIN cs /\ n \in DOMAIN cs[f[i]] /\ ds[i][n] = cs[f[i]][n]
        /\ f[j] \in DOMAIN cs /\ m \in DOMAIN cs[f[j]] /\ ds[j][m] = cs[f[j]][m]
    BY DEF Taken
  <2>2. PICK a, b : a = f[i] /\ b = f[j]
    OBVIOUS
  <2>3. a \in DOMAIN cs /\ n \in DOMAIN cs[a] /\ b \in DOMAIN cs /\ m \in DOMAIN cs[b]
    BY <2>1, <2>2
  <2>4. cs[a][n].kind = "enter" /\ cs[b][m].kind = "enter" /\ cs[a][n].call = cs[b][m].call
    BY <1>2, <2>1, <2>2
  <2>5. a = b /\ n = m
    BY <2>3, <2>4, EntriesDiffer
  <2> QED BY <2>2, <2>5 DEF Taken
<1> QED BY <1>1, <1>2 DEF ChunksFit

(* More events in the last chunk: entries are of new calls.                 *)
LEMMA ChunksExtended ==
  ASSUME NEW cs, NEW k \in Nat, ChunksFit(cs, k), Len(cs) > 0,
         NEW E, NEW events \in Seq(E), NEW l \in Nat, k <= l,
         \A n \in DOMAIN events : Fits(events[n], k, l) /\ (events[n].kind = "enter" => n = 1)
  PROVE  /\ ChunksFit([cs EXCEPT ![Len(cs)] = @ \o events], l)
         /\ Len([cs EXCEPT ![Len(cs)] = @ \o events]) = Len(cs)
<1>1. PICK S : cs \in Seq(Seq(S))
  BY DEF ChunksFit
<1> DEFINE N  == Len(cs)
           ds == [cs EXCEPT ![N] = @ \o events]
           T  == S \cup E
<1>2. /\ N \in Nat /\ N \in DOMAIN cs /\ DOMAIN cs = 1..N
      /\ \A i \in DOMAIN cs : /\ cs[i] \in Seq(S) /\ Len(cs[i]) \in Nat
                              /\ DOMAIN cs[i] = 1..Len(cs[i])
  BY <1>1, ChunksTyped
<1>3. cs \in Seq(Seq(T)) /\ events \in Seq(T) /\ \A i \in DOMAIN cs : cs[i] \in Seq(T)
  <2>1. S \subseteq T /\ E \subseteq T
    OBVIOUS
  <2>2. Seq(S) \subseteq Seq(T) /\ events \in Seq(T)
    BY <2>1, SeqMonotonic
  <2> HIDE DEF T
  <2>3. cs \in Seq(Seq(T))
    BY <1>1, <2>2, SeqMonotonic
  <2> QED BY <1>2, <2>2, <2>3
<1>4. /\ cs[N] \o events \in Seq(T) /\ Len(events) \in Nat /\ DOMAIN events = 1..Len(events)
      /\ DOMAIN (cs[N] \o events) = 1..(Len(cs[N]) + Len(events))
      /\ \A n \in 1..(Len(cs[N]) + Len(events)) :
           (cs[N] \o events)[n] = IF n <= Len(cs[N]) THEN cs[N][n] ELSE events[n - Len(cs[N])]
  <2>1. cs[N] \in Seq(T) /\ events \in Seq(T)
    BY <1>2, <1>3
  <2> QED BY <2>1, ConcatProperties, LenProperties
<1> DEFINE last == cs[N] \o events
<1>5. /\ ds \in Seq(Seq(T)) /\ Len(ds) = N /\ DOMAIN ds = 1..N
      /\ ds[N] = last /\ \A i \in DOMAIN cs : i # N => ds[i] = cs[i]
  <2>1. N \in 1..Len(cs) /\ last \in Seq(T) /\ cs \in Seq(Seq(T))
    BY <1>2, <1>3, <1>4
  <2> HIDE DEF T, last
  <2>2. ds = [cs EXCEPT ![N] = last]
    BY DEF last
  <2> HIDE DEF ds
  <2>3. ds \in Seq(Seq(T)) /\ Len(ds) = N /\ \A i \in 1..Len(cs) : ds[i] = IF i = N THEN last ELSE cs[i]
    BY <2>1, <2>2, ExceptSeq
  <2> QED BY <1>2, <2>1, <2>3, LenProperties
<1> HIDE DEF ds, N, T, last
<1>6. ASSUME NEW n \in DOMAIN last
      PROVE  \/ n \in DOMAIN cs[N] /\ last[n] = cs[N][n]
             \/ n - Len(cs[N]) \in DOMAIN events /\ last[n] = events[n - Len(cs[N])]
                /\ n \in Nat
  <2>1. n \in 1..(Len(cs[N]) + Len(events)) /\ Len(cs[N]) \in Nat /\ DOMAIN cs[N] = 1..Len(cs[N])
    BY <1>2, <1>4 DEF last
  <2>2. CASE n <= Len(cs[N])
    BY <1>4, <2>1, <2>2 DEF last
  <2>3. CASE ~(n <= Len(cs[N]))
    <3>1. n - Len(cs[N]) \in 1..Len(events)
      BY <1>4, <2>1, <2>3
    <3> QED BY <1>4, <2>1, <2>3, <3>1 DEF last
  <2> QED BY <2>2, <2>3
<1>7. \A e : Fits(e, 0, k) => Fits(e, 0, l)
  BY DEF Fits
<1>8. \A e : Fits(e, k, l) => Fits(e, 0, l)
  BY DEF Fits
<1>9. \A i \in DOMAIN cs : \A n \in DOMAIN cs[i] :
        Fits(cs[i][n], 0, k) /\ (cs[i][n].kind = "enter" => cs[i][n].call <= k /\ cs[i][n].call \in Nat)
  BY DEF ChunksFit, Fits
<1>10. \A n \in DOMAIN events : events[n].kind = "enter" => k < events[n].call /\ events[n].call \in Nat
  BY DEF Fits
<1> DEFINE Old(i, n) == i \in DOMAIN cs /\ n \in DOMAIN cs[i] /\ ds[i][n] = cs[i][n]
           New(i, n) == /\ i = N /\ n \in Nat /\ n - Len(cs[N]) \in DOMAIN events
                        /\ ds[i][n] = events[n - Len(cs[N])]
<1>11. \A i \in DOMAIN ds : \A n \in DOMAIN ds[i] : Old(i, n) \/ New(i, n)
  <2> TAKE i \in DOMAIN ds
  <2> TAKE n \in DOMAIN ds[i]
  <2>1. CASE i = N
    BY <1>2, <1>5, <1>6, <2>1
  <2>2. CASE i # N
    BY <1>2, <1>5, <2>2
  <2> QED BY <2>1, <2>2
<1>12. ASSUME NEW i, NEW n, New(i, n), ds[i][n].kind = "enter" PROVE n - Len(cs[N]) = 1
  BY <1>12
<1>13. \A i \in DOMAIN ds : \A n \in DOMAIN ds[i] : Fits(ds[i][n], 0, l)
  <2> TAKE i \in DOMAIN ds
  <2> TAKE n \in DOMAIN ds[i]
  <2>1. CASE Old(i, n)
    BY <1>7, <1>9, <2>1
  <2>2. CASE New(i, n)
    BY <1>8, <2>2
  <2> QED BY <1>11, <2>1, <2>2
<1>14. ASSUME NEW i \in DOMAIN ds, NEW j \in DOMAIN ds, NEW n \in DOMAIN ds[i], NEW m \in DOMAIN ds[j],
              ds[i][n].kind = "enter", ds[j][m].kind = "enter", ds[i][n].call = ds[j][m].call
       PROVE  i = j /\ n = m
  <2>1. CASE Old(i, n) /\ Old(j, m)
    BY <1>14, <2>1 DEF ChunksFit
  <2>2. CASE New(i, n) /\ New(j, m)
    <3>1. n - Len(cs[N]) = 1 /\ m - Len(cs[N]) = 1 /\ n \in Nat /\ m \in Nat /\ i = N /\ j = N
      BY <1>12, <1>14, <2>2
    <3>2. Len(cs[N]) \in Nat
      BY <1>2
    <3> QED BY <3>1, <3>2
  <2>3. ASSUME NEW a, NEW b, NEW c, NEW d, Old(a, b), New(c, d),
               ds[a][b].kind = "enter", ds[c][d].kind = "enter", ds[a][b].call = ds[c][d].call
        PROVE  FALSE
    <3>1. ds[a][b].call <= k /\ ds[a][b].call \in Nat
      BY <1>9, <2>3
    <3>2. k < ds[c][d].call
      BY <1>10, <2>3
    <3> QED BY <2>3, <3>1, <3>2
  <2> HIDE DEF Old, New
  <2> QED BY <1>11, <1>14, <2>1, <2>2, <2>3
<1>15. ChunksFit(ds, l)
  BY <1>5, <1>13, <1>14 DEF ChunksFit
<1> QED BY <1>5, <1>15 DEF ds, N

LEMMA ChunkAdded ==
  ASSUME NEW cs, NEW k \in Nat, ChunksFit(cs, k), NEW E, NEW events \in Seq(E),
         \A n \in DOMAIN events : events[n].track \in Tracks /\ events[n].kind # "enter"
  PROVE  ChunksFit(Append(cs, events), k) /\ Len(Append(cs, events)) = Len(cs) + 1
<1>1. PICK S : cs \in Seq(Seq(S))
  BY DEF ChunksFit
<1> DEFINE N  == Len(cs)
           ds == Append(cs, events)
           T  == S \cup E
<1>2. N \in Nat /\ DOMAIN cs = 1..N
  BY <1>1, ChunksTyped
<1>3. cs \in Seq(Seq(T)) /\ events \in Seq(T)
  <2>1. S \subseteq T /\ E \subseteq T
    OBVIOUS
  <2>2. Seq(S) \subseteq Seq(T) /\ events \in Seq(T)
    BY <2>1, SeqMonotonic
  <2> HIDE DEF T
  <2> QED BY <1>1, <2>2, SeqMonotonic
<1> HIDE DEF T
<1>4. /\ ds \in Seq(Seq(T)) /\ Len(ds) = N + 1 /\ DOMAIN ds = 1..(N + 1)
      /\ ds[N + 1] = events /\ \A i \in 1..N : ds[i] = cs[i]
  BY <1>3, AppendProperties, LenProperties
<1> HIDE DEF ds, N
<1>5. \A i \in DOMAIN ds : (i \in DOMAIN cs /\ ds[i] = cs[i]) \/ ds[i] = events
  BY <1>2, <1>4
<1>6. \A i \in DOMAIN ds : \A n \in DOMAIN ds[i] : Fits(ds[i][n], 0, k)
  BY <1>5 DEF ChunksFit, Fits
<1>7. ASSUME NEW i \in DOMAIN ds, NEW j \in DOMAIN ds, NEW n \in DOMAIN ds[i], NEW m \in DOMAIN ds[j],
             ds[i][n].kind = "enter", ds[j][m].kind = "enter", ds[i][n].call = ds[j][m].call
      PROVE  i = j /\ n = m
  <2>1. /\ i \in DOMAIN cs /\ ds[i] = cs[i] /\ n \in DOMAIN cs[i]
        /\ j \in DOMAIN cs /\ ds[j] = cs[j] /\ m \in DOMAIN cs[j]
    BY <1>5, <1>7
  <2> QED BY <1>7, <2>1 DEF ChunksFit
<1> QED BY <1>4, <1>6, <1>7 DEF ChunksFit, ds, N

----------------------------------------------------------------------------
(* The recorder.                                                            *)
Stacks(o) == \E S : o \in [Tracks -> Seq(S)]
Recorded == /\ calls \in Nat /\ Stacks(active) /\ Len(chunks) > 0
            /\ ChunksFit(chunks, calls)

LEMMA StackReplaced ==
  ASSUME NEW o, NEW S, o \in [Tracks -> Seq(S)], NEW t \in Tracks, NEW T, NEW s \in Seq(T)
  PROVE  [o EXCEPT ![t] = s] \in [Tracks -> Seq(S \cup T)]
<1>1. Seq(S) \subseteq Seq(S \cup T) /\ s \in Seq(S \cup T)
  <2>1. S \subseteq S \cup T /\ T \subseteq S \cup T
    OBVIOUS
  <2> QED BY <2>1, SeqMonotonic
<1> QED BY <1>1

LEMMA FrontIs ==
  ASSUME NEW S, NEW s \in Seq(S), s # <<>>
  PROVE  /\ Front(s) \in Seq(S) /\ Len(Front(s)) = Len(s) - 1 /\ Len(s) \in Nat
         /\ DOMAIN s = 1..Len(s) /\ DOMAIN Front(s) = 1..(Len(s) - 1)
         /\ \A n \in DOMAIN Front(s) : n \in DOMAIN s /\ n # Len(s) /\ Front(s)[n] = s[n]
         /\ Len(s) \in DOMAIN s /\ Last(s) = s[Len(s)]
<1>1. Len(s) \in Nat /\ Len(s) # 0 /\ DOMAIN s = 1..Len(s) /\ \A i \in 1..Len(s) : s[i] \in S
  BY LenProperties, EmptySeq, ElementOfSeq
<1>2. /\ Front(s) \in Seq(S) /\ Len(Front(s)) = Len(s) - 1
      /\ \A n \in 1..(Len(s) - 1) : Front(s)[n] = s[n]
  <2>1. \A i \in 1..(Len(s) - 1) : s[i] \in S
    BY <1>1
  <2>2. /\ SubSeq(s, 1, Len(s) - 1) \in Seq(S)
        /\ Len(SubSeq(s, 1, Len(s) - 1))
             = IF 1 <= Len(s) - 1 THEN (Len(s) - 1) - 1 + 1 ELSE 0
        /\ \A i \in 1..((Len(s) - 1) - 1 + 1) : SubSeq(s, 1, Len(s) - 1)[i] = s[1 + i - 1]
    BY <1>1, <2>1, SubSeqProperties
  <2> QED BY <1>1, <2>2 DEF Front
<1>3. DOMAIN Front(s) = 1..(Len(s) - 1)
  BY <1>2, LenProperties
<1> QED BY <1>1, <1>2, <1>3 DEF Last

LEMMA FunctionIsSeq ==
  ASSUME NEW S, NEW n \in Nat, NEW f \in [1..n -> S]
  PROVE  f \in Seq(S) /\ Len(f) = n
OBVIOUS

LEMMA FlatIs ==
  ASSUME NEW S, NEW N \in Nat, NEW seqs, seqs \in [1..N -> Seq(S)]
  PROVE  /\ FlattenSeq(seqs) \in Seq(S)
         /\ \A m \in DOMAIN FlattenSeq(seqs) : \E n \in 1..N : \E k \in DOMAIN seqs[n] :
              FlattenSeq(seqs)[m] = seqs[n][k]
<1>1. seqs \in Seq(Seq(S)) /\ Len(seqs) = N
  BY FunctionIsSeq
<1>2. FlattenSeq(seqs) \in Seq(S) /\ \E from : ComesFrom(seqs, FlattenSeq(seqs), from, N)
  BY <1>1, FlattenFacts
<1> QED BY <1>2 DEF ComesFrom

LEMMA TracksListed ==
  /\ Len(SetToSeq(Tracks)) \in Nat
  /\ SetToSeq(Tracks) \in [1..Len(SetToSeq(Tracks)) -> Tracks]
<1> DEFINE N == Cardinality(Tracks)
<1>1. N \in Nat
  BY OracleAssumption, FS_CardinalityType
<1>2. PICK n \in Nat : ExistsBijection(1..n, Tracks)
  BY OracleAssumption, FS_NatBijection
<1>3. n = N
  BY <1>2, FS_CountingElements
<1>4. \E f \in [1..N -> Tracks] : IsInjective(f)
  BY <1>2, <1>3 DEF ExistsBijection, Bijection, Injection
<1>5. SetToSeq(Tracks) \in [1..N -> Tracks]
  BY <1>4 DEF SetToSeq
<1> HIDE DEF N
<1>6. Len(SetToSeq(Tracks)) = N
  BY <1>1, <1>5, FunctionIsSeq
<1> QED BY <1>1, <1>5, <1>6

LEMMA EventIs ==
  ASSUME NEW k, NEW track, NEW c, NEW offset
  PROVE  /\ Event(k, track, c, offset).kind = k
         /\ Event(k, track, c, offset).track = track
         /\ Event(k, track, c, offset).call = c.call
         /\ k = "end" => Event(k, track, c, offset).sequence = None
BY DEF Event

(* What a chunk closes at its end, and reopens at the start of the next.    *)
LEMMA ClosesAre ==
  ASSUME Stacks(active)
  PROVE  /\ \E E : Closes(SetToSeq(Tracks)) \in Seq(E)
         /\ \A m \in DOMAIN Closes(SetToSeq(Tracks)) :
              /\ Closes(SetToSeq(Tracks))[m].track \in Tracks
              /\ Closes(SetToSeq(Tracks))[m].kind = "end"
              /\ Closes(SetToSeq(Tracks))[m].sequence = None
<1> DEFINE tracks == SetToSeq(Tracks)
           N      == Len(tracks)
           seqs   == [n \in DOMAIN tracks |->
                        LET s == active[tracks[n]]
                        IN  [k \in DOMAIN s |-> Event("end", tracks[n], Reverse(s)[k], k)]]
           E      == UNION {{seqs[n][k] : k \in DOMAIN seqs[n]} : n \in 1..N}
<1>1. N \in Nat /\ tracks \in [1..N -> Tracks] /\ DOMAIN tracks = 1..N
  BY TracksListed
<1>2. PICK A : active \in [Tracks -> Seq(A)]
  BY DEF Stacks
<1>3. \A n \in 1..N : Len(active[tracks[n]]) \in Nat
                      /\ DOMAIN active[tracks[n]] = 1..Len(active[tracks[n]])
  BY <1>1, <1>2, LenProperties
<1>4. \A n \in 1..N : /\ DOMAIN seqs[n] = DOMAIN active[tracks[n]]
                      /\ seqs[n] = [k \in DOMAIN active[tracks[n]] |-> seqs[n][k]]
                      /\ \A k \in DOMAIN seqs[n] :
                           /\ seqs[n][k].track = tracks[n] /\ seqs[n][k].kind = "end"
                           /\ seqs[n][k].sequence = None
  BY <1>1, EventIs
<1>5. seqs = [n \in 1..N |-> seqs[n]]
  BY <1>1
<1>6. Closes(tracks) = FlattenSeq(seqs)
  BY DEF Closes
<1> HIDE DEF tracks, N, seqs
<1>7. ASSUME NEW n \in 1..N PROVE seqs[n] \in Seq(E)
  <2>1. \A k \in DOMAIN seqs[n] : seqs[n][k] \in E
    OBVIOUS
  <2> HIDE DEF E
  <2>2. seqs[n] \in [1..Len(active[tracks[n]]) -> E]
    BY <1>3, <1>4, <2>1
  <2> QED BY <1>3, <2>2, FunctionIsSeq
<1> HIDE DEF E
<1>8. seqs \in [1..N -> Seq(E)]
  BY <1>5, <1>7
<1>9. /\ Closes(tracks) \in Seq(E)
      /\ \A m \in DOMAIN Closes(tracks) : \E n \in 1..N : \E k \in DOMAIN seqs[n] :
           Closes(tracks)[m] = seqs[n][k]
  <2> HIDE DEF E
  <2>1. N \in Nat
    BY <1>1
  <2>2. /\ FlattenSeq(seqs) \in Seq(E)
        /\ \A m \in DOMAIN FlattenSeq(seqs) : \E n \in 1..N : \E k \in DOMAIN seqs[n] :
             FlattenSeq(seqs)[m] = seqs[n][k]
    BY <1>8, <2>1, FlatIs
  <2> QED BY <1>6, <2>2
<1>10. \A m \in DOMAIN Closes(tracks) :
         /\ Closes(tracks)[m].track \in Tracks /\ Closes(tracks)[m].kind = "end"
         /\ Closes(tracks)[m].sequence = None
  <2> TAKE m \in DOMAIN Closes(tracks)
  <2>1. PICK n \in 1..N : \E k \in DOMAIN seqs[n] : Closes(tracks)[m] = seqs[n][k]
    BY <1>9
  <2>2. PICK k \in DOMAIN seqs[n] : Closes(tracks)[m] = seqs[n][k]
    BY <2>1
  <2>3. /\ tracks[n] \in Tracks /\ seqs[n][k].track = tracks[n] /\ seqs[n][k].kind = "end"
        /\ seqs[n][k].sequence = None
    BY <1>1, <1>4
  <2> QED BY <2>2, <2>3
<1> QED BY <1>9, <1>10 DEF tracks

LEMMA ReopensAre ==
  ASSUME Stacks(active)
  PROVE  LET opened == Reopens(SetToSeq(Tracks))
         IN  /\ \E E : opened \in Seq(E)
             /\ \A m \in DOMAIN opened :
                  \E track \in Tracks : \E c, k : opened[m] = Event("reopen", track, c, k)
<1> DEFINE tracks == SetToSeq(Tracks)
           N      == Len(tracks)
           seqs   == [n \in DOMAIN tracks |->
                        LET s == active[tracks[n]]
                        IN  [k \in DOMAIN s |-> Event("reopen", tracks[n], s[k], k)]]
           E      == UNION {{seqs[n][k] : k \in DOMAIN seqs[n]} : n \in 1..N}
<1>1. N \in Nat /\ tracks \in [1..N -> Tracks] /\ DOMAIN tracks = 1..N
  BY TracksListed
<1>2. PICK A : active \in [Tracks -> Seq(A)]
  BY DEF Stacks
<1>3. \A n \in 1..N : Len(active[tracks[n]]) \in Nat
                      /\ DOMAIN active[tracks[n]] = 1..Len(active[tracks[n]])
  BY <1>1, <1>2, LenProperties
<1>4. \A n \in 1..N : /\ DOMAIN seqs[n] = DOMAIN active[tracks[n]]
                      /\ seqs[n] = [k \in DOMAIN active[tracks[n]] |-> seqs[n][k]]
                      /\ \A k \in DOMAIN seqs[n] :
                           seqs[n][k] = Event("reopen", tracks[n], active[tracks[n]][k], k)
  BY <1>1
<1>5. seqs = [n \in 1..N |-> seqs[n]]
  BY <1>1
<1>6. Reopens(tracks) = FlattenSeq(seqs)
  BY DEF Reopens
<1> HIDE DEF tracks, N, seqs
<1>7. ASSUME NEW n \in 1..N PROVE seqs[n] \in Seq(E)
  <2>1. \A k \in DOMAIN seqs[n] : seqs[n][k] \in E
    OBVIOUS
  <2> HIDE DEF E
  <2>2. seqs[n] \in [1..Len(active[tracks[n]]) -> E]
    BY <1>3, <1>4, <2>1
  <2> QED BY <1>3, <2>2, FunctionIsSeq
<1> HIDE DEF E
<1>8. seqs \in [1..N -> Seq(E)]
  BY <1>5, <1>7
<1>9. /\ Reopens(tracks) \in Seq(E)
      /\ \A m \in DOMAIN Reopens(tracks) : \E n \in 1..N : \E k \in DOMAIN seqs[n] :
           Reopens(tracks)[m] = seqs[n][k]
  <2> HIDE DEF E
  <2>1. N \in Nat
    BY <1>1
  <2>2. /\ FlattenSeq(seqs) \in Seq(E)
        /\ \A m \in DOMAIN FlattenSeq(seqs) : \E n \in 1..N : \E k \in DOMAIN seqs[n] :
             FlattenSeq(seqs)[m] = seqs[n][k]
    BY <1>8, <2>1, FlatIs
  <2> QED BY <1>6, <2>2
<1>10. ASSUME NEW m \in DOMAIN Reopens(tracks)
       PROVE  \E track \in Tracks : \E c, k : Reopens(tracks)[m] = Event("reopen", track, c, k)
  <2>1. PICK n \in 1..N : \E k \in DOMAIN seqs[n] : Reopens(tracks)[m] = seqs[n][k]
    BY <1>9
  <2>2. PICK k \in DOMAIN seqs[n] : Reopens(tracks)[m] = seqs[n][k]
    BY <2>1
  <2>3. tracks[n] \in Tracks /\ Reopens(tracks)[m] = Event("reopen", tracks[n], active[tracks[n]][k], k)
    BY <1>1, <1>4, <2>2
  <2> QED BY <2>3
<1> QED BY <1>9, <1>10 DEF tracks

LEMMA RecordIs ==
  ASSUME Recorded, NEW E, NEW events \in Seq(E), NEW l \in Nat, calls <= l,
         \A n \in DOMAIN events :
           Fits(events[n], calls, l) /\ (events[n].kind = "enter" => n = 1),
         Record(events)
  PROVE  ChunksFit(chunks', l) /\ Len(chunks') > 0
<1>1. /\ calls \in Nat /\ Len(chunks) > 0 /\ ChunksFit(chunks, calls)
      /\ chunks' = [chunks EXCEPT ![Len(chunks)] = @ \o events]
  BY DEF Recorded, Record
<1>2. /\ ChunksFit([chunks EXCEPT ![Len(chunks)] = @ \o events], l)
      /\ Len([chunks EXCEPT ![Len(chunks)] = @ \o events]) = Len(chunks)
  BY <1>1, ChunksExtended
<1> QED BY <1>1, <1>2

LEMMA EnterRecords ==
  ASSUME Recorded, NEW track \in Tracks, NEW function, Enter(track, function)
  PROVE  Recorded'
<1> DEFINE c == [call |-> calls + 1, function |-> function]
           e == Event("enter", track, c, 1)
<1>1. /\ calls' = calls + 1 /\ active' = [active EXCEPT ![track] = Append(active[track], c)]
      /\ Record(<<e>>)
  BY DEF Enter
<1>2. calls \in Nat
  BY DEF Recorded
<1>3. Fits(e, calls, calls + 1) /\ e.kind = "enter"
  BY <1>2, EventIs DEF Fits
<1> HIDE DEF e
<1> DEFINE events == <<e>>
<1>4. /\ events \in Seq({e}) /\ Record(events)
      /\ \A n \in DOMAIN events : n = 1 /\ events[n] = e
  BY <1>1
<1> HIDE DEF events
<1>a. /\ calls + 1 \in Nat /\ calls <= calls + 1
      /\ \A n \in DOMAIN events :
           Fits(events[n], calls, calls + 1) /\ (events[n].kind = "enter" => n = 1)
  BY <1>2, <1>3, <1>4
<1>5. ChunksFit(chunks', calls + 1) /\ Len(chunks') > 0
  BY <1>4, <1>a, RecordIs
<1> HIDE DEF c
<1>6. Stacks(active')
  <2>1. PICK A : active \in [Tracks -> Seq(A)]
    BY DEF Recorded, Stacks
  <2>2. active[track] \in Seq(A \cup {c})
    <3>1. A \subseteq A \cup {c}
      OBVIOUS
    <3> QED BY <2>1, <3>1, SeqMonotonic
  <2>3. Append(active[track], c) \in Seq(A \cup {c})
    BY <2>2, AppendProperties
  <2>4. active' \in [Tracks -> Seq(A \cup (A \cup {c}))]
    BY <1>1, <2>1, <2>3, StackReplaced
  <2> QED BY <2>4 DEF Stacks
<1> QED BY <1>1, <1>2, <1>5, <1>6 DEF Recorded

(* A call that returns leaves the stack, whatever is recorded of it.        *)
LEMMA ReturnRecords ==
  ASSUME Recorded, NEW track \in Tracks, active[track] # <<>>,
         active' = [active EXCEPT ![track] = Front(@)], calls' = calls,
         NEW E, NEW events \in Seq(E),
         \A n \in DOMAIN events : events[n].track \in Tracks /\ events[n].kind # "enter",
         Record(events)
  PROVE  Recorded'
<1>1. calls \in Nat /\ calls <= calls
  BY DEF Recorded
<1>2. \A n \in DOMAIN events : Fits(events[n], calls, calls) /\ (events[n].kind = "enter" => n = 1)
  BY DEF Fits
<1>3. ChunksFit(chunks', calls) /\ Len(chunks') > 0
  BY <1>1, <1>2, RecordIs
<1>4. Stacks(active')
  <2>1. PICK A : active \in [Tracks -> Seq(A)]
    BY DEF Recorded, Stacks
  <2>2. Front(active[track]) \in Seq(A)
    BY <2>1, FrontIs
  <2>3. active' \in [Tracks -> Seq(A \cup A)]
    BY <2>1, <2>2, StackReplaced
  <2> QED BY <2>3 DEF Stacks
<1> QED BY <1>1, <1>3, <1>4 DEF Recorded

LEMMA ReturnsRecord ==
  ASSUME Recorded, NEW track \in Tracks,
         \/ Return(track) \/ ReturnUnprobed(track)
         \/ \E f \in {"twice", "unended"} : ReturnMalformed(track, f)
  PROVE  Recorded'
<1> DEFINE c      == Last(active[track])
           p(k)   == Event("probe", track, c, k)
           e(k)   == Event("end", track, c, k)
<1>1. \A k : /\ p(k).track \in Tracks /\ p(k).kind # "enter"
             /\ e(k).track \in Tracks /\ e(k).kind # "enter"
  BY EventIs
<1>2. CASE Return(track)
  <2> DEFINE events == <<p(1), e(2)>>
  <2>1. /\ active[track] # <<>> /\ active' = [active EXCEPT ![track] = Front(@)]
        /\ calls' = calls /\ Record(events)
    BY <1>2 DEF Return
  <2> HIDE DEF p, e
  <2>2. events \in Seq({p(1), e(2)}) /\ \A n \in DOMAIN events : events[n] \in {p(1), e(2)}
    OBVIOUS
  <2>3. \A n \in DOMAIN events : events[n].track \in Tracks /\ events[n].kind # "enter"
    BY <1>1, <2>2
  <2> HIDE DEF events
  <2> QED BY <2>1, <2>2, <2>3, ReturnRecords
<1>3. CASE ReturnUnprobed(track)
  <2> DEFINE events == <<e(1)>>
  <2>1. /\ active[track] # <<>> /\ active' = [active EXCEPT ![track] = Front(@)]
        /\ calls' = calls /\ Record(events)
    BY <1>3 DEF ReturnUnprobed
  <2> HIDE DEF p, e
  <2>2. events \in Seq({e(1)}) /\ \A n \in DOMAIN events : events[n] \in {e(1)}
    OBVIOUS
  <2>3. \A n \in DOMAIN events : events[n].track \in Tracks /\ events[n].kind # "enter"
    BY <1>1, <2>2
  <2> HIDE DEF events
  <2> QED BY <2>1, <2>2, <2>3, ReturnRecords
<1>4. ASSUME NEW f \in {"twice", "unended"}, ReturnMalformed(track, f) PROVE Recorded'
  <2> DEFINE events == IF f = "twice" THEN <<p(1), p(2), e(3)>> ELSE <<p(1)>>
  <2>1. /\ active[track] # <<>> /\ active' = [active EXCEPT ![track] = Front(@)]
        /\ calls' = calls /\ Record(events)
    BY <1>4 DEF ReturnMalformed
  <2> HIDE DEF p, e
  <2>2. /\ events \in Seq({p(1), p(2), e(3)})
        /\ \A n \in DOMAIN events : events[n] \in {p(1), p(2), e(3)}
    <3>1. CASE f = "twice"
      <4>1. events = <<p(1), p(2), e(3)>>
        BY <3>1
      <4> HIDE DEF events
      <4>2. /\ <<p(1), p(2), e(3)>> \in Seq({p(1), p(2), e(3)})
            /\ \A n \in DOMAIN <<p(1), p(2), e(3)>> : <<p(1), p(2), e(3)>>[n] \in {p(1), p(2), e(3)}
        OBVIOUS
      <4> QED BY <4>1, <4>2
    <3>2. CASE f # "twice"
      <4>1. events = <<p(1)>>
        BY <3>2
      <4> HIDE DEF events
      <4>2. /\ <<p(1)>> \in Seq({p(1), p(2), e(3)})
            /\ \A n \in DOMAIN <<p(1)>> : <<p(1)>>[n] \in {p(1), p(2), e(3)}
        OBVIOUS
      <4> QED BY <4>1, <4>2
    <3> QED BY <3>1, <3>2
  <2>3. \A n \in DOMAIN events : events[n].track \in Tracks /\ events[n].kind # "enter"
    BY <1>1, <2>2
  <2> HIDE DEF events
  <2> QED BY <2>1, <2>2, <2>3, ReturnRecords
<1> QED BY <1>2, <1>3, <1>4

LEMMA DropRecords == ASSUME Recorded, Drop PROVE Recorded'
<1>1. PICK S : chunks \in Seq(Seq(S))
  BY DEF Recorded, ChunksFit
<1> DEFINE N    == Len(chunks)
           last == chunks[N]
           f    == [i \in 1..N |-> i]
<1>2. /\ N \in Nat /\ N \in 1..N /\ DOMAIN chunks = 1..N
      /\ \A i \in DOMAIN chunks : chunks[i] \in Seq(S)
  BY <1>1, ChunksTyped DEF Recorded
<1>3. last # <<>> /\ chunks' = [chunks EXCEPT ![N] = Front(last)]
  BY DEF Drop, Last
<1>4. /\ Front(last) \in Seq(S)
      /\ \A n \in DOMAIN Front(last) : n \in DOMAIN last /\ Front(last)[n] = last[n]
  BY <1>2, <1>3, FrontIs
<1>5. /\ chunks' \in Seq(Seq(S)) /\ Len(chunks') = N
      /\ \A i \in 1..N : chunks'[i] = IF i = N THEN Front(last) ELSE chunks[i]
  BY <1>1, <1>2, <1>3, <1>4, ExceptSeq
<1>6. DOMAIN chunks' = 1..N
  BY <1>5, LenProperties
<1>7. PICK ds : ds = chunks'
  OBVIOUS
<1>8. calls \in Nat /\ ChunksFit(chunks, calls) /\ Len(chunks) > 0
  BY DEF Recorded
<1> HIDE DEF N, last
<1>9. ChunksFit(ds, calls)
  <2>1. ds \in Seq(Seq(S)) /\ DOMAIN ds = 1..N
        /\ \A i \in 1..N : ds[i] = IF i = N THEN Front(last) ELSE chunks[i]
    BY <1>5, <1>6, <1>7
  <2>2. \A i \in DOMAIN ds : \A n \in DOMAIN ds[i] :
           f[i] \in DOMAIN chunks /\ n \in DOMAIN chunks[f[i]] /\ ds[i][n] = chunks[f[i]][n]
    BY <1>2, <1>4, <2>1 DEF last
  <2>3. \A i, j \in DOMAIN ds : f[i] = f[j] => i = j
    BY <2>1
  <2> HIDE DEF f
  <2>4. Taken(ds, chunks, f)
    BY <2>2, <2>3 DEF Taken
  <2> QED BY <1>8, <2>1, <2>4, ChunksTaken
<1>10. chunks' = ds /\ Len(ds) > 0 /\ calls' = calls /\ active' = active
  BY <1>2, <1>5, <1>7 DEF Drop
<1> QED BY <1>8, <1>9, <1>10 DEF Recorded

LEMMA CrashRecords == ASSUME Recorded, Crash PROVE Recorded'
<1>1. <<>> \in Seq({}) /\ DOMAIN <<>> = {}
  OBVIOUS
<1>2. calls \in Nat /\ ChunksFit(chunks, calls) /\ Len(chunks) > 0
  BY DEF Recorded
<1>3. ChunksFit(Append(chunks, <<>>), calls) /\ Len(Append(chunks, <<>>)) = Len(chunks) + 1
  BY <1>1, <1>2, ChunkAdded
<1>4. Len(chunks) \in Nat
  BY <1>2, ChunksTyped DEF ChunksFit
<1>5. Stacks(active')
  <2>1. active' \in [Tracks -> Seq({})]
    BY <1>1 DEF Crash
  <2> QED BY <2>1 DEF Stacks
<1> QED BY <1>2, <1>3, <1>4, <1>5 DEF Crash, Recorded

(* The last of the chunks is extended.                                      *)
LEMMA LastGrown ==
  ASSUME NEW S, NEW cs \in Seq(Seq(S)), Len(cs) > 0, NEW E, NEW ev \in Seq(E)
  PROVE  /\ Front(cs) \o <<Last(cs) \o ev>> = [cs EXCEPT ![Len(cs)] = @ \o ev]
         /\ \E D : [cs EXCEPT ![Len(cs)] = @ \o ev] \in Seq(Seq(D))
<1> DEFINE N      == Len(cs)
           last   == cs[N]
           closed == [cs EXCEPT ![Len(cs)] = @ \o ev]
           T      == S \cup E
           new    == last \o ev
<1>0. /\ N \in Nat /\ N \in 1..N /\ DOMAIN cs = 1..N /\ cs # <<>>
      /\ \A i \in DOMAIN cs : cs[i] \in Seq(S)
  BY ChunksTyped
<1>1. Seq(S) \subseteq Seq(T) /\ ev \in Seq(T)
  <2>1. S \subseteq T /\ E \subseteq T
    OBVIOUS
  <2> QED BY <2>1, SeqMonotonic
<1>2. last \in Seq(T) /\ cs \in Seq(Seq(T))
  <2> HIDE DEF T
  <2>1. last \in Seq(T)
    BY <1>0, <1>1
  <2>2. cs \in Seq(Seq(T))
    BY <1>1, SeqMonotonic
  <2> QED BY <2>1, <2>2
<1> HIDE DEF T
<1>3. new \in Seq(T)
  BY <1>1, <1>2, ConcatProperties
<1>4. /\ closed \in Seq(Seq(T)) /\ Len(closed) = N
      /\ \A i \in 1..N : closed[i] = IF i = N THEN new ELSE cs[i]
  <2>1. closed = [cs EXCEPT ![N] = new]
    OBVIOUS
  <2> HIDE DEF new, closed
  <2> QED BY <1>0, <1>2, <1>3, <2>1, ExceptSeq
<1> HIDE DEF new, closed
<1>5. /\ Front(cs) \in Seq(Seq(T)) /\ Len(Front(cs)) = N - 1
      /\ \A i \in 1..(N - 1) : Front(cs)[i] = cs[i]
  BY <1>0, <1>2, FrontIs
<1>6. <<new>> \in Seq(Seq(T)) /\ Len(<<new>>) = 1 /\ <<new>>[1] = new
  BY <1>3
<1> HIDE DEF N
<1>7. /\ Front(cs) \o <<new>> \in Seq(Seq(T)) /\ Len(Front(cs) \o <<new>>) = N
      /\ \A i \in 1..N : (Front(cs) \o <<new>>)[i] = IF i <= N - 1 THEN Front(cs)[i]
                                                          ELSE <<new>>[i - (N - 1)]
  <2> DEFINE f == Front(cs)
             w == <<new>>
             SS == Seq(T)
  <2>1. (N - 1) + 1 = N /\ N - 1 \in Nat
    BY <1>0
  <2>2. f \in Seq(SS) /\ Len(f) = N - 1 /\ w \in Seq(SS) /\ Len(w) = 1
    BY <1>5, <1>6
  <2> HIDE DEF f, w, SS
  <2>3. /\ f \o w \in Seq(SS) /\ Len(f \o w) = Len(f) + Len(w)
        /\ \A i \in 1..(Len(f) + Len(w)) :
             (f \o w)[i] = IF i <= Len(f) THEN f[i] ELSE w[i - Len(f)]
    BY <2>2, ConcatProperties
  <2>4. /\ f \o w \in Seq(SS) /\ Len(f \o w) = N
        /\ \A i \in 1..N : (f \o w)[i] = IF i <= N - 1 THEN f[i] ELSE w[i - (N - 1)]
    BY <2>1, <2>2, <2>3
  <2> QED BY <2>4 DEF f, w, SS
<1>8. \A i \in 1..N : (Front(cs) \o <<new>>)[i] = closed[i]
  <2> TAKE i \in 1..N
  <2>1. CASE i = N
    <3>1. ~(N <= N - 1) /\ N - (N - 1) = 1
      BY <1>0
    <3> QED BY <1>0, <1>4, <1>6, <1>7, <2>1, <3>1
  <2>2. CASE i # N
    <3>1. i <= N - 1 /\ i \in 1..(N - 1)
      BY <1>0, <2>2
    <3> QED BY <1>0, <1>4, <1>5, <1>7, <2>2, <3>1
  <2> QED BY <2>1, <2>2
<1>9. Front(cs) \o <<new>> = closed
  BY <1>4, <1>7, <1>8, SeqEqual
<1>10. closed \in Seq(Seq(T))
  BY <1>4
<1> QED BY <1>9, <1>10 DEF new, closed, N, Last

LEMMA RotateRecords == ASSUME Recorded, Rotate PROVE Recorded'
<1>1. PICK S : chunks \in Seq(Seq(S))
  BY DEF Recorded, ChunksFit
<1> DEFINE N      == Len(chunks)
           last   == chunks[N]
           tracks == SetToSeq(Tracks)
           closes == Closes(tracks)
           opened == Reopens(tracks)
           reopened == [m \in DOMAIN opened |-> [opened[m] EXCEPT !.sequence = SequenceNow + Len(closes) + m]]
           closed == [chunks EXCEPT ![Len(chunks)] = @ \o closes]
<1>2. /\ N \in Nat /\ N \in 1..N /\ DOMAIN chunks = 1..N /\ chunks # <<>>
      /\ \A i \in DOMAIN chunks : chunks[i] \in Seq(S)
  BY <1>1, ChunksTyped DEF Recorded
<1>3. calls \in Nat /\ ChunksFit(chunks, calls) /\ Len(chunks) > 0 /\ Stacks(active)
  BY DEF Recorded
<1>4. PICK E : closes \in Seq(E)
  BY <1>3, ClosesAre
<1>5. \A m \in DOMAIN closes : closes[m].track \in Tracks /\ closes[m].kind = "end"
  BY <1>3, ClosesAre
<1>6. chunks' = Append(Front(chunks) \o <<last \o closes>>, reopened)
  BY DEF Rotate, Last
<1> HIDE DEF closes
<1>7. ChunksFit(closed, calls) /\ Len(closed) = N
  <2>1. \A n \in DOMAIN closes : Fits(closes[n], calls, calls)
                                 /\ (closes[n].kind = "enter" => n = 1)
    BY <1>5 DEF Fits
  <2>2. calls <= calls
    BY <1>3
  <2> QED BY <1>3, <1>4, <2>1, <2>2, ChunksExtended
<1>8. Front(chunks) \o <<last \o closes>> = closed
  <2>1. PICK cs : cs = chunks
    OBVIOUS
  <2>2. cs \in Seq(Seq(S)) /\ Len(cs) > 0
    BY <1>1, <1>3, <2>1
  <2>3. Front(cs) \o <<Last(cs) \o closes>> = [cs EXCEPT ![Len(cs)] = @ \o closes]
    BY <1>4, <2>2, LastGrown
  <2> QED BY <2>1, <2>3 DEF Last
<1>9. /\ \E F : reopened \in Seq(F)
      /\ \A n \in DOMAIN reopened : reopened[n].track \in Tracks /\ reopened[n].kind # "enter"
  <2>1. PICK F : opened \in Seq(F)
    BY <1>3, ReopensAre
  <2>2. DOMAIN opened = 1..Len(opened) /\ Len(opened) \in Nat
    BY <2>1, LenProperties
  <2> DEFINE G == {reopened[m] : m \in DOMAIN opened}
  <2>3. /\ DOMAIN reopened = DOMAIN opened /\ \A m \in DOMAIN opened : reopened[m] \in G
        /\ reopened = [m \in DOMAIN opened |-> reopened[m]]
    OBVIOUS
  <2>4. ASSUME NEW n \in DOMAIN opened
        PROVE  reopened[n].track \in Tracks /\ reopened[n].kind # "enter"
    <3>1. PICK track \in Tracks : \E c, k : opened[n] = Event("reopen", track, c, k)
      BY <1>3, ReopensAre
    <3>2. PICK c, k : opened[n] = Event("reopen", track, c, k)
      BY <3>1
    <3> HIDE DEF opened
    <3> DEFINE q == SequenceNow + Len(closes) + n
    <3>3. reopened[n] = [opened[n] EXCEPT !.sequence = q]
      OBVIOUS
    <3> HIDE DEF q, reopened
    <3>4. reopened[n].track = track /\ reopened[n].kind = "reopen"
      BY <3>2, <3>3 DEF Event
    <3> QED BY <3>4
  <2> HIDE DEF reopened, G, opened
  <2>5. reopened \in [1..Len(opened) -> G]
    BY <2>2, <2>3
  <2>6. reopened \in Seq(G)
    BY <2>2, <2>5, FunctionIsSeq
  <2> QED BY <2>3, <2>4, <2>6
<1>10. chunks' = Append(closed, reopened)
  BY <1>6, <1>8
<1> HIDE DEF reopened, closed
<1>11. ChunksFit(chunks', calls) /\ Len(chunks') = N + 1
  BY <1>3, <1>7, <1>9, <1>10, ChunkAdded
<1> QED BY <1>2, <1>3, <1>11 DEF Rotate, Recorded

LEMMA RemovedIs ==
  ASSUME NEW S, NEW s \in Seq(S), NEW n \in DOMAIN s
  PROVE  /\ RemoveAt(s, n) \in Seq(S) /\ Len(RemoveAt(s, n)) = Len(s) - 1
         /\ DOMAIN RemoveAt(s, n) = 1..(Len(s) - 1) /\ Len(s) \in Nat /\ DOMAIN s = 1..Len(s)
         /\ \A i \in 1..(Len(s) - 1) : RemoveAt(s, n)[i] = s[IF i < n THEN i ELSE i + 1]
<1> DEFINE N == Len(s)
           a == SubSeq(s, 1, n - 1)
           b == SubSeq(s, n + 1, Len(s))
<1>1. N \in Nat /\ DOMAIN s = 1..N /\ \A i \in 1..N : s[i] \in S
  BY LenProperties, ElementOfSeq
<1>2. n \in 1..N
  BY <1>1
<1>3. /\ a \in Seq(S) /\ Len(a) = n - 1 /\ \A i \in 1..(n - 1) : a[i] = s[i]
  <2>1. \A i \in 1..(n - 1) : s[i] \in S
    BY <1>1, <1>2
  <2>2. /\ a \in Seq(S) /\ Len(a) = IF 1 <= n - 1 THEN (n - 1) - 1 + 1 ELSE 0
        /\ \A i \in 1..((n - 1) - 1 + 1) : a[i] = s[1 + i - 1]
    BY <1>2, <2>1, SubSeqProperties
  <2> HIDE DEF a
  <2> QED BY <1>2, <2>2
<1>4. /\ b \in Seq(S) /\ Len(b) = N - n /\ \A i \in 1..(N - n) : b[i] = s[n + i]
  <2>1. \A i \in (n + 1)..N : s[i] \in S
    BY <1>1, <1>2
  <2>2. /\ b \in Seq(S) /\ Len(b) = IF n + 1 <= N THEN N - (n + 1) + 1 ELSE 0
        /\ \A i \in 1..(N - (n + 1) + 1) : b[i] = s[(n + 1) + i - 1]
    BY <1>1, <1>2, <2>1, SubSeqProperties
  <2> HIDE DEF b
  <2>3. Len(b) = N - n
    BY <1>1, <1>2, <2>2
  <2>4. ASSUME NEW i \in 1..(N - n) PROVE b[i] = s[n + i]
    <3>1. i \in 1..(N - (n + 1) + 1) /\ (n + 1) + i - 1 = n + i
      BY <1>1, <1>2
    <3> QED BY <2>2, <3>1
  <2> QED BY <2>2, <2>3, <2>4
<1>5. RemoveAt(s, n) = a \o b
  BY DEF RemoveAt
<1> HIDE DEF a, b
<1>6. /\ a \o b \in Seq(S) /\ Len(a \o b) = Len(a) + Len(b)
      /\ \A i \in 1..(Len(a) + Len(b)) : (a \o b)[i] = IF i <= Len(a) THEN a[i] ELSE b[i - Len(a)]
  BY <1>3, <1>4, ConcatProperties
<1>7. DOMAIN (a \o b) = 1..Len(a \o b)
  BY <1>6, LenProperties
<1>8. Len(a) + Len(b) = N - 1
  BY <1>1, <1>2, <1>3, <1>4
<1>9. ASSUME NEW i \in 1..(N - 1) PROVE (a \o b)[i] = s[IF i < n THEN i ELSE i + 1]
  <2>1. CASE i < n
    <3>1. i <= Len(a) /\ i \in 1..(n - 1)
      BY <1>2, <1>3, <2>1
    <3> QED BY <1>3, <1>6, <1>8, <2>1, <3>1
  <2>2. CASE ~(i < n)
    <3>1. ~(i <= Len(a)) /\ i - Len(a) \in 1..(N - n) /\ n + (i - Len(a)) = i + 1
      BY <1>1, <1>2, <1>3, <2>2
    <3> QED BY <1>4, <1>6, <1>8, <2>2, <3>1
  <2> QED BY <2>1, <2>2
<1> QED BY <1>1, <1>5, <1>6, <1>7, <1>8, <1>9

----------------------------------------------------------------------------
(* The table: every entry in it is of a call of its own.                    *)
EntriesFit(rs) ==
  /\ \E S : rs \in Seq(S)
  /\ \A n \in DOMAIN rs : rs[n].track \in Tracks
  /\ \A n, m \in DOMAIN rs :
       rs[n].kind = "enter" /\ rs[m].kind = "enter" /\ rs[n].call = rs[m].call => n = m

LEMMA LastRemoved ==
  ASSUME NEW S, NEW s \in Seq(S), Len(s) \in DOMAIN s
  PROVE  RemoveAt(s, Len(s)) = Front(s)
<1> DEFINE a == RemoveAt(s, Len(s))
           f == Front(s)
<1>1. /\ a \in Seq(S) /\ DOMAIN a = 1..(Len(s) - 1) /\ Len(s) \in Nat
      /\ \A i \in 1..(Len(s) - 1) : a[i] = s[IF i < Len(s) THEN i ELSE i + 1]
  BY RemovedIs
<1>2. s # <<>>
  OBVIOUS
<1>3. /\ f \in Seq(S) /\ Len(f) = Len(s) - 1
      /\ \A i \in 1..(Len(s) - 1) : f[i] = s[i]
  BY <1>2, FrontIs
<1>4. DOMAIN f = 1..(Len(s) - 1)
  BY <1>3, LenProperties
<1> HIDE DEF a, f
<1>5. \A i \in 1..(Len(s) - 1) : a[i] = f[i]
  BY <1>1, <1>3
<1>6. a = [i \in 1..(Len(s) - 1) |-> a[i]] /\ f = [i \in 1..(Len(s) - 1) |-> f[i]]
  BY <1>1, <1>3, <1>4
<1> QED BY <1>5, <1>6 DEF a, f

LEMMA RowsAre ==
  ASSUME NEW cs, NEW k \in Nat, ChunksFit(cs, k)
  PROVE  EntriesFit(Rows(cs))
<1>1. PICK S : cs \in Seq(Seq(S))
  BY DEF ChunksFit
<1> DEFINE row(s, n) == [kind |-> cs[s][n].kind, track |-> cs[s][n].track,
                         call |-> cs[s][n].call, function |-> cs[s][n].function,
                         id |-> cs[s][n].id, sequence |-> cs[s][n].sequence, source |-> s]
           seqs == [s \in DOMAIN cs |-> [n \in DOMAIN cs[s] |-> row(s, n)]]
           E    == UNION {{row(s, n) : n \in DOMAIN cs[s]} : s \in DOMAIN cs}
           flat == FlattenSeq(seqs)
<1>2. /\ Len(cs) \in Nat /\ DOMAIN cs = 1..Len(cs)
      /\ \A i \in DOMAIN cs : Len(cs[i]) \in Nat /\ DOMAIN cs[i] = 1..Len(cs[i])
  BY <1>1, ChunksTyped
<1>3. Rows(cs) = flat
  BY DEF Rows
<1>4. \A s, n : /\ row(s, n).kind = cs[s][n].kind /\ row(s, n).track = cs[s][n].track
                /\ row(s, n).call = cs[s][n].call
  OBVIOUS
<1>5. \A s \in DOMAIN cs : \A n \in DOMAIN cs[s] : row(s, n) \in E
  OBVIOUS
<1> HIDE DEF row, E
<1>6. ASSUME NEW s \in DOMAIN cs
      PROVE  /\ seqs[s] \in Seq(E) /\ DOMAIN seqs[s] = DOMAIN cs[s]
             /\ \A n \in DOMAIN cs[s] : seqs[s][n] = row(s, n)
  <2>1. seqs[s] = [n \in DOMAIN cs[s] |-> row(s, n)]
    OBVIOUS
  <2> HIDE DEF seqs
  <2>2. seqs[s] \in [1..Len(cs[s]) -> E]
    BY <1>2, <1>5, <2>1
  <2> QED BY <1>2, <2>1, <2>2, FunctionIsSeq
<1>7. seqs = [s \in 1..Len(cs) |-> seqs[s]]
  BY <1>2
<1> HIDE DEF seqs
<1>8. seqs \in [1..Len(cs) -> Seq(E)]
  BY <1>2, <1>6, <1>7
<1>9. seqs \in Seq(Seq(E)) /\ Len(seqs) = Len(cs)
  BY <1>2, <1>8, FunctionIsSeq
<1>10. flat \in Seq(E) /\ \E from : ComesFrom(seqs, flat, from, Len(cs))
  BY <1>9, FlattenFacts
<1> HIDE DEF flat
<1>11. PICK from : ComesFrom(seqs, flat, from, Len(cs))
  BY <1>10
<1>12. ASSUME NEW n \in DOMAIN flat
       PROVE  /\ from[n][1] \in DOMAIN cs /\ from[n][2] \in DOMAIN cs[from[n][1]]
              /\ flat[n] = row(from[n][1], from[n][2])
  <2>1. /\ from[n][1] \in 1..Len(cs) /\ from[n][2] \in DOMAIN seqs[from[n][1]]
        /\ flat[n] = seqs[from[n][1]][from[n][2]]
    BY <1>11 DEF ComesFrom
  <2>2. PICK s, m : s = from[n][1] /\ m = from[n][2]
    OBVIOUS
  <2>3. s \in DOMAIN cs /\ m \in DOMAIN cs[s] /\ flat[n] = row(s, m)
    BY <1>2, <1>6, <2>1, <2>2
  <2> QED BY <2>2, <2>3
<1>13. ASSUME NEW n \in DOMAIN flat PROVE flat[n].track \in Tracks
  <2>1. PICK s, m : s = from[n][1] /\ m = from[n][2]
    OBVIOUS
  <2>2. s \in DOMAIN cs /\ m \in DOMAIN cs[s] /\ flat[n].track = cs[s][m].track
    BY <1>4, <1>12, <2>1
  <2>3. Fits(cs[s][m], 0, k)
    BY <2>2 DEF ChunksFit
  <2> QED BY <2>2, <2>3 DEF Fits
<1>14. ASSUME NEW n \in DOMAIN flat, NEW m \in DOMAIN flat,
              flat[n].kind = "enter", flat[m].kind = "enter", flat[n].call = flat[m].call
       PROVE  n = m
  <2>1. PICK a, b, c, d : a = from[n][1] /\ b = from[n][2] /\ c = from[m][1] /\ d = from[m][2]
    OBVIOUS
  <2>2. /\ a \in DOMAIN cs /\ b \in DOMAIN cs[a] /\ flat[n] = row(a, b)
        /\ c \in DOMAIN cs /\ d \in DOMAIN cs[c] /\ flat[m] = row(c, d)
    BY <1>12, <2>1
  <2>3. /\ cs[a][b].kind = "enter" /\ cs[c][d].kind = "enter" /\ cs[a][b].call = cs[c][d].call
    BY <1>4, <1>14, <2>2
  <2>4. a = c /\ b = d
    BY <2>2, <2>3, EntriesDiffer
  <2> QED BY <1>11, <2>1, <2>4 DEF ComesFrom
<1> QED BY <1>3, <1>10, <1>13, <1>14 DEF EntriesFit

(* Chunks that are lost or swapped are still chunks of the recording.       *)
LEMMA LostFits ==
  ASSUME NEW cs, NEW k \in Nat, ChunksFit(cs, k), NEW n \in DOMAIN cs
  PROVE  ChunksFit(RemoveAt(cs, n), k)
<1>1. PICK S : cs \in Seq(Seq(S))
  BY DEF ChunksFit
<1> DEFINE ds == RemoveAt(cs, n)
           N  == Len(cs)
           f  == [i \in 1..N |-> IF i < n THEN i ELSE i + 1]
<1>2. /\ ds \in Seq(Seq(S)) /\ DOMAIN ds = 1..(N - 1) /\ N \in Nat /\ DOMAIN cs = 1..N
      /\ \A i \in 1..(N - 1) : ds[i] = cs[IF i < n THEN i ELSE i + 1]
  BY <1>1, RemovedIs
<1> HIDE DEF ds, N
<1>3. \A i \in DOMAIN ds : f[i] = (IF i < n THEN i ELSE i + 1) /\ f[i] \in DOMAIN cs /\ ds[i] = cs[f[i]]
  <2> TAKE i \in DOMAIN ds
  <2>1. i \in 1..N /\ i \in 1..(N - 1) /\ (IF i < n THEN i ELSE i + 1) \in 1..N
    BY <1>2
  <2> QED BY <1>2, <2>1
<1>4. \A i, j \in DOMAIN ds : f[i] = f[j] => i = j
  <2> HIDE DEF f
  <2> QED BY <1>2, <1>3
<1> HIDE DEF f
<1>5. Taken(ds, cs, f)
  BY <1>3, <1>4 DEF Taken
<1> QED BY <1>2, <1>5, ChunksTaken DEF ds

LEMMA SwappedFits ==
  ASSUME NEW cs, NEW k \in Nat, ChunksFit(cs, k), NEW n \in 1..(Len(cs) - 1)
  PROVE  ChunksFit([cs EXCEPT ![n] = cs[n + 1], ![n + 1] = cs[n]], k)
<1>1. PICK S : cs \in Seq(Seq(S))
  BY DEF ChunksFit
<1> DEFINE ds == [cs EXCEPT ![n] = cs[n + 1], ![n + 1] = cs[n]]
           N  == Len(cs)
           f  == [i \in 1..N |-> IF i = n THEN n + 1 ELSE IF i = n + 1 THEN n ELSE i]
<1>2. /\ N \in Nat /\ DOMAIN cs = 1..N /\ \A i \in 1..N : cs[i] \in Seq(S)
  BY <1>1, ChunksTyped
<1>3. n \in 1..N /\ n + 1 \in 1..N /\ n # n + 1
  BY <1>2
<1>4. /\ \A i \in 1..N : ds[i] = IF i = n THEN cs[n + 1] ELSE IF i = n + 1 THEN cs[n] ELSE cs[i]
      /\ DOMAIN ds = 1..N /\ ds = [i \in 1..N |-> ds[i]]
  <2>1. cs = [i \in 1..N |-> cs[i]]
    BY <1>1, <1>2
  <2> HIDE DEF N
  <2>2. ds = [i \in 1..N |-> IF i = n + 1 THEN cs[n] ELSE IF i = n THEN cs[n + 1] ELSE cs[i]]
    BY <1>2, <1>3, <2>1
  <2> HIDE DEF ds
  <2> QED BY <1>3, <2>2
<1> HIDE DEF ds, N
<1>5. ds \in Seq(Seq(S))
  <2>1. ds \in [1..N -> Seq(S)]
    BY <1>2, <1>3, <1>4
  <2> QED BY <1>2, <2>1, FunctionIsSeq
<1>6. \A i \in 1..N : f[i] = IF i = n THEN n + 1 ELSE IF i = n + 1 THEN n ELSE i
  OBVIOUS
<1> HIDE DEF f
<1>7. \A i \in DOMAIN ds : f[i] \in DOMAIN cs /\ ds[i] = cs[f[i]]
  BY <1>2, <1>3, <1>4, <1>6
<1>8. \A i, j \in DOMAIN ds : f[i] = f[j] => i = j
  BY <1>3, <1>4, <1>6
<1>9. Taken(ds, cs, f)
  BY <1>7, <1>8 DEF Taken
<1> QED BY <1>5, <1>9, ChunksTaken DEF ds

LEMMA BuildFits ==
  ASSUME Recorded,
         \/ BuildAll \/ \E n \in DOMAIN chunks : BuildWithout(n)
         \/ \E n \in 1..(Len(chunks) - 1) : BuildSwapped(n)
  PROVE  EntriesFit(rows')
<1>1. calls \in Nat /\ ChunksFit(chunks, calls)
  BY DEF Recorded
<1>2. CASE BuildAll
  <2>1. rows' = Rows(chunks)
    BY <1>2 DEF BuildAll, Build
  <2> QED BY <1>1, <2>1, RowsAre
<1>3. ASSUME NEW n \in DOMAIN chunks, BuildWithout(n) PROVE EntriesFit(rows')
  <2>1. rows' = Rows(RemoveAt(chunks, n))
    BY <1>3 DEF BuildWithout, Build
  <2>2. ChunksFit(RemoveAt(chunks, n), calls)
    BY <1>1, <1>3, LostFits
  <2> QED BY <1>1, <2>1, <2>2, RowsAre
<1>4. ASSUME NEW n \in 1..(Len(chunks) - 1), BuildSwapped(n) PROVE EntriesFit(rows')
  <2>1. rows' = Rows([chunks EXCEPT ![n] = chunks[n + 1], ![n + 1] = chunks[n]])
    BY <1>4 DEF BuildSwapped, Build
  <2>2. ChunksFit([chunks EXCEPT ![n] = chunks[n + 1], ![n + 1] = chunks[n]], calls)
    BY <1>1, <1>4, SwappedFits
  <2> QED BY <1>1, <2>1, <2>2, RowsAre
<1> QED BY <1>2, <1>3, <1>4

----------------------------------------------------------------------------
(* The ledger.  The invocations of a stack or of a queue, the calls that    *)
(* the real ones are of, and when each is of a call of its own.             *)
CallsAt(q) == {q[n].call : n \in {m \in DOMAIN q : q[m].real}}
DistinctAt(q) ==
  \A n, m \in DOMAIN q : q[n].real /\ q[m].real /\ q[n].call = q[m].call => n = m
RealAt(q) == \A n \in DOMAIN q : q[n].real

CallsIn(o) == UNION {CallsAt(o[t]) : t \in Tracks}
Apart(o) ==
  /\ \A t \in Tracks : DistinctAt(o[t])
  /\ \A t, u \in Tracks : \A c \in CallsAt(o[t]) : c \in CallsAt(o[u]) => t = u

CallsOf(told) == {e.invocation.call : e \in told}
ToldOnce(told) ==
  /\ \A e \in told : e.invocation.real
  /\ \A e, f \in told : e.invocation.call = f.invocation.call => e = f

(* Each call of C is at one place: in o, in p or told.                      *)
Ledger(o, p, told, C) ==
  /\ Stacks(o) /\ Apart(o)
  /\ Stacks(p) /\ Apart(p) /\ \A t \in Tracks : RealAt(p[t])
  /\ ToldOnce(told)
  /\ C = CallsIn(o) \cup CallsIn(p) \cup CallsOf(told)
  /\ \A c \in C : /\ ~(c \in CallsIn(o) /\ c \in CallsIn(p))
                  /\ ~(c \in CallsIn(o) /\ c \in CallsOf(told))
                  /\ ~(c \in CallsIn(p) /\ c \in CallsOf(told))

LEMMA AppendKept ==
  ASSUME NEW S, NEW q \in Seq(S), DistinctAt(q), NEW i, i.real => i.call \notin CallsAt(q)
  PROVE  /\ Append(q, i) \in Seq(S \cup {i}) /\ DistinctAt(Append(q, i))
         /\ CallsAt(Append(q, i)) = CallsAt(q) \cup (IF i.real THEN {i.call} ELSE {})
         /\ RealAt(q) /\ i.real => RealAt(Append(q, i))
<1> DEFINE N == Len(q)
           r == Append(q, i)
<1>1. q \in Seq(S \cup {i}) /\ i \in S \cup {i}
  <2>1. S \subseteq S \cup {i}
    OBVIOUS
  <2> QED BY <2>1, SeqMonotonic
<1>2. /\ N \in Nat /\ DOMAIN q = 1..N /\ r \in Seq(S \cup {i}) /\ Len(r) = N + 1
      /\ DOMAIN r = 1..(N + 1) /\ r[N + 1] = i /\ \A n \in 1..N : r[n] = q[n]
  BY <1>1, LenProperties, AppendProperties
<1> HIDE DEF r, N
<1>3. \A n \in DOMAIN r : (n \in DOMAIN q /\ r[n] = q[n]) \/ (n = N + 1 /\ r[n] = i)
  BY <1>2
<1>4. \A n \in DOMAIN q : n \in DOMAIN r /\ r[n] = q[n]
  BY <1>2
<1>5. N + 1 \in DOMAIN r /\ r[N + 1] = i
  BY <1>2
<1>6. CallsAt(r) = CallsAt(q) \cup (IF i.real THEN {i.call} ELSE {})
  <2>1. ASSUME NEW c \in CallsAt(r) PROVE c \in CallsAt(q) \cup (IF i.real THEN {i.call} ELSE {})
    <3>1. PICK n \in DOMAIN r : r[n].real /\ r[n].call = c
      BY <2>1 DEF CallsAt
    <3> QED BY <1>3, <3>1 DEF CallsAt
  <2>2. ASSUME NEW c \in CallsAt(q) PROVE c \in CallsAt(r)
    <3>1. PICK n \in DOMAIN q : q[n].real /\ q[n].call = c
      BY <2>2 DEF CallsAt
    <3> QED BY <1>4, <3>1 DEF CallsAt
  <2>3. i.real => i.call \in CallsAt(r)
    BY <1>5 DEF CallsAt
  <2> QED BY <2>1, <2>2, <2>3
<1>7. ASSUME NEW n \in DOMAIN r, NEW m \in DOMAIN r, r[n].real, r[m].real, r[n].call = r[m].call
      PROVE  n = m
  <2>1. ASSUME NEW k \in DOMAIN q, q[k].real, q[k].call = i.call, i.real PROVE FALSE
    BY <2>1 DEF CallsAt
  <2> QED BY <1>3, <1>7, <2>1 DEF DistinctAt
<1>8. RealAt(q) /\ i.real => RealAt(r)
  BY <1>3 DEF RealAt
<1> QED BY <1>2, <1>6, <1>7, <1>8 DEF r, DistinctAt

LEMMA FrontKept ==
  ASSUME NEW S, NEW q \in Seq(S), q # <<>>, DistinctAt(q)
  PROVE  /\ Front(q) \in Seq(S) /\ DistinctAt(Front(q))
         /\ CallsAt(Front(q)) = CallsAt(q) \ (IF Last(q).real THEN {Last(q).call} ELSE {})
         /\ Last(q).real => Last(q).call \in CallsAt(q)
<1> DEFINE N == Len(q)
           r == Front(q)
           i == Last(q)
<1>1. /\ r \in Seq(S) /\ N \in Nat /\ DOMAIN q = 1..N /\ DOMAIN r = 1..(N - 1)
      /\ \A n \in DOMAIN r : n \in DOMAIN q /\ n # N /\ r[n] = q[n]
      /\ N \in DOMAIN q /\ i = q[N]
  BY FrontIs
<1> HIDE DEF r, N, i
<1>2. \A n \in DOMAIN q : n # N => n \in DOMAIN r
  BY <1>1
<1>3. i.real => i.call \in CallsAt(q)
  BY <1>1 DEF CallsAt
<1>4. CallsAt(r) = CallsAt(q) \ (IF i.real THEN {i.call} ELSE {})
  <2>1. ASSUME NEW c \in CallsAt(r) PROVE c \in CallsAt(q) /\ (i.real => c # i.call)
    <3>1. PICK n \in DOMAIN r : r[n].real /\ r[n].call = c
      BY <2>1 DEF CallsAt
    <3>2. n \in DOMAIN q /\ q[n].real /\ q[n].call = c /\ n # N
      BY <1>1, <3>1
    <3>3. i.real => c # i.call
      BY <1>1, <3>2 DEF DistinctAt
    <3> QED BY <3>2, <3>3 DEF CallsAt
  <2>2. ASSUME NEW c \in CallsAt(q), i.real => c # i.call PROVE c \in CallsAt(r)
    <3>1. PICK n \in DOMAIN q : q[n].real /\ q[n].call = c
      BY <2>2 DEF CallsAt
    <3>2. n # N
      BY <1>1, <2>2, <3>1
    <3>3. n \in DOMAIN r /\ r[n] = q[n]
      BY <1>1, <1>2, <3>2
    <3> QED BY <3>1, <3>3 DEF CallsAt
  <2> QED BY <2>1, <2>2
<1>5. DistinctAt(r)
  BY <1>1 DEF DistinctAt
<1> QED BY <1>1, <1>3, <1>4, <1>5 DEF r, i

LEMMA RemovedKept ==
  ASSUME NEW S, NEW q \in Seq(S), NEW k \in DOMAIN q, DistinctAt(q), RealAt(q)
  PROVE  /\ RemoveAt(q, k) \in Seq(S) /\ DistinctAt(RemoveAt(q, k)) /\ RealAt(RemoveAt(q, k))
         /\ CallsAt(RemoveAt(q, k)) = CallsAt(q) \ {q[k].call}
         /\ q[k].call \in CallsAt(q)
<1> DEFINE N == Len(q)
           r == RemoveAt(q, k)
           at(n) == IF n < k THEN n ELSE n + 1
<1>1. /\ r \in Seq(S) /\ N \in Nat /\ DOMAIN q = 1..N /\ DOMAIN r = 1..(N - 1)
      /\ \A n \in 1..(N - 1) : r[n] = q[at(n)]
  BY RemovedIs
<1> HIDE DEF r, N
<1>2. ASSUME NEW n \in DOMAIN r PROVE at(n) \in DOMAIN q /\ at(n) # k /\ r[n] = q[at(n)]
  BY <1>1
<1>3. ASSUME NEW n \in DOMAIN q, n # k PROVE \E m \in DOMAIN r : r[m] = q[n]
  <2> DEFINE m == IF n < k THEN n ELSE n - 1
  <2>1. m \in 1..(N - 1) /\ at(m) = n
    BY <1>1, <1>3
  <2> HIDE DEF m, at
  <2>2. m \in DOMAIN r /\ r[m] = q[n]
    BY <1>1, <2>1
  <2> QED BY <2>2
<1>4. \A n, m \in DOMAIN r : at(n) = at(m) => n = m
  BY <1>1
<1> HIDE DEF at
<1>5. \A n \in DOMAIN q : q[n].real
  BY DEF RealAt
<1>6. CallsAt(r) = CallsAt(q) \ {q[k].call}
  <2>1. ASSUME NEW c \in CallsAt(r) PROVE c \in CallsAt(q) /\ c # q[k].call
    <3>1. PICK n \in DOMAIN r : r[n].real /\ r[n].call = c
      BY <2>1 DEF CallsAt
    <3>2. PICK a : a = at(n)
      OBVIOUS
    <3>3. a \in DOMAIN q /\ q[a].real /\ q[a].call = c /\ a # k
      BY <1>2, <3>1, <3>2
    <3>4. c # q[k].call
      BY <1>5, <3>3 DEF DistinctAt
    <3> QED BY <3>3, <3>4 DEF CallsAt
  <2>2. ASSUME NEW c \in CallsAt(q), c # q[k].call PROVE c \in CallsAt(r)
    <3>1. PICK n \in DOMAIN q : q[n].real /\ q[n].call = c
      BY <2>2 DEF CallsAt
    <3>2. PICK m \in DOMAIN r : r[m] = q[n]
      BY <1>3, <2>2, <3>1
    <3> QED BY <3>1, <3>2 DEF CallsAt
  <2> QED BY <2>1, <2>2
<1>7. ASSUME NEW n \in DOMAIN r, NEW m \in DOMAIN r, r[n].call = r[m].call PROVE n = m
  <2>1. PICK a, b : a = at(n) /\ b = at(m)
    OBVIOUS
  <2>2. a \in DOMAIN q /\ b \in DOMAIN q /\ q[a].call = q[b].call
    BY <1>2, <1>7, <2>1
  <2>3. a = b
    BY <1>5, <2>2 DEF DistinctAt
  <2> QED BY <1>4, <2>1, <2>3
<1>8. RealAt(r)
  BY <1>2, <1>5 DEF RealAt
<1>9. q[k].call \in CallsAt(q)
  BY <1>5 DEF CallsAt
<1> QED BY <1>1, <1>6, <1>7, <1>8, <1>9 DEF r, DistinctAt

LEMMA SameKept ==
  ASSUME NEW q, NEW r, DOMAIN r = DOMAIN q,
         \A n \in DOMAIN q : (r[n].real <=> q[n].real) /\ r[n].call = q[n].call
  PROVE  CallsAt(r) = CallsAt(q) /\ (DistinctAt(q) => DistinctAt(r))
<1>1. ASSUME NEW c PROVE c \in CallsAt(r) <=> c \in CallsAt(q)
  BY DEF CallsAt
<1> QED BY <1>1 DEF DistinctAt

(* The invocations of a queue, exported.                                    *)
LEMMA ToldFrom ==
  ASSUME NEW q, DistinctAt(q), RealAt(q), NEW kind
  PROVE  LET told == {Export(i, kind) : i \in ToSet(q)}
         IN  ToldOnce(told) /\ CallsOf(told) = CallsAt(q)
<1> DEFINE told == {Export(i, kind) : i \in ToSet(q)}
<1>1. \A n \in DOMAIN q : q[n].real
  BY DEF RealAt
<1>2. ASSUME NEW e \in told
      PROVE  \E n \in DOMAIN q : e = Export(q[n], kind) /\ e.invocation = q[n]
  BY DEF ToSet, Export
<1>3. ASSUME NEW n \in DOMAIN q PROVE \E e \in told : e.invocation = q[n]
  <2>1. Export(q[n], kind) \in told /\ Export(q[n], kind).invocation = q[n]
    BY DEF ToSet, Export
  <2> QED BY <2>1
<1> HIDE DEF told
<1>4. ToldOnce(told)
  <2>1. \A e \in told : e.invocation.real
    BY <1>1, <1>2
  <2>2. ASSUME NEW e \in told, NEW f \in told, e.invocation.call = f.invocation.call PROVE e = f
    <3>1. PICK n \in DOMAIN q : e = Export(q[n], kind) /\ e.invocation = q[n]
      BY <1>2
    <3>2. PICK m \in DOMAIN q : f = Export(q[m], kind) /\ f.invocation = q[m]
      BY <1>2
    <3>3. n = m
      BY <1>1, <2>2, <3>1, <3>2 DEF DistinctAt
    <3> QED BY <3>1, <3>2, <3>3
  <2> QED BY <2>1, <2>2 DEF ToldOnce
<1>5. ASSUME NEW c PROVE c \in CallsOf(told) <=> c \in CallsAt(q)
  <2>1. c \in CallsOf(told) => c \in CallsAt(q)
    <3> SUFFICES ASSUME c \in CallsOf(told) PROVE c \in CallsAt(q)
      OBVIOUS
    <3>1. PICK e \in told : e.invocation.call = c
      BY DEF CallsOf
    <3> QED BY <1>1, <1>2, <3>1 DEF CallsAt
  <2>2. c \in CallsAt(q) => c \in CallsOf(told)
    <3> SUFFICES ASSUME c \in CallsAt(q) PROVE c \in CallsOf(told)
      OBVIOUS
    <3>1. PICK n \in DOMAIN q : q[n].call = c
      BY DEF CallsAt
    <3> QED BY <1>3, <3>1 DEF CallsOf
  <2> QED BY <2>1, <2>2
<1> QED BY <1>4, <1>5 DEF told

(* One export.                                                              *)
LEMMA ToldOne ==
  ASSUME NEW e, e.invocation.real
  PROVE  ToldOnce({e}) /\ CallsOf({e}) = {e.invocation.call}
BY DEF ToldOnce, CallsOf

LEMMA StackChanged ==
  ASSUME NEW o, Stacks(o), Apart(o), NEW t \in Tracks, NEW T, NEW s \in Seq(T), DistinctAt(s),
         \A c \in CallsAt(s) : c \in CallsIn(o) => c \in CallsAt(o[t]),
         NEW r, r = [o EXCEPT ![t] = s]
  PROVE  /\ Stacks(r) /\ Apart(r)
         /\ \A u \in Tracks : r[u] = IF u = t THEN s ELSE o[u]
         /\ \A c : c \in CallsIn(r)
                     <=> c \in CallsAt(s) \/ (c \in CallsIn(o) /\ c \notin CallsAt(o[t]))
<1>1. PICK S : o \in [Tracks -> Seq(S)]
  BY DEF Stacks
<1>2. r \in [Tracks -> Seq(S \cup T)]
  BY <1>1, StackReplaced
<1>3. \A u \in Tracks : r[u] = IF u = t THEN s ELSE o[u]
  BY <1>1
<1>4. \A v, c : v \in Tracks /\ c \in CallsAt(o[v]) => c \in CallsIn(o)
  BY DEF CallsIn
<1>5. \A v, u, c : /\ v \in Tracks /\ u \in Tracks /\ c \in CallsAt(o[v]) /\ c \in CallsAt(o[u])
                   => v = u
  BY DEF Apart
<1>6. \A u \in Tracks : DistinctAt(r[u])
  BY <1>3 DEF Apart
<1>7. ASSUME NEW v \in Tracks, NEW u \in Tracks, NEW c \in CallsAt(r[v]), c \in CallsAt(r[u])
      PROVE  v = u
  <2>1. CASE v = t /\ u # t
    <3>1. c \in CallsAt(s) /\ c \in CallsAt(o[u])
      BY <1>3, <1>7, <2>1
    <3>2. c \in CallsAt(o[t])
      BY <1>4, <3>1
    <3> QED BY <1>5, <2>1, <3>1, <3>2
  <2>2. CASE v # t /\ u = t
    <3>1. c \in CallsAt(s) /\ c \in CallsAt(o[v])
      BY <1>3, <1>7, <2>2
    <3>2. c \in CallsAt(o[t])
      BY <1>4, <3>1
    <3> QED BY <1>5, <2>2, <3>1, <3>2
  <2>3. CASE v # t /\ u # t
    BY <1>3, <1>5, <1>7, <2>3
  <2> QED BY <2>1, <2>2, <2>3
<1>8. ASSUME NEW c, c \in CallsIn(r)
      PROVE  c \in CallsAt(s) \/ (c \in CallsIn(o) /\ c \notin CallsAt(o[t]))
  <2>1. PICK u \in Tracks : c \in CallsAt(r[u])
    BY <1>8 DEF CallsIn
  <2> QED BY <1>3, <1>4, <1>5, <2>1
<1>9. ASSUME NEW c, c \in CallsAt(s) \/ (c \in CallsIn(o) /\ c \notin CallsAt(o[t]))
      PROVE  c \in CallsIn(r)
  <2>1. CASE c \in CallsAt(s)
    BY <1>3, <2>1 DEF CallsIn
  <2>2. CASE c \in CallsIn(o) /\ c \notin CallsAt(o[t])
    <3>1. PICK u \in Tracks : c \in CallsAt(o[u])
      BY <2>2 DEF CallsIn
    <3>2. c \in CallsAt(r[u])
      BY <1>3, <2>2, <3>1
    <3> QED BY <3>2 DEF CallsIn
  <2> QED BY <1>9, <2>1, <2>2
<1>10. Apart(r)
  BY <1>6, <1>7 DEF Apart
<1>11. Stacks(r)
  BY <1>2 DEF Stacks
<1> QED BY <1>3, <1>8, <1>9, <1>10, <1>11

(* What was on a track's stack and in its queue, and the call of a new      *)
(* entry, is afterwards on the stack, in the queue or exported.             *)
Shared(s, w, x, D) ==
  /\ \A c : c \in D <=> c \in CallsAt(s) \/ c \in CallsAt(w) \/ c \in CallsOf(x)
  /\ \A c \in D : /\ ~(c \in CallsAt(s) /\ c \in CallsAt(w))
                  /\ ~(c \in CallsAt(s) /\ c \in CallsOf(x))
                  /\ ~(c \in CallsAt(w) /\ c \in CallsOf(x))

LEMMA Moved ==
  ASSUME NEW o, NEW p, NEW told, NEW C, Ledger(o, p, told, C), NEW t \in Tracks,
         NEW S, NEW s \in Seq(S), DistinctAt(s),
         NEW T, NEW w \in Seq(T), DistinctAt(w), RealAt(w),
         NEW x, ToldOnce(x), NEW new, \A c \in new : c \notin C,
         Shared(s, w, x, CallsAt(o[t]) \cup CallsAt(p[t]) \cup new)
  PROVE  Ledger([o EXCEPT ![t] = s], [p EXCEPT ![t] = w], told \cup x, C \cup new)
<1> DEFINE oo == [o EXCEPT ![t] = s]
           pp == [p EXCEPT ![t] = w]
           tt == told \cup x
           D  == CallsAt(o[t]) \cup CallsAt(p[t]) \cup new
<1>1. /\ Stacks(o) /\ Apart(o) /\ Stacks(p) /\ Apart(p) /\ \A u \in Tracks : RealAt(p[u])
      /\ ToldOnce(told)
      /\ C = CallsIn(o) \cup CallsIn(p) \cup CallsOf(told)
      /\ \A c \in C : /\ ~(c \in CallsIn(o) /\ c \in CallsIn(p))
                      /\ ~(c \in CallsIn(o) /\ c \in CallsOf(told))
                      /\ ~(c \in CallsIn(p) /\ c \in CallsOf(told))
  BY DEF Ledger
<1>2. \A c : c \in CallsIn(o) \/ c \in CallsIn(p) \/ c \in CallsOf(told) => c \in C
  BY <1>1
<1>3. \A c : (c \in CallsAt(o[t]) => c \in CallsIn(o)) /\ (c \in CallsAt(p[t]) => c \in CallsIn(p))
  BY DEF CallsIn
<1>4. \A c : c \in D <=> c \in CallsAt(o[t]) \/ c \in CallsAt(p[t]) \/ c \in new
  OBVIOUS
<1>5. Shared(s, w, x, D)
  OBVIOUS
<1> HIDE DEF D
<1>6. /\ \A c : c \in D <=> c \in CallsAt(s) \/ c \in CallsAt(w) \/ c \in CallsOf(x)
      /\ \A c \in D : /\ ~(c \in CallsAt(s) /\ c \in CallsAt(w))
                      /\ ~(c \in CallsAt(s) /\ c \in CallsOf(x))
                      /\ ~(c \in CallsAt(w) /\ c \in CallsOf(x))
  BY <1>5 DEF Shared
<1>7. /\ \A c \in CallsAt(s) : c \in CallsIn(o) => c \in CallsAt(o[t])
      /\ \A c \in CallsAt(w) : c \in CallsIn(p) => c \in CallsAt(p[t])
      /\ \A c \in CallsOf(x) : c \notin CallsOf(told)
  BY <1>1, <1>2, <1>3, <1>4, <1>6
<1> HIDE DEF oo, pp, tt
<1>8. /\ Stacks(oo) /\ Apart(oo)
      /\ \A c : c \in CallsIn(oo)
                  <=> c \in CallsAt(s) \/ (c \in CallsIn(o) /\ c \notin CallsAt(o[t]))
  BY <1>1, <1>7, StackChanged DEF oo
<1>9. /\ Stacks(pp) /\ Apart(pp)
      /\ \A u \in Tracks : pp[u] = IF u = t THEN w ELSE p[u]
      /\ \A c : c \in CallsIn(pp)
                  <=> c \in CallsAt(w) \/ (c \in CallsIn(p) /\ c \notin CallsAt(p[t]))
  BY <1>1, <1>7, StackChanged DEF pp
<1>10. \A u \in Tracks : RealAt(pp[u])
  BY <1>1, <1>9
<1>11. \A c : c \in CallsOf(tt) <=> c \in CallsOf(told) \/ c \in CallsOf(x)
  BY DEF CallsOf, tt
<1>12. ToldOnce(tt)
  <2>1. \A e \in told : e.invocation.call \in CallsOf(told)
    BY DEF CallsOf
  <2>2. \A e \in x : e.invocation.call \in CallsOf(x)
    BY DEF CallsOf
  <2> QED BY <1>1, <1>7, <2>1, <2>2 DEF ToldOnce, tt
<1>13. ASSUME NEW c
       PROVE  c \in C \cup new <=> c \in CallsIn(oo) \/ c \in CallsIn(pp) \/ c \in CallsOf(tt)
  BY <1>1, <1>2, <1>3, <1>4, <1>6, <1>8, <1>9, <1>11
<1>14. C \cup new = CallsIn(oo) \cup CallsIn(pp) \cup CallsOf(tt)
  BY <1>13
<1>15. ASSUME NEW c \in C \cup new
       PROVE  /\ ~(c \in CallsIn(oo) /\ c \in CallsIn(pp))
              /\ ~(c \in CallsIn(oo) /\ c \in CallsOf(tt))
              /\ ~(c \in CallsIn(pp) /\ c \in CallsOf(tt))
  BY <1>1, <1>2, <1>3, <1>4, <1>6, <1>8, <1>9, <1>11
<1>16. Ledger(oo, pp, tt, C \cup new)
  BY <1>8, <1>9, <1>10, <1>12, <1>14, <1>15 DEF Ledger
<1> QED BY <1>16 DEF oo, pp, tt

(* Exporting whatever is open and real.                                     *)
RealIn(o) == {i \in UNION {ToSet(o[t]) : t \in Tracks} : i.real}

LEMMA OpenTold ==
  ASSUME NEW o, Stacks(o), Apart(o), NEW kind
  PROVE  LET x == {Export(i, kind[i]) : i \in RealIn(o)}
         IN  ToldOnce(x) /\ CallsOf(x) = CallsIn(o)
<1> DEFINE x == {Export(i, kind[i]) : i \in RealIn(o)}
<1>1. ASSUME NEW i \in RealIn(o)
      PROVE  i.real /\ \E t \in Tracks : \E n \in DOMAIN o[t] : o[t][n] = i
  BY DEF RealIn, ToSet
<1>2. ASSUME NEW t \in Tracks, NEW n \in DOMAIN o[t], o[t][n].real PROVE o[t][n] \in RealIn(o)
  BY <1>2 DEF RealIn, ToSet
<1>3. ASSUME NEW i \in RealIn(o), NEW j \in RealIn(o), i.call = j.call PROVE i = j
  <2>1. PICK t \in Tracks : \E n \in DOMAIN o[t] : o[t][n] = i
    BY <1>1
  <2>2. PICK n \in DOMAIN o[t] : o[t][n] = i
    BY <2>1
  <2>3. PICK u \in Tracks : \E m \in DOMAIN o[u] : o[u][m] = j
    BY <1>1
  <2>4. PICK m \in DOMAIN o[u] : o[u][m] = j
    BY <2>3
  <2>5. i.real /\ j.real
    BY <1>1
  <2>6. i.call \in CallsAt(o[t]) /\ i.call \in CallsAt(o[u])
    BY <1>3, <2>2, <2>4, <2>5 DEF CallsAt
  <2>7. t = u
    BY <2>6 DEF Apart
  <2>8. DistinctAt(o[t])
    BY DEF Apart
  <2>9. n = m
    BY <1>3, <2>2, <2>4, <2>5, <2>7, <2>8 DEF DistinctAt
  <2> QED BY <2>2, <2>4, <2>7, <2>9
<1>4. ASSUME NEW i \in RealIn(o) PROVE i.call \in CallsIn(o)
  <2>1. PICK t \in Tracks : \E n \in DOMAIN o[t] : o[t][n] = i
    BY <1>1
  <2>2. i.call \in CallsAt(o[t])
    BY <1>1, <2>1 DEF CallsAt
  <2> QED BY <2>2 DEF CallsIn
<1>5. ASSUME NEW c \in CallsIn(o) PROVE \E i \in RealIn(o) : i.call = c
  <2>1. PICK t \in Tracks : c \in CallsAt(o[t])
    BY DEF CallsIn
  <2>2. PICK n \in DOMAIN o[t] : o[t][n].real /\ o[t][n].call = c
    BY <2>1 DEF CallsAt
  <2> QED BY <1>2, <2>2
<1>6. \A i \in RealIn(o) : Export(i, kind[i]) \in x
  OBVIOUS
<1>7. \A e \in x : \E i \in RealIn(o) : e = Export(i, kind[i])
  OBVIOUS
<1> HIDE DEF x
<1>8. \A i : Export(i, kind[i]).invocation = i
  BY DEF Export
<1>9. ToldOnce(x)
  <2>1. \A e \in x : e.invocation.real
    BY <1>1, <1>7, <1>8
  <2>2. ASSUME NEW e \in x, NEW f \in x, e.invocation.call = f.invocation.call PROVE e = f
    <3>1. PICK i \in RealIn(o) : e = Export(i, kind[i])
      BY <1>7
    <3>2. PICK j \in RealIn(o) : f = Export(j, kind[j])
      BY <1>7
    <3>3. i = j
      BY <1>3, <1>8, <2>2, <3>1, <3>2
    <3> QED BY <3>1, <3>2, <3>3
  <2> QED BY <2>1, <2>2 DEF ToldOnce
<1>10. ASSUME NEW c PROVE c \in CallsOf(x) <=> c \in CallsIn(o)
  <2>1. c \in CallsOf(x) => c \in CallsIn(o)
    BY <1>4, <1>7, <1>8 DEF CallsOf
  <2>2. ASSUME c \in CallsIn(o) PROVE c \in CallsOf(x)
    <3>1. PICK i \in RealIn(o) : i.call = c
      BY <1>5, <2>2
    <3>2. Export(i, kind[i]) \in x /\ Export(i, kind[i]).invocation.call = c
      BY <1>6, <1>8, <3>1
    <3> QED BY <3>2 DEF CallsOf
  <2> QED BY <2>1, <2>2
<1> QED BY <1>9, <1>10 DEF x

LEMMA NothingHeld ==
  /\ <<>> \in Seq({}) /\ CallsAt(<<>>) = {} /\ DistinctAt(<<>>) /\ RealAt(<<>>)
  /\ CallsIn([t \in Tracks |-> <<>>]) = {}
  /\ Stacks([t \in Tracks |-> <<>>]) /\ Apart([t \in Tracks |-> <<>>])
  /\ ToldOnce({}) /\ CallsOf({}) = {}
<1>1. <<>> \in Seq({}) /\ DOMAIN <<>> = {}
  OBVIOUS
<1>2. CallsAt(<<>>) = {} /\ DistinctAt(<<>>) /\ RealAt(<<>>)
  BY <1>1 DEF CallsAt, DistinctAt, RealAt
<1>3. CallsIn([t \in Tracks |-> <<>>]) = {} /\ Apart([t \in Tracks |-> <<>>])
  BY <1>2 DEF CallsIn, Apart
<1>4. [t \in Tracks |-> <<>>] \in [Tracks -> Seq({})]
  BY <1>1
<1>5. Stacks([t \in Tracks |-> <<>>])
  BY <1>4 DEF Stacks
<1>6. ToldOnce({}) /\ CallsOf({}) = {}
  BY DEF ToldOnce, CallsOf
<1> QED BY <1>1, <1>2, <1>3, <1>5, <1>6

LEMMA HeldAt ==
  ASSUME NEW o, NEW p, NEW told, NEW C, Ledger(o, p, told, C), NEW t \in Tracks
  PROVE  /\ \E S : o[t] \in Seq(S) /\ p[t] \in Seq(S)
         /\ DistinctAt(o[t]) /\ DistinctAt(p[t]) /\ RealAt(p[t])
         /\ \A c : c \in CallsAt(o[t]) \/ c \in CallsAt(p[t]) => c \in C
         /\ \A c : ~(c \in CallsAt(o[t]) /\ c \in CallsAt(p[t]))
<1>1. PICK S : o \in [Tracks -> Seq(S)]
  BY DEF Ledger, Stacks
<1>2. PICK T : p \in [Tracks -> Seq(T)]
  BY DEF Ledger, Stacks
<1>3. o[t] \in Seq(S \cup T) /\ p[t] \in Seq(S \cup T)
  <2>1. S \subseteq S \cup T /\ T \subseteq S \cup T
    OBVIOUS
  <2>2. o[t] \in Seq(S) /\ p[t] \in Seq(T)
    BY <1>1, <1>2
  <2> QED BY <2>1, <2>2, SeqMonotonic
<1>4. DistinctAt(o[t]) /\ DistinctAt(p[t]) /\ RealAt(p[t])
  BY DEF Ledger, Apart
<1>5. \A c : (c \in CallsAt(o[t]) => c \in CallsIn(o)) /\ (c \in CallsAt(p[t]) => c \in CallsIn(p))
  BY DEF CallsIn
<1>6. /\ \A c : c \in CallsIn(o) \/ c \in CallsIn(p) => c \in C
      /\ \A c \in C : ~(c \in CallsIn(o) /\ c \in CallsIn(p))
  BY DEF Ledger
<1> QED BY <1>3, <1>4, <1>5, <1>6

(* Everything open, or everything that waits, is exported.                  *)
LEMMA OpenEmptied ==
  ASSUME NEW o, NEW p, NEW told, NEW C, Ledger(o, p, told, C),
         NEW x, ToldOnce(x), \A c : c \in CallsOf(x) <=> c \in CallsIn(o)
  PROVE  Ledger([t \in Tracks |-> <<>>], p, told \cup x, C)
<1>1. /\ Stacks(p) /\ Apart(p) /\ \A u \in Tracks : RealAt(p[u])
      /\ ToldOnce(told)
      /\ C = CallsIn(o) \cup CallsIn(p) \cup CallsOf(told)
      /\ \A c \in C : /\ ~(c \in CallsIn(o) /\ c \in CallsIn(p))
                      /\ ~(c \in CallsIn(o) /\ c \in CallsOf(told))
                      /\ ~(c \in CallsIn(p) /\ c \in CallsOf(told))
  BY DEF Ledger
<1> DEFINE e  == [t \in Tracks |-> <<>>]
           tt == told \cup x
<1>2. CallsIn(e) = {} /\ Stacks(e) /\ Apart(e)
  BY NothingHeld
<1>3. \A c : c \in CallsOf(tt) <=> c \in CallsOf(told) \/ c \in CallsIn(o)
  BY DEF CallsOf
<1>4. ToldOnce(tt)
  <2>1. \A f \in told : f.invocation.call \in CallsOf(told)
    BY DEF CallsOf
  <2>2. \A f \in x : f.invocation.call \in CallsOf(x)
    BY DEF CallsOf
  <2>3. \A c \in CallsOf(x) : c \notin CallsOf(told)
    BY <1>1
  <2> QED BY <1>1, <2>1, <2>2, <2>3 DEF ToldOnce
<1> HIDE DEF e, tt
<1>5. ASSUME NEW c PROVE c \in C <=> c \in CallsIn(e) \/ c \in CallsIn(p) \/ c \in CallsOf(tt)
  BY <1>1, <1>2, <1>3
<1>6. C = CallsIn(e) \cup CallsIn(p) \cup CallsOf(tt)
  BY <1>5
<1>7. ASSUME NEW c \in C PROVE /\ ~(c \in CallsIn(e) /\ c \in CallsIn(p))
                               /\ ~(c \in CallsIn(e) /\ c \in CallsOf(tt))
                               /\ ~(c \in CallsIn(p) /\ c \in CallsOf(tt))
  BY <1>1, <1>2, <1>3
<1>8. Ledger(e, p, tt, C)
  BY <1>1, <1>2, <1>4, <1>6, <1>7 DEF Ledger
<1> QED BY <1>8 DEF e, tt

LEMMA PendingEmptied ==
  ASSUME NEW o, NEW p, NEW told, NEW C, Ledger(o, p, told, C),
         NEW x, ToldOnce(x), \A c : c \in CallsOf(x) <=> c \in CallsIn(p)
  PROVE  Ledger(o, [t \in Tracks |-> <<>>], told \cup x, C)
<1>1. /\ Stacks(o) /\ Apart(o) /\ ToldOnce(told)
      /\ C = CallsIn(o) \cup CallsIn(p) \cup CallsOf(told)
      /\ \A c \in C : /\ ~(c \in CallsIn(o) /\ c \in CallsIn(p))
                      /\ ~(c \in CallsIn(o) /\ c \in CallsOf(told))
                      /\ ~(c \in CallsIn(p) /\ c \in CallsOf(told))
  BY DEF Ledger
<1> DEFINE e  == [t \in Tracks |-> <<>>]
           tt == told \cup x
<1>2. CallsIn(e) = {} /\ Stacks(e) /\ Apart(e) /\ \A t \in Tracks : RealAt(e[t])
  BY NothingHeld
<1>3. \A c : c \in CallsOf(tt) <=> c \in CallsOf(told) \/ c \in CallsIn(p)
  BY DEF CallsOf
<1>4. ToldOnce(tt)
  <2>1. \A f \in told : f.invocation.call \in CallsOf(told)
    BY DEF CallsOf
  <2>2. \A f \in x : f.invocation.call \in CallsOf(x)
    BY DEF CallsOf
  <2>3. \A c \in CallsOf(x) : c \notin CallsOf(told)
    BY <1>1
  <2> QED BY <1>1, <2>1, <2>2, <2>3 DEF ToldOnce
<1> HIDE DEF e, tt
<1>5. ASSUME NEW c PROVE c \in C <=> c \in CallsIn(o) \/ c \in CallsIn(e) \/ c \in CallsOf(tt)
  BY <1>1, <1>2, <1>3
<1>6. C = CallsIn(o) \cup CallsIn(e) \cup CallsOf(tt)
  BY <1>5
<1>7. ASSUME NEW c \in C PROVE /\ ~(c \in CallsIn(o) /\ c \in CallsIn(e))
                               /\ ~(c \in CallsIn(o) /\ c \in CallsOf(tt))
                               /\ ~(c \in CallsIn(e) /\ c \in CallsOf(tt))
  BY <1>1, <1>2, <1>3
<1>8. Ledger(o, e, tt, C)
  BY <1>1, <1>2, <1>4, <1>6, <1>7 DEF Ledger
<1> QED BY <1>8 DEF e, tt

----------------------------------------------------------------------------
(* The inductive invariant.                                                 *)
Entered(rs, d) == {rs[n].call : n \in {m \in 1..d : rs[m].kind = "enter"}}
Verified(rs, d) == EntriesFit(rs) /\ d \in 0..Len(rs)

OracleInv ==
  /\ Recorded
  /\ Verified(rows, done)
  /\ phase = "record" => done = 0
  /\ Ledger(open, pending, exported, Entered(rows, done))

(* Reading one row more.                                                    *)
NewCall == IF Row.kind = "enter" THEN {Row.call} ELSE {}

LEMMA RowRead ==
  ASSUME Verified(rows, done), done < Len(rows)
  PROVE  /\ Row.track \in Tracks /\ Verified(rows, done + 1) /\ done \in Nat
         /\ Entered(rows, done + 1) = Entered(rows, done) \cup NewCall
         /\ \A c \in NewCall : c \notin Entered(rows, done)
<1>1. PICK S : rows \in Seq(S)
  BY DEF Verified, EntriesFit
<1>2. Len(rows) \in Nat /\ DOMAIN rows = 1..Len(rows)
  BY <1>1, LenProperties
<1>3. done \in Nat /\ done + 1 \in DOMAIN rows /\ done + 1 \in 0..Len(rows)
  BY <1>2 DEF Verified
<1>4. Row.track \in Tracks
  BY <1>3 DEF Verified, EntriesFit, Row
<1>5. Verified(rows, done + 1)
  BY <1>3 DEF Verified
<1>6. \A n : n \in 1..(done + 1) <=> n \in 1..done \/ n = done + 1
  BY <1>3
<1>7. ASSUME NEW c
      PROVE  c \in Entered(rows, done + 1) <=> c \in Entered(rows, done) \/ c \in NewCall
  BY <1>6 DEF Entered, NewCall, Row
<1>8. ASSUME NEW c \in NewCall, c \in Entered(rows, done) PROVE FALSE
  <2>1. c = Row.call /\ Row.kind = "enter"
    BY DEF NewCall
  <2>2. PICK n \in 1..done : rows[n].kind = "enter" /\ rows[n].call = c
    BY <1>8 DEF Entered
  <2>3. n \in DOMAIN rows /\ n # done + 1
    BY <1>2, <1>3
  <2> QED BY <1>3, <2>1, <2>2, <2>3 DEF Verified, EntriesFit, Row
<1> QED BY <1>3, <1>4, <1>5, <1>7, <1>8

(* The first row of a source exports what the previous source left open.    *)
LEMMA SourceEnds ==
  ASSUME OracleInv
  PROVE  Ledger(Opened, pending, exported \cup Leftover, Entered(rows, done))
<1>1. Ledger(open, pending, exported, Entered(rows, done))
  BY DEF OracleInv
<1>2. CASE AtBoundary
  <2> DEFINE kind == [i \in RealIn(open) |->
                        IF i.exit # None THEN "missing_slice_end" ELSE "missing_chunk_close"]
             x    == {Export(i, kind[i]) : i \in RealIn(open)}
  <2>1. Leftover = x
    BY <1>2 DEF Leftover, Unclosed, RealIn
  <2>2. Opened = [t \in Tracks |-> <<>>]
    BY <1>2 DEF Opened
  <2> HIDE DEF kind
  <2>3. Stacks(open) /\ Apart(open)
    BY <1>1 DEF Ledger
  <2>4. ToldOnce(x) /\ CallsOf(x) = CallsIn(open)
    BY <2>3, OpenTold
  <2> HIDE DEF x
  <2>5. Ledger([t \in Tracks |-> <<>>], pending, exported \cup x, Entered(rows, done))
    BY <1>1, <2>4, OpenEmptied
  <2> QED BY <2>1, <2>2, <2>5
<1>3. CASE ~AtBoundary
  <2>1. Opened = open /\ exported \cup Leftover = exported
    BY <1>3 DEF Opened, Leftover
  <2> QED BY <1>1, <2>1
<1> QED BY <1>2, <1>3

LEMMA HandleKeeps ==
  ASSUME OracleInv, phase = "verify", done < Len(rows),
         NEW S, NEW stack \in Seq(S), DistinctAt(stack),
         NEW T, NEW waiting \in Seq(T), DistinctAt(waiting), RealAt(waiting),
         NEW x, ToldOnce(x),
         Shared(stack, waiting, x,
                CallsAt(Opened[Row.track]) \cup CallsAt(pending[Row.track]) \cup NewCall),
         NEW codes, Handle(stack, waiting, x, codes)
  PROVE  OracleInv'
<1>1. /\ open' = [Opened EXCEPT ![Row.track] = stack]
      /\ pending' = [pending EXCEPT ![Row.track] = waiting]
      /\ exported' = (exported \cup Leftover) \cup x
      /\ done' = done + 1 /\ UNCHANGED <<active, chunks, calls, rows, phase>>
  BY DEF Handle, At, recording, recorded, indexed
<1>2. Recorded /\ Verified(rows, done)
  BY DEF OracleInv
<1>3. /\ Row.track \in Tracks /\ Verified(rows, done + 1) /\ done \in Nat
      /\ Entered(rows, done + 1) = Entered(rows, done) \cup NewCall
      /\ \A c \in NewCall : c \notin Entered(rows, done)
  BY <1>2, RowRead
<1>4. Ledger(Opened, pending, exported \cup Leftover, Entered(rows, done))
  BY SourceEnds
<1>5. Ledger([Opened EXCEPT ![Row.track] = stack], [pending EXCEPT ![Row.track] = waiting],
             (exported \cup Leftover) \cup x, Entered(rows, done) \cup NewCall)
  BY <1>3, <1>4, Moved
<1>6. Ledger(open', pending', exported', Entered(rows', done'))
  BY <1>1, <1>3, <1>5
<1>7. Recorded'
  BY <1>1, <1>2 DEF Recorded, Stacks
<1>8. Verified(rows', done') /\ (phase' = "record" => done' = 0)
  BY <1>1, <1>3
<1> QED BY <1>6, <1>7, <1>8 DEF OracleInv

LEMMA AtRow ==
  ASSUME OracleInv, done < Len(rows)
  PROVE  LET q == Opened[Row.track]
             w == pending[Row.track]
         IN  /\ \E S : q \in Seq(S) /\ w \in Seq(S)
             /\ DistinctAt(q) /\ DistinctAt(w) /\ RealAt(w)
             /\ \A c : ~(c \in CallsAt(q) /\ c \in CallsAt(w))
             /\ \A c \in NewCall : c \notin CallsAt(q) /\ c \notin CallsAt(w)
<1>1. /\ Row.track \in Tracks /\ \A c \in NewCall : c \notin Entered(rows, done)
  BY RowRead DEF OracleInv
<1>2. Ledger(Opened, pending, exported \cup Leftover, Entered(rows, done))
  BY SourceEnds
<1> QED BY <1>1, <1>2, HeldAt

(* Entries and exits export what waited for a reopen that did not come.     *)
LEMMA FlushedTold ==
  ASSUME OracleInv, done < Len(rows)
  PROVE  ToldOnce(Flushed) /\ CallsOf(Flushed) = CallsAt(pending[Row.track])
<1>1. DistinctAt(pending[Row.track]) /\ RealAt(pending[Row.track])
  BY AtRow
<1> QED BY <1>1, ToldFrom DEF Flushed

LEMMA EnterKeeps == ASSUME OracleInv, VerifyEnter PROVE OracleInv'
<1> DEFINE q == Opened[Row.track]
           w == pending[Row.track]
           i == NewInvocation(TRUE)
           s == Append(q, i)
<1>1. /\ phase = "verify" /\ done < Len(rows) /\ Row.kind = "enter"
      /\ Handle(s, <<>>, Flushed, FlushCodes)
  BY DEF VerifyEnter, Verifying
<1>2. i.call = Row.call /\ i.real
  BY DEF NewInvocation
<1>3. NewCall = {Row.call}
  BY <1>1 DEF NewCall
<1>4. PICK S : q \in Seq(S) /\ w \in Seq(S)
  BY <1>1, AtRow
<1>5. /\ DistinctAt(q) /\ \A c : ~(c \in CallsAt(q) /\ c \in CallsAt(w))
      /\ Row.call \notin CallsAt(q) /\ Row.call \notin CallsAt(w)
  BY <1>1, <1>3, AtRow
<1>6. ToldOnce(Flushed) /\ CallsOf(Flushed) = CallsAt(w)
  BY <1>1, FlushedTold
<1> HIDE DEF q, w, i
<1>7. s \in Seq(S \cup {i}) /\ DistinctAt(s) /\ CallsAt(s) = CallsAt(q) \cup {Row.call}
  BY <1>2, <1>4, <1>5, AppendKept
<1> HIDE DEF s
<1>8. Shared(s, <<>>, Flushed, CallsAt(q) \cup CallsAt(w) \cup NewCall)
  BY <1>3, <1>5, <1>6, <1>7, NothingHeld DEF Shared
<1> QED BY <1>1, <1>6, <1>7, <1>8, NothingHeld, HandleKeeps DEF q, w

(* A stack of the same calls, and nothing waits any longer.                 *)
LEMMA ProbeKeeps ==
  ASSUME OracleInv, phase = "verify", done < Len(rows), Row.kind = "probe",
         NEW S, NEW s \in Seq(S), DistinctAt(s), CallsAt(s) = CallsAt(Opened[Row.track]),
         NEW codes, Handle(s, <<>>, Flushed, codes)
  PROVE  OracleInv'
<1> DEFINE q == Opened[Row.track]
           w == pending[Row.track]
<1>1. NewCall = {}
  BY DEF NewCall
<1>2. \A c : ~(c \in CallsAt(q) /\ c \in CallsAt(w))
  BY AtRow
<1>3. ToldOnce(Flushed) /\ CallsOf(Flushed) = CallsAt(w)
  BY FlushedTold
<1>4. CallsAt(s) = CallsAt(q)
  OBVIOUS
<1> HIDE DEF q, w
<1>5. Shared(s, <<>>, Flushed, CallsAt(q) \cup CallsAt(w) \cup NewCall)
  BY <1>1, <1>2, <1>3, <1>4, NothingHeld DEF Shared
<1> QED BY <1>3, <1>5, NothingHeld, HandleKeeps DEF q, w

LEMMA ExitProbeKeeps == ASSUME OracleInv, VerifyExitProbe PROVE OracleInv'
<1> DEFINE q == Opened[Row.track]
           n == Exiting(q)
           r == [q EXCEPT ![n].exit = Row.call]
<1>1. phase = "verify" /\ done < Len(rows) /\ Row.kind = "probe"
  BY DEF VerifyExitProbe, Verifying
<1>2. PICK S : q \in Seq(S)
  BY <1>1, AtRow
<1>3. DistinctAt(q)
  BY <1>1, AtRow
<1>4. \/ \E codes : Handle(q, <<>>, Flushed, codes)
      \/ \E codes : Handle(r, <<>>, Flushed, codes)
  BY DEF VerifyExitProbe
<1>5. CASE \E codes : Handle(q, <<>>, Flushed, codes)
  BY <1>1, <1>2, <1>3, <1>5, ProbeKeeps
<1>6. CASE \E codes : Handle(r, <<>>, Flushed, codes)
  <2>1. PICK codes : Handle(r, <<>>, Flushed, codes)
    BY <1>6
  <2> DEFINE i == [q[n] EXCEPT !.exit = Row.call]
  <2>2. r = [q EXCEPT ![n] = i]
    OBVIOUS
  <2>3. i.real = q[n].real /\ i.call = q[n].call
    OBVIOUS
  <2> HIDE DEF i, r, n, q
  <2>4. Len(q) \in Nat /\ DOMAIN q = 1..Len(q) /\ DOMAIN r = DOMAIN q
    BY <1>2, <2>2, LenProperties
  <2>5. \A m \in DOMAIN q : r[m] = IF m = n THEN i ELSE q[m]
    BY <1>2, <2>2
  <2>6. r \in Seq(S \cup {i})
    <3>1. S \subseteq S \cup {i}
      OBVIOUS
    <3>2. q \in Seq(S \cup {i})
      BY <1>2, <3>1, SeqMonotonic
    <3>3. CASE n \in DOMAIN q
      <4>1. n \in 1..Len(q) /\ i \in S \cup {i}
        BY <2>4, <3>3
      <4> QED BY <2>2, <3>2, <4>1, ExceptSeq
    <3>4. CASE n \notin DOMAIN q
      <4>1. r = q
        BY <1>2, <2>2, <3>4
      <4> QED BY <3>2, <4>1
    <3> QED BY <3>3, <3>4
  <2>7. \A m \in DOMAIN q : (r[m].real <=> q[m].real) /\ r[m].call = q[m].call
    BY <2>3, <2>5
  <2>8. CallsAt(r) = CallsAt(q) /\ DistinctAt(r)
    BY <1>3, <2>4, <2>7, SameKept
  <2> QED BY <1>1, <2>1, <2>6, <2>8, ProbeKeeps DEF q
<1> QED BY <1>4, <1>5, <1>6

LEMMA LargestIs ==
  ASSUME NEW N \in Nat, NEW S \in SUBSET (0..N), S # {}
  PROVE  Max(S) \in S /\ \A n \in S : n <= Max(S)
<1> DEFINE R == {N - k : k \in S}
<1>1. R \in SUBSET Nat /\ R # {}
  <2>1. \A k \in S : N - k \in Nat
    OBVIOUS
  <2>2. PICK k : k \in S
    OBVIOUS
  <2>3. N - k \in R
    BY <2>2
  <2> QED BY <2>1, <2>3
<1>2. PICK m \in R : \A k \in R : m <= k
  BY <1>1, Least
<1>3. PICK x \in S : m = N - x
  OBVIOUS
<1>4. ASSUME NEW y \in S PROVE x >= y
  <2>1. N - y \in R
    OBVIOUS
  <2>2. N - x <= N - y
    BY <1>2, <1>3, <2>1
  <2> QED BY <2>2
<1>5. Max(S) \in S /\ \A y \in S : Max(S) >= y
  BY <1>4 DEF Max
<1> QED BY <1>5

LEMMA ReopenKeeps == ASSUME OracleInv, VerifyReopen PROVE OracleInv'
<1> DEFINE q     == Opened[Row.track]
           w     == pending[Row.track]
           found == {n \in DOMAIN w : Reopenable(w[n])}
           k     == Max(found)
           new   == NewInvocation(FALSE)
           back  == [w[k] EXCEPT !.reopens = @ + 1, !.closedIn = None]
<1>1. /\ phase = "verify" /\ done < Len(rows) /\ Row.kind = "reopen"
      /\ \/ found = {} /\ \E codes : Handle(Append(q, new), w, {}, codes)
         \/ found # {} /\ \E codes : Handle(Append(q, back), RemoveAt(w, k), {}, codes)
  BY DEF VerifyReopen, Verifying
<1>2. PICK S : q \in Seq(S) /\ w \in Seq(S)
  BY <1>1, AtRow
<1>3. /\ DistinctAt(q) /\ DistinctAt(w) /\ RealAt(w)
      /\ \A c : ~(c \in CallsAt(q) /\ c \in CallsAt(w))
  BY <1>1, AtRow
<1>4. NewCall = {}
  BY <1>1 DEF NewCall
<1>5. ~new.real
  BY DEF NewInvocation
<1>6. CASE found = {}
  <2> DEFINE s == Append(q, new)
  <2>1. PICK codes : Handle(s, w, {}, codes)
    BY <1>1, <1>6
  <2> HIDE DEF q, w, new, found, k
  <2>2. s \in Seq(S \cup {new}) /\ DistinctAt(s) /\ CallsAt(s) = CallsAt(q)
    BY <1>2, <1>3, <1>5, AppendKept
  <2> HIDE DEF s
  <2>3. Shared(s, w, {}, CallsAt(q) \cup CallsAt(w) \cup NewCall)
    BY <1>3, <1>4, <2>2, NothingHeld DEF Shared
  <2> QED BY <1>1, <1>2, <1>3, <2>1, <2>2, <2>3, NothingHeld, HandleKeeps DEF q, w
<1>7. CASE found # {}
  <2> DEFINE s == Append(q, back)
             v == RemoveAt(w, k)
  <2>1. PICK codes : Handle(s, v, {}, codes)
    BY <1>1, <1>7
  <2>2. k \in DOMAIN w
    <3>1. Len(w) \in Nat /\ found \in SUBSET (0..Len(w))
      BY <1>2, LenProperties
    <3> HIDE DEF found
    <3>2. k \in found
      BY <1>7, <3>1, LargestIs
    <3> QED BY <3>2 DEF found
  <2>3. back.real = w[k].real /\ back.call = w[k].call
    OBVIOUS
  <2> HIDE DEF q, w, back, found, k
  <2>4. w[k].real
    BY <1>3, <2>2 DEF RealAt
  <2>5. /\ v \in Seq(S) /\ DistinctAt(v) /\ RealAt(v)
        /\ CallsAt(v) = CallsAt(w) \ {w[k].call} /\ w[k].call \in CallsAt(w)
    BY <1>2, <1>3, <2>2, RemovedKept
  <2>6. /\ s \in Seq(S \cup {back}) /\ DistinctAt(s)
        /\ CallsAt(s) = CallsAt(q) \cup {w[k].call}
    BY <1>2, <1>3, <2>3, <2>4, <2>5, AppendKept
  <2> HIDE DEF s, v
  <2>7. Shared(s, v, {}, CallsAt(q) \cup CallsAt(w) \cup NewCall)
    BY <1>3, <1>4, <2>5, <2>6, NothingHeld DEF Shared
  <2> QED BY <1>1, <2>1, <2>5, <2>6, <2>7, NothingHeld, HandleKeeps DEF q, w
<1> QED BY <1>6, <1>7

LEMMA SliceEndKeeps == ASSUME OracleInv, VerifySliceEnd PROVE OracleInv'
<1> DEFINE q == Opened[Row.track]
           w == pending[Row.track]
           i == [Last(q) EXCEPT !.closedIn = Row.source]
           j == [i EXCEPT !.closes = @ + 1]
           s == Front(q)
<1>1. /\ phase = "verify" /\ done < Len(rows) /\ Row.kind = "end"
      /\ \/ q = <<>> /\ \E codes : Handle(q, w, {}, codes)
         \/ q # <<>> /\ ~i.real /\ \E codes : Handle(s, w, {}, codes)
         \/ /\ q # <<>> /\ i.real
            /\ \E kind, codes : Handle(s, w, {Export(i, kind)}, codes)
         \/ q # <<>> /\ i.real /\ \E codes : Handle(s, Append(w, j), {}, codes)
  BY DEF VerifySliceEnd, Verifying
<1>2. PICK S : q \in Seq(S) /\ w \in Seq(S)
  BY <1>1, AtRow
<1>3. /\ DistinctAt(q) /\ DistinctAt(w) /\ RealAt(w)
      /\ \A c : ~(c \in CallsAt(q) /\ c \in CallsAt(w))
  BY <1>1, AtRow
<1>4. NewCall = {}
  BY <1>1 DEF NewCall
<1>5. /\ i.real = Last(q).real /\ i.call = Last(q).call
      /\ j.real = Last(q).real /\ j.call = Last(q).call
  OBVIOUS
<1>6. q # <<>> => /\ s \in Seq(S) /\ DistinctAt(s)
                  /\ CallsAt(s) = CallsAt(q) \ (IF i.real THEN {i.call} ELSE {})
                  /\ i.real => i.call \in CallsAt(q)
  BY <1>2, <1>3, <1>5, FrontKept
<1> HIDE DEF q, w, i, j, s
<1>7. ASSUME q = <<>>, NEW codes, Handle(q, w, {}, codes) PROVE OracleInv'
  <2>1. Shared(q, w, {}, CallsAt(q) \cup CallsAt(w) \cup NewCall)
    BY <1>3, <1>4, NothingHeld DEF Shared
  <2> QED BY <1>1, <1>2, <1>3, <1>7, <2>1, NothingHeld, HandleKeeps DEF q, w
<1>8. ASSUME q # <<>>, ~i.real, NEW codes, Handle(s, w, {}, codes) PROVE OracleInv'
  <2>1. Shared(s, w, {}, CallsAt(q) \cup CallsAt(w) \cup NewCall)
    BY <1>3, <1>4, <1>6, <1>8, NothingHeld DEF Shared
  <2> QED BY <1>1, <1>2, <1>3, <1>6, <1>8, <2>1, NothingHeld, HandleKeeps DEF q, w
<1>9. ASSUME q # <<>>, i.real, NEW kind, NEW codes, Handle(s, w, {Export(i, kind)}, codes)
      PROVE  OracleInv'
  <2> DEFINE e == Export(i, kind)
  <2>1. e.invocation = i
    BY DEF Export
  <2> HIDE DEF e
  <2>2. ToldOnce({e}) /\ CallsOf({e}) = {i.call}
    BY <1>9, <2>1, ToldOne
  <2>3. Shared(s, w, {e}, CallsAt(q) \cup CallsAt(w) \cup NewCall)
    BY <1>3, <1>4, <1>6, <1>9, <2>2 DEF Shared
  <2>4. Handle(s, w, {e}, codes)
    BY <1>9 DEF e
  <2> QED BY <1>1, <1>2, <1>3, <1>6, <1>9, <2>2, <2>3, <2>4, HandleKeeps DEF q, w
<1>10. ASSUME q # <<>>, i.real, NEW codes, Handle(s, Append(w, j), {}, codes) PROVE OracleInv'
  <2> DEFINE v == Append(w, j)
  <2>1. j.real /\ j.call = i.call /\ j.call \notin CallsAt(w)
    BY <1>3, <1>5, <1>6, <1>10
  <2>2. v \in Seq(S \cup {j}) /\ DistinctAt(v) /\ RealAt(v) /\ CallsAt(v) = CallsAt(w) \cup {i.call}
    BY <1>2, <1>3, <2>1, AppendKept
  <2>3. Handle(s, v, {}, codes)
    BY <1>10
  <2> HIDE DEF v
  <2>4. Shared(s, v, {}, CallsAt(q) \cup CallsAt(w) \cup NewCall)
    BY <1>3, <1>4, <1>6, <1>10, <2>2, NothingHeld DEF Shared
  <2> QED BY <1>1, <1>6, <1>10, <2>2, <2>3, <2>4, NothingHeld, HandleKeeps DEF q, w
<1> QED BY <1>1, <1>7, <1>8, <1>9, <1>10

(* The end of the verification exports everything.                          *)
LEMMA FinishKeeps == ASSUME OracleInv, VerifyFinish PROVE OracleInv'
<1> DEFINE empty    == [t \in Tracks |-> <<>>]
           openKind == [i \in RealIn(open) |->
                          IF i.exit # None THEN "missing_slice_end" ELSE "in_flight"]
           waitKind == [i \in RealIn(pending) |->
                          IF i.closedIn = lastSource THEN "synthetic_close_in_flight"
                          ELSE "missing_reopen"]
           x == {Export(i, waitKind[i]) : i \in RealIn(pending)}
           y == {Export(i, openKind[i]) : i \in RealIn(open)}
<1>1. Ledger(open, pending, exported, Entered(rows, done))
  BY DEF OracleInv
<1>2. \A i \in UNION {ToSet(pending[t]) : t \in Tracks} : i.real
  BY <1>1 DEF Ledger, RealAt, ToSet
<1>3. RealIn(pending) = UNION {ToSet(pending[t]) : t \in Tracks}
  BY <1>2 DEF RealIn
<1>4. FinalPending = x
  BY <1>3 DEF FinalPending
<1>5. FinalOpen = y
  BY DEF FinalOpen, Unclosed, RealIn
<1> HIDE DEF openKind, waitKind
<1>6. ToldOnce(x) /\ CallsOf(x) = CallsIn(pending)
  BY <1>1, OpenTold DEF Ledger
<1>7. ToldOnce(y) /\ CallsOf(y) = CallsIn(open)
  BY <1>1, OpenTold DEF Ledger
<1> HIDE DEF x, y
<1>8. Ledger(open, empty, exported \cup x, Entered(rows, done))
  BY <1>1, <1>6, PendingEmptied
<1>9. Ledger(empty, empty, (exported \cup x) \cup y, Entered(rows, done))
  BY <1>7, <1>8, OpenEmptied
<1>10. /\ open' = empty /\ pending' = empty /\ exported' = (exported \cup x) \cup y
       /\ phase' = "verified" /\ UNCHANGED <<active, chunks, calls, rows, done>>
  BY <1>4, <1>5 DEF VerifyFinish, recording, recorded, indexed
<1>11. Recorded'
  BY <1>10 DEF OracleInv, Recorded, Stacks
<1>12. Ledger(open', pending', exported', Entered(rows', done'))
  BY <1>9, <1>10
<1>13. Verified(rows', done') /\ (phase' = "record" => done' = 0)
  BY <1>10 DEF OracleInv
<1> QED BY <1>11, <1>12, <1>13 DEF OracleInv

(* While recording, nothing is read yet.                                    *)
LEMMA RecordingKeeps ==
  ASSUME OracleInv, Recorded', UNCHANGED <<rows, done, open, pending, exported>>,
         phase = "record"
  PROVE  OracleInv'
<1>1. /\ Verified(rows, done) /\ done = 0
      /\ Ledger(open, pending, exported, Entered(rows, done))
  BY DEF OracleInv
<1>2. rows' = rows /\ done' = done /\ open' = open /\ pending' = pending /\ exported' = exported
  OBVIOUS
<1>3. Verified(rows', done') /\ done' = 0
  BY <1>1, <1>2
<1>4. Ledger(open', pending', exported', Entered(rows', done'))
  BY <1>1, <1>2
<1> QED BY <1>3, <1>4 DEF OracleInv

LEMMA BuildKeeps ==
  ASSUME OracleInv,
         \/ BuildAll \/ \E n \in DOMAIN chunks : BuildWithout(n)
         \/ \E n \in 1..(Len(chunks) - 1) : BuildSwapped(n)
  PROVE  OracleInv'
<1>1. Recorded /\ Verified(rows, done) /\ Ledger(open, pending, exported, Entered(rows, done))
  BY DEF OracleInv
<1>2. /\ UNCHANGED <<active, chunks, calls, done, open, pending, exported>>
      /\ phase = "record" /\ phase' = "verify"
  BY DEF BuildAll, BuildWithout, BuildSwapped, Build, recorded
<1>3. EntriesFit(rows') /\ done = 0
  BY <1>1, <1>2, BuildFits DEF OracleInv
<1>4. Entered(rows', done') = Entered(rows, done)
  BY <1>2, <1>3 DEF Entered
<1>5. Verified(rows', done')
  <2>1. PICK rs : rs = rows'
    OBVIOUS
  <2>2. EntriesFit(rs)
    BY <1>3, <2>1
  <2>3. PICK S : rs \in Seq(S)
    BY <2>2 DEF EntriesFit
  <2>4. 0 \in 0..Len(rs)
    BY <2>3, LenProperties
  <2>5. Verified(rs, 0)
    BY <2>2, <2>4 DEF Verified
  <2> QED BY <1>2, <1>3, <2>1, <2>5
<1>6. Recorded'
  BY <1>1, <1>2 DEF Recorded, Stacks
<1>7. Ledger(open', pending', exported', Entered(rows', done'))
  BY <1>1, <1>2, <1>4
<1>8. phase' # "record"
  BY <1>2
<1> QED BY <1>5, <1>6, <1>7, <1>8 DEF OracleInv

LEMMA OracleInit == Init => OracleInv
<1> SUFFICES ASSUME Init PROVE OracleInv
  OBVIOUS
<1> DEFINE e == [t \in Tracks |-> <<>>]
<1>1. /\ active = e /\ chunks = <<<<>>>> /\ calls = 0 /\ rows = <<>> /\ done = 0
      /\ open = e /\ pending = e /\ exported = {}
  BY DEF Init
<1>2. /\ CallsIn(e) = {} /\ Stacks(e) /\ Apart(e) /\ \A t \in Tracks : RealAt(e[t])
      /\ ToldOnce({}) /\ CallsOf({}) = {}
  BY NothingHeld
<1> HIDE DEF e
<1>3. ChunksFit(chunks, calls) /\ Len(chunks) > 0
  <2>1. <<<<>>>> \in Seq(Seq({})) /\ Len(<<<<>>>>) > 0
    OBVIOUS
  <2>2. \A i \in DOMAIN <<<<>>>> : DOMAIN <<<<>>>>[i] = {}
    OBVIOUS
  <2>3. \A k : ChunksFit(<<<<>>>>, k)
    BY <2>1, <2>2 DEF ChunksFit
  <2> QED BY <1>1, <2>1, <2>3
<1>4. Recorded
  BY <1>1, <1>2, <1>3 DEF Recorded
<1>5. Verified(rows, done)
  <2>1. <<>> \in Seq({}) /\ Len(<<>>) = 0 /\ DOMAIN <<>> = {}
    OBVIOUS
  <2> QED BY <1>1, <2>1 DEF Verified, EntriesFit
<1>6. Ledger(open, pending, exported, Entered(rows, done))
  <2>1. Entered(rows, 0) = {}
    BY DEF Entered
  <2> QED BY <1>1, <1>2, <2>1 DEF Ledger
<1> QED BY <1>1, <1>4, <1>5, <1>6 DEF OracleInv

LEMMA OracleStep == ASSUME OracleInv, [Next]_vars PROVE OracleInv'
<1>1. CASE UNCHANGED vars
  <2>1. UNCHANGED <<active, chunks, calls, rows, done, open, pending, exported, phase>>
    BY <1>1 DEF vars, recording, recorded, indexed, verifying
  <2>2. Recorded /\ Recorded'
    BY <2>1 DEF OracleInv, Recorded, Stacks
  <2>3. /\ Verified(rows', done') /\ (phase' = "record" => done' = 0)
        /\ Ledger(open', pending', exported', Entered(rows', done'))
    BY <2>1 DEF OracleInv
  <2> QED BY <2>2, <2>3 DEF OracleInv
<1>2. ASSUME NEW t \in Tracks, NEW f \in Functions, Enter(t, f) PROVE OracleInv'
  <2>1. Recorded'
    BY <1>2, EnterRecords DEF OracleInv
  <2>2. phase = "record" /\ UNCHANGED <<rows, done, open, pending, exported>>
    BY <1>2 DEF Enter, indexed, verifying
  <2> QED BY <2>1, <2>2, RecordingKeeps
<1>3. ASSUME NEW t \in Tracks,
             \/ Return(t) \/ ReturnUnprobed(t)
             \/ \E f \in {"twice", "unended"} : ReturnMalformed(t, f)
      PROVE  OracleInv'
  <2>1. Recorded'
    BY <1>3, ReturnsRecord DEF OracleInv
  <2>2. phase = "record" /\ UNCHANGED <<rows, done, open, pending, exported>>
    BY <1>3 DEF Return, ReturnUnprobed, ReturnMalformed, indexed, verifying
  <2> QED BY <2>1, <2>2, RecordingKeeps
<1>4. CASE Drop \/ Rotate \/ Crash
  <2>1. Recorded'
    BY <1>4, DropRecords, RotateRecords, CrashRecords DEF OracleInv
  <2>2. phase = "record" /\ UNCHANGED <<rows, done, open, pending, exported>>
    BY <1>4 DEF Drop, Rotate, Crash, indexed, verifying
  <2> QED BY <2>1, <2>2, RecordingKeeps
<1> QED BY <1>1, <1>2, <1>3, <1>4, BuildKeeps, EnterKeeps, ReopenKeeps, ExitProbeKeeps,
           SliceEndKeeps, FinishKeeps DEF Next

(* What is known is one invocation of each call entered.                    *)
LEMMA KnownOnce == OracleInv => OncePerCall
<1> SUFFICES ASSUME OracleInv PROVE OncePerCall
  OBVIOUS
<1> DEFINE x == {Export(i, "open") : i \in Unclosed}
           y == {Export(i, "pending") : i \in UNION {ToSet(pending[t]) : t \in Tracks}}
           f == [i \in RealIn(open) |-> "open"]
           g == [i \in RealIn(pending) |-> "pending"]
           xx == {Export(i, f[i]) : i \in RealIn(open)}
           yy == {Export(i, g[i]) : i \in RealIn(pending)}
           empty == [t \in Tracks |-> <<>>]
           C == Entered(rows, done)
<1>1. Ledger(open, pending, exported, C)
  BY DEF OracleInv
<1>2. x = xx
  BY DEF Unclosed, RealIn
<1>3. y = yy
  <2>1. \A i \in UNION {ToSet(pending[t]) : t \in Tracks} : i.real
    BY <1>1 DEF Ledger, RealAt, ToSet
  <2>2. RealIn(pending) = UNION {ToSet(pending[t]) : t \in Tracks}
    BY <2>1 DEF RealIn
  <2> QED BY <2>2
<1>4. Known = (exported \cup x) \cup y
  BY DEF Known
<1> HIDE DEF f, g, x, y
<1>5. ToldOnce(xx) /\ CallsOf(xx) = CallsIn(open)
  BY <1>1, OpenTold DEF Ledger
<1>6. ToldOnce(yy) /\ CallsOf(yy) = CallsIn(pending)
  BY <1>1, OpenTold DEF Ledger
<1> HIDE DEF xx, yy
<1>7. Ledger(empty, pending, exported \cup xx, C)
  BY <1>1, <1>5, OpenEmptied
<1>8. Ledger(empty, empty, Known, C)
  BY <1>2, <1>3, <1>4, <1>6, <1>7, PendingEmptied
<1>9. /\ ToldOnce(Known) /\ CallsOf(Known) = C
  BY <1>8, NothingHeld DEF Ledger
<1>10. C = {rows[n].call : n \in Of("enter")}
  BY DEF Entered, Of
<1>11. Cardinality(Known) = Cardinality(Of("enter"))
  <2> DEFINE T == Of("enter")
             b == [e \in Known |-> CHOOSE n \in T : rows[n].call = e.invocation.call]
  <2>1. \A e \in Known : \E n \in T : rows[n].call = e.invocation.call
    BY <1>9, <1>10 DEF CallsOf
  <2>2. \A n \in T : \E e \in Known : e.invocation.call = rows[n].call
    BY <1>9, <1>10 DEF CallsOf
  <2>3. \A n, m \in T : rows[n].call = rows[m].call => n = m
    <3>1. EntriesFit(rows) /\ done \in 0..Len(rows)
      BY DEF OracleInv, Verified
    <3>2. PICK S : rows \in Seq(S)
      BY <3>1 DEF EntriesFit
    <3>3. Len(rows) \in Nat /\ DOMAIN rows = 1..Len(rows)
      BY <3>2, LenProperties
    <3>4. \A n \in T : n \in DOMAIN rows /\ rows[n].kind = "enter"
      BY <3>1, <3>3 DEF Of
    <3> QED BY <3>1, <3>4 DEF EntriesFit
  <2>4. \A e \in Known : b[e] \in T /\ rows[b[e]].call = e.invocation.call
    BY <2>1
  <2>5. b \in [Known -> T]
    BY <2>1
  <2> HIDE DEF b
  <2>6. \A d, e \in Known : b[d] = b[e] => d = e
    BY <1>9, <2>4 DEF ToldOnce
  <2>7. \A n \in T : \E e \in Known : b[e] = n
    BY <2>2, <2>3, <2>4
  <2>8. b \in Bijection(Known, T)
    BY <2>5, <2>6, <2>7 DEF Bijection, Injection, Surjection, IsInjective
  <2>9. ExistsBijection(T, Known)
    <3>1. ExistsBijection(Known, T)
      BY <2>8 DEF ExistsBijection
    <3> QED BY <3>1, Fun_ExistsBijSymmetric
  <2>10. IsFiniteSet(T)
    <3>1. done \in Int
      <4>1. rows \in Seq({rows[n] : n \in DOMAIN rows})
        BY DEF OracleInv, Verified, EntriesFit
      <4> QED BY <4>1 DEF OracleInv, Verified
    <3>2. IsFiniteSet(1..done)
      BY <3>1, FS_Interval
    <3>3. T \in SUBSET (1..done)
      BY DEF Of
    <3> QED BY <3>2, <3>3, FS_Subset
  <2> HIDE DEF T
  <2>11. Cardinality(Known) = Cardinality(T)
    BY <2>9, <2>10, FS_Bijection
  <2> QED BY <2>11 DEF T
<1> QED BY <1>9, <1>10, <1>11 DEF OncePerCall, ToldOnce, CallsOf

(* No call is lost and none is counted twice, in every recording, whatever  *)
(* events are missing, doubled or malformed, whether chunks are lost or out *)
(* of order: verify_trace_index holds one real invocation of each entry it  *)
(* has read, on an open stack, among the pending reopens or exported.       *)
THEOREM CallsAreKept == Spec => []OncePerCall
<1>1. Init => OracleInv
  BY OracleInit
<1>2. OracleInv /\ [Next]_vars => OracleInv'
  BY OracleStep
<1>3. OracleInv => OncePerCall
  BY KnownOnce
<1> QED BY <1>1, <1>2, <1>3, PTL DEF Spec

----------------------------------------------------------------------------
(* What is flattened is in order: the sequences one after the other, and    *)
(* all of each.                                                             *)
Before(a, b) == a[1] < b[1] \/ (a[1] = b[1] /\ a[2] < b[2])
Ordered(seqs, flat, from, k) ==
  /\ \A n \in DOMAIN flat :
       /\ from[n][1] \in 1..k /\ from[n][2] \in DOMAIN seqs[from[n][1]]
       /\ flat[n] = seqs[from[n][1]][from[n][2]]
  /\ \A n, m \in DOMAIN flat : n < m => Before(from[n], from[m])
  /\ \A i \in 1..k : \A p \in DOMAIN seqs[i] :
       \E n \in DOMAIN flat : from[n][1] = i /\ from[n][2] = p

LEMMA ConcatOrdered ==
  ASSUME NEW S, NEW seqs, NEW k \in Nat, NEW flat \in Seq(S), seqs[k + 1] \in Seq(S),
         NEW from, Ordered(seqs, flat, from, k)
  PROVE  \E origin : Ordered(seqs, flat \o seqs[k + 1], origin, k + 1)
<1> DEFINE next   == seqs[k + 1]
           both   == flat \o next
           origin == [n \in DOMAIN both |->
                        IF n <= Len(flat) THEN from[n] ELSE <<k + 1, n - Len(flat)>>]
<1>1. /\ both \in Seq(S) /\ Len(flat) \in Nat /\ Len(next) \in Nat
      /\ DOMAIN both = 1..(Len(flat) + Len(next))
      /\ DOMAIN flat = 1..Len(flat) /\ DOMAIN next = 1..Len(next)
      /\ \A n \in 1..(Len(flat) + Len(next)) :
           both[n] = IF n <= Len(flat) THEN flat[n] ELSE next[n - Len(flat)]
  BY ConcatProperties, LenProperties
<1>2. \A n \in DOMAIN both : origin[n] = IF n <= Len(flat) THEN from[n]
                                         ELSE <<k + 1, n - Len(flat)>>
  OBVIOUS
<1>3. next = seqs[k + 1]
  OBVIOUS
<1> HIDE DEF both, next, origin
<1>4. ASSUME NEW n \in DOMAIN both, n <= Len(flat)
      PROVE  /\ n \in DOMAIN flat /\ origin[n] = from[n] /\ both[n] = flat[n]
             /\ from[n][1] \in 1..k /\ from[n][2] \in DOMAIN seqs[from[n][1]]
             /\ flat[n] = seqs[from[n][1]][from[n][2]]
  <2>1. n \in DOMAIN flat
    BY <1>1, <1>4
  <2> QED BY <1>1, <1>2, <1>4, <2>1 DEF Ordered
<1>5. ASSUME NEW n \in DOMAIN both, ~(n <= Len(flat))
      PROVE  /\ origin[n][1] = k + 1 /\ origin[n][2] = n - Len(flat) /\ n - Len(flat) \in DOMAIN next
             /\ both[n] = next[n - Len(flat)]
  <2>1. n \in 1..(Len(flat) + Len(next))
    BY <1>1
  <2>2. n - Len(flat) \in 1..Len(next)
    BY <1>1, <1>5, <2>1
  <2>3. origin[n] = <<k + 1, n - Len(flat)>>
    BY <1>2, <1>5
  <2> QED BY <1>1, <1>5, <2>1, <2>2, <2>3
<1>6. ASSUME NEW n \in DOMAIN both
      PROVE  /\ origin[n][1] \in 1..(k + 1) /\ origin[n][2] \in DOMAIN seqs[origin[n][1]]
             /\ both[n] = seqs[origin[n][1]][origin[n][2]]
  <2>1. CASE n <= Len(flat)
    BY <1>4, <2>1
  <2>2. CASE ~(n <= Len(flat))
    BY <1>3, <1>5, <2>2
  <2> QED BY <2>1, <2>2
<1>7. ASSUME NEW n \in DOMAIN both, NEW m \in DOMAIN both, n < m
      PROVE  Before(origin[n], origin[m])
  <2>1. n \in 1..(Len(flat) + Len(next)) /\ m \in 1..(Len(flat) + Len(next))
    BY <1>1
  <2>2. CASE m <= Len(flat)
    <3>1. n <= Len(flat)
      BY <1>1, <1>7, <2>1, <2>2
    <3>2. Before(from[n], from[m])
      BY <1>4, <1>7, <2>2, <3>1 DEF Ordered
    <3> QED BY <1>4, <2>2, <3>1, <3>2
  <2>3. CASE ~(m <= Len(flat)) /\ n <= Len(flat)
    <3>1. origin[n][1] \in 1..k /\ origin[m][1] = k + 1
      BY <1>4, <1>5, <2>3
    <3> QED BY <3>1 DEF Before
  <2>4. CASE ~(n <= Len(flat))
    <3>1. ~(m <= Len(flat))
      BY <1>1, <1>7, <2>1, <2>4
    <3>2. /\ origin[n][1] = k + 1 /\ origin[n][2] = n - Len(flat)
          /\ origin[m][1] = k + 1 /\ origin[m][2] = m - Len(flat)
      BY <1>5, <2>4, <3>1
    <3>3. n - Len(flat) < m - Len(flat)
      BY <1>1, <1>7, <2>1
    <3> QED BY <3>2, <3>3 DEF Before
  <2> QED BY <2>2, <2>3, <2>4
<1>8. ASSUME NEW i \in 1..(k + 1), NEW p \in DOMAIN seqs[i]
      PROVE  \E n \in DOMAIN both : origin[n][1] = i /\ origin[n][2] = p
  <2>1. CASE i = k + 1
    <3> DEFINE n == Len(flat) + p
    <3>1. p \in 1..Len(next)
      BY <1>1, <1>3, <2>1
    <3>2. n \in 1..(Len(flat) + Len(next)) /\ ~(n <= Len(flat)) /\ n - Len(flat) = p
      BY <1>1, <3>1
    <3> HIDE DEF n
    <3> QED BY <1>1, <1>5, <2>1, <3>2
  <2>2. CASE i # k + 1
    <3>1. i \in 1..k
      BY <2>2
    <3>2. PICK n \in DOMAIN flat : from[n][1] = i /\ from[n][2] = p
      BY <3>1 DEF Ordered
    <3>3. n \in DOMAIN both /\ n <= Len(flat)
      BY <1>1
    <3> QED BY <1>4, <3>2, <3>3
  <2> QED BY <2>1, <2>2
<1>9. Ordered(seqs, both, origin, k + 1)
  BY <1>6, <1>7, <1>8 DEF Ordered
<1> QED BY <1>9 DEF both, next

LEMMA FlattenOrdered ==
  ASSUME NEW S, NEW seqs \in Seq(Seq(S))
  PROVE  /\ FlattenSeq(seqs) \in Seq(S)
         /\ \E from : Ordered(seqs, FlattenSeq(seqs), from, Len(seqs))
<1>1. Len(seqs) \in Nat /\ \A i \in 1..Len(seqs) : seqs[i] \in Seq(S)
  BY LenProperties, ElementOfSeq
<1>2. CASE Len(seqs) = 0
  <2>1. FlattenSeq(seqs) = <<>>
    BY <1>2 DEF FlattenSeq
  <2>2. Ordered(seqs, <<>>, <<>>, Len(seqs))
    BY <1>2 DEF Ordered
  <2> QED BY <2>1, <2>2
<1>3. CASE Len(seqs) # 0
  <2> DEFINE N == Len(seqs)
             flatten[i \in 1..Len(seqs)] == IF i = 1 THEN seqs[i] ELSE flatten[i-1] \o seqs[i]
  <2>1. FlattenSeq(seqs) = flatten[Len(seqs)]
    BY <1>3, Zenon DEF FlattenSeq
  <2>2. flatten = CHOOSE f : f = [i \in 1..Len(seqs) |-> IF i = 1 THEN seqs[i]
                                                         ELSE f[i - 1] \o seqs[i]]
    BY Zenon
  <2> HIDE DEF flatten
  <2>3. flatten = [i \in 1..N |-> Flattened(seqs, flatten, i)]
    BY <1>1, <2>2, FlatExists DEF Flattened
  <2>4. \A i \in 1..N : flatten[i] = Flattened(seqs, flatten, i)
    BY <2>3
  <2> DEFINE Good(i) == flatten[i] \in Seq(S) /\ \E from : Ordered(seqs, flatten[i], from, i)
             Bad == {i \in 1..N : ~Good(i)}
  <2>5. Good(1)
    <3> DEFINE from == [n \in DOMAIN seqs[1] |-> <<1, n>>]
    <3>1. 1 \in 1..N
      BY <1>1, <1>3
    <3>2. flatten[1] = seqs[1]
      BY <2>4, <3>1 DEF Flattened
    <3>3. \A n \in DOMAIN seqs[1] : from[n] = <<1, n>>
      OBVIOUS
    <3> HIDE DEF from
    <3>4. Ordered(seqs, seqs[1], from, 1)
      BY <3>3 DEF Ordered, Before
    <3> QED BY <1>1, <3>1, <3>2, <3>4
  <2>6. ASSUME NEW i \in 1..N, Good(i), i + 1 \in 1..N PROVE Good(i + 1)
    <3>1. flatten[i + 1] = flatten[i] \o seqs[i + 1]
      <4>1. i + 1 # 1 /\ (i + 1) - 1 = i
        BY <2>6
      <4>2. flatten[i + 1] = Flattened(seqs, flatten, i + 1)
        BY <2>4, <2>6
      <4> QED BY <4>1, <4>2 DEF Flattened
    <3>2. PICK from : Ordered(seqs, flatten[i], from, i)
      BY <2>6
    <3>3. seqs[i + 1] \in Seq(S) /\ flatten[i] \in Seq(S) /\ i \in Nat
      BY <1>1, <2>6
    <3>4. \E origin : Ordered(seqs, flatten[i] \o seqs[i + 1], origin, i + 1)
      BY <3>2, <3>3, ConcatOrdered
    <3> QED BY <3>1, <3>3, <3>4, ConcatProperties
  <2>7. Bad = {}
    <3> SUFFICES ASSUME Bad # {} PROVE FALSE
      OBVIOUS
    <3>1. Bad \in SUBSET Nat
      OBVIOUS
    <3>2. PICK m \in Bad : \A k \in Bad : m <= k
      BY <3>1, Least
    <3>3. m \in 1..N /\ ~Good(m)
      BY <3>2
    <3>4. m # 1
      BY <2>5, <3>3
    <3>5. m - 1 \in 1..N /\ m - 1 \notin Bad /\ (m - 1) + 1 = m
      <4>1. m - 1 \in 1..N /\ (m - 1) + 1 = m /\ ~(m <= m - 1)
        BY <1>1, <3>3, <3>4
      <4> HIDE DEF Bad
      <4> QED BY <3>2, <4>1
    <3>6. Good(m - 1)
      BY <3>5
    <3> HIDE DEF Good, Bad
    <3> QED BY <2>6, <3>3, <3>5, <3>6
  <2>8. N \in 1..N
    BY <1>1, <1>3
  <2>9. Good(N)
    BY <2>7, <2>8
  <2> QED BY <2>1, <2>9
<1> QED BY <1>2, <1>3

Place(from, n, i, p) == i = from[n][1] /\ p = from[n][2]
Void(cs, a, b) == \A m \in a..b : cs[m] = <<>>
Continues(cs, i, p, j, q) ==
  \/ j = i /\ q = p + 1
  \/ i < j /\ p = Len(cs[i]) /\ q = 1 /\ Void(cs, i + 1, j - 1)

(* From a position to the next: within a sequence, or from the end of one   *)
(* to the start of the next that is not empty.                              *)
LEMMA Following ==
  ASSUME NEW S, NEW seqs \in Seq(Seq(S)), NEW flat \in Seq(S), NEW from,
         Ordered(seqs, flat, from, Len(seqs)),
         NEW n \in DOMAIN flat, NEW o \in DOMAIN flat, o = n + 1,
         NEW i \in Nat, NEW p \in Nat, NEW j \in Nat, NEW q \in Nat, Place(from, n, i, p),
         Place(from, o, j, q)
  PROVE  Continues(seqs, i, p, j, q)
<1>1. /\ Len(seqs) \in Nat /\ DOMAIN flat = 1..Len(flat) /\ Len(flat) \in Nat
      /\ \A m \in 1..Len(seqs) : /\ seqs[m] \in Seq(S) /\ Len(seqs[m]) \in Nat
                                 /\ DOMAIN seqs[m] = 1..Len(seqs[m])
  BY LenProperties, ElementOfSeq
<1>0. i = from[n][1] /\ p = from[n][2] /\ j = from[o][1] /\ q = from[o][2]
  BY DEF Place
<1>2. /\ i \in 1..Len(seqs) /\ p \in 1..Len(seqs[i])
      /\ j \in 1..Len(seqs) /\ q \in 1..Len(seqs[j])
  BY <1>0, <1>1 DEF Ordered
<1>b. /\ i \in Nat /\ p \in Nat /\ j \in Nat /\ q \in Nat /\ n \in Nat
      /\ Len(seqs[i]) \in Nat /\ Len(seqs[j]) \in Nat /\ i <= Len(seqs) /\ j <= Len(seqs)
      /\ 1 <= i /\ 1 <= p /\ p <= Len(seqs[i]) /\ 1 <= j /\ 1 <= q /\ q <= Len(seqs[j])
  BY <1>1, <1>2
<1>3. i < j \/ (i = j /\ p < q)
  <2>1. n \in Nat /\ n < o
    BY <1>1
  <2>2. Before(from[n], from[o])
    BY <2>1 DEF Ordered
  <2> QED BY <1>0, <1>2, <2>2 DEF Before
<1>4. ASSUME NEW a \in 1..Len(seqs), NEW b \in 1..Len(seqs[a]),
             i < a \/ (i = a /\ p < b), a < j \/ (a = j /\ b < q)
      PROVE  FALSE
  <2>b. a \in Nat /\ b \in Nat
    <3>1. Len(seqs[a]) \in Nat /\ Len(seqs) \in Nat
      BY <1>1
    <3> QED BY <3>1
  <2>a. b \in DOMAIN seqs[a]
    BY <1>1
  <2>1. PICK m \in DOMAIN flat : from[m][1] = a /\ from[m][2] = b
    BY <2>a DEF Ordered
  <2>2. CASE m < n
    <3>1. Before(from[m], from[n])
      BY <2>2 DEF Ordered
    <3>2. a < i \/ (a = i /\ b < p)
      BY <1>0, <2>1, <3>1 DEF Before
    <3> QED BY <1>b, <1>4, <2>b, <3>2
  <2>3. CASE m = n
    <3>1. a = i /\ b = p
      BY <1>0, <2>1, <2>3
    <3> QED BY <1>b, <1>4, <3>1
  <2>4. CASE m = o
    BY <1>b, <1>0, <1>4, <2>1, <2>b, <2>4
  <2>5. CASE o < m
    <3>1. Before(from[o], from[m])
      BY <2>5 DEF Ordered
    <3>2. j < a \/ (j = a /\ q < b)
      BY <1>0, <2>1, <3>1 DEF Before
    <3> QED BY <1>b, <1>4, <2>b, <3>2
  <2> QED BY <1>1, <2>2, <2>3, <2>4, <2>5
<1>5. CASE i = j
  <2>1. p + 1 \in 1..Len(seqs[i]) /\ p < p + 1
    BY <1>b, <1>3, <1>5
  <2>2. ~(p + 1 < q)
    <3>1. SUFFICES ASSUME p + 1 < q PROVE FALSE
      OBVIOUS
    <3>2. PICK b \in 1..Len(seqs[i]) : b = p + 1
      BY <2>1
    <3>3. i = i /\ p < b /\ i = j /\ b < q
      BY <1>5, <2>1, <3>1, <3>2
    <3> QED BY <1>2, <1>4, <3>3
  <2> QED BY <1>b, <1>3, <1>5, <2>2 DEF Continues
<1>6. CASE i < j
  <2>1. p = Len(seqs[i])
    <3>1. SUFFICES ASSUME p # Len(seqs[i]) PROVE FALSE
      OBVIOUS
    <3>2. p + 1 \in 1..Len(seqs[i]) /\ p < p + 1
      BY <1>b, <3>1
    <3> QED BY <1>2, <1>4, <1>6, <3>2
  <2>2. q = 1
    <3>1. SUFFICES ASSUME q # 1 PROVE FALSE
      OBVIOUS
    <3>2. 1 \in 1..Len(seqs[j]) /\ 1 < q
      BY <1>b, <3>1
    <3> QED BY <1>2, <1>4, <1>6, <3>2
  <2>3. ASSUME NEW m \in (i + 1)..(j - 1) PROVE seqs[m] = <<>>
    <3>1. m \in 1..Len(seqs) /\ i < m /\ m < j
      BY <1>b
    <3>2. 1 \notin 1..Len(seqs[m])
      BY <1>4, <3>1
    <3>3. Len(seqs[m]) = 0
      BY <1>1, <3>1, <3>2
    <3> QED BY <1>1, <3>1, <3>3, EmptySeq
  <2>4. Void(seqs, i + 1, j - 1)
    BY <2>3 DEF Void
  <2> QED BY <1>6, <2>1, <2>2, <2>4 DEF Continues
<1> QED BY <1>b, <1>3, <1>5, <1>6

LEMMA FirstPlace ==
  ASSUME NEW S, NEW seqs \in Seq(Seq(S)), NEW flat \in Seq(S), NEW from,
         Ordered(seqs, flat, from, Len(seqs)), 1 \in DOMAIN flat,
         NEW j, NEW q, Place(from, 1, j, q)
  PROVE  q = 1 /\ \A m \in 1..(j - 1) : seqs[m] = <<>>
<1>0. j = from[1][1] /\ q = from[1][2]
  BY DEF Place
<1>1. /\ Len(seqs) \in Nat /\ DOMAIN flat = 1..Len(flat) /\ Len(flat) \in Nat
      /\ \A m \in 1..Len(seqs) : /\ seqs[m] \in Seq(S) /\ Len(seqs[m]) \in Nat
                                 /\ DOMAIN seqs[m] = 1..Len(seqs[m])
  BY LenProperties, ElementOfSeq
<1>2. j \in 1..Len(seqs) /\ q \in 1..Len(seqs[j])
  BY <1>0, <1>1 DEF Ordered
<1>3. ASSUME NEW a \in 1..Len(seqs), NEW b \in 1..Len(seqs[a]), a < j \/ (a = j /\ b < q)
      PROVE  FALSE
  <2>a. b \in DOMAIN seqs[a]
    BY <1>1
  <2>1. PICK m \in DOMAIN flat : from[m][1] = a /\ from[m][2] = b
    BY <2>a DEF Ordered
  <2>2. CASE m = 1
    BY <1>0, <1>1, <1>2, <1>3, <2>1, <2>2
  <2>3. CASE 1 < m
    <3>1. Before(from[1], from[m])
      BY <2>3 DEF Ordered
    <3> QED BY <1>0, <1>1, <1>2, <1>3, <2>1, <3>1 DEF Before
  <2> QED BY <1>1, <2>2, <2>3
<1>4. q = 1
  <2>1. 1 \in 1..Len(seqs[j])
    BY <1>1, <1>2
  <2> QED BY <1>0, <1>1, <1>2, <1>3, <2>1
<1>5. ASSUME NEW m \in 1..(j - 1) PROVE seqs[m] = <<>>
  <2>1. m \in 1..Len(seqs) /\ m < j
    BY <1>1, <1>2
  <2>2. 1 \notin 1..Len(seqs[m])
    BY <1>3, <2>1
  <2>3. Len(seqs[m]) = 0
    BY <1>1, <2>1, <2>2
  <2> QED BY <1>1, <2>1, <2>3, EmptySeq
<1> QED BY <1>4, <1>5

LEMMA OneWay ==
  ASSUME NEW a \in Nat, NEW b \in Nat, NEW i \in Nat, NEW p \in Nat,
         i < a \/ (i = a /\ p < b), a < i \/ (a = i /\ b < p)
  PROVE  FALSE
OBVIOUS

LEMMA LastPlace ==
  ASSUME NEW S, NEW seqs \in Seq(Seq(S)), NEW flat \in Seq(S), NEW from,
         Ordered(seqs, flat, from, Len(seqs)), flat # <<>>,
         NEW i, NEW p, i = from[Len(flat)][1], p = from[Len(flat)][2]
  PROVE  p = Len(seqs[i]) /\ \A m \in (i + 1)..Len(seqs) : seqs[m] = <<>>
<1>1. /\ Len(seqs) \in Nat /\ DOMAIN flat = 1..Len(flat) /\ Len(flat) \in Nat
      /\ \A m \in 1..Len(seqs) : /\ seqs[m] \in Seq(S) /\ Len(seqs[m]) \in Nat
                                 /\ DOMAIN seqs[m] = 1..Len(seqs[m])
  BY LenProperties, ElementOfSeq
<1>a. Len(flat) \in DOMAIN flat
  BY <1>1, EmptySeq
<1>2. i \in 1..Len(seqs) /\ p \in 1..Len(seqs[i])
  BY <1>1, <1>a DEF Ordered
<1>3. ASSUME NEW a \in 1..Len(seqs), NEW b \in 1..Len(seqs[a]), i < a \/ (i = a /\ p < b)
      PROVE  FALSE
  <2>a. b \in DOMAIN seqs[a]
    BY <1>1
  <2>1. PICK m \in DOMAIN flat : from[m][1] = a /\ from[m][2] = b
    BY <2>a DEF Ordered
  <2>2. CASE m = Len(flat)
    BY <1>1, <1>2, <1>3, <2>1, <2>2
  <2>3. CASE m < Len(flat)
    <3>1. Before(from[m], from[Len(flat)])
      BY <1>a, <2>3 DEF Ordered
    <3>2. a \in Nat /\ b \in Nat /\ i \in Nat /\ p \in Nat
      BY <1>1, <1>2
    <3>3. a < i \/ (a = i /\ b < p)
      BY <2>1, <3>1 DEF Before
    <3> QED BY <1>3, <3>2, <3>3, OneWay
  <2> QED BY <1>1, <2>2, <2>3
<1>4. p = Len(seqs[i])
  <2>1. SUFFICES ASSUME p # Len(seqs[i]) PROVE FALSE
    OBVIOUS
  <2>2. p + 1 \in 1..Len(seqs[i]) /\ p < p + 1
    BY <1>1, <1>2, <2>1
  <2> QED BY <1>2, <1>3, <2>2
<1>5. ASSUME NEW m \in (i + 1)..Len(seqs) PROVE seqs[m] = <<>>
  <2>1. m \in 1..Len(seqs) /\ i < m
    BY <1>1, <1>2
  <2>2. 1 \notin 1..Len(seqs[m])
    BY <1>3, <2>1
  <2>3. Len(seqs[m]) = 0
    BY <1>1, <2>1, <2>2
  <2> QED BY <1>1, <2>1, <2>3, EmptySeq
<1> QED BY <1>4, <1>5

(* The table of the chunks cs: row n is of event from[n][2] of chunk        *)
(* from[n][1].                                                              *)
SameEvent(row, e) ==
  /\ row.kind = e.kind /\ row.track = e.track /\ row.call = e.call
  /\ row.function = e.function /\ row.id = e.id /\ row.sequence = e.sequence
Tabled(cs, rs, from) ==
  /\ \A n \in DOMAIN rs :
       /\ from[n][1] \in DOMAIN cs /\ from[n][2] \in DOMAIN cs[from[n][1]]
       /\ SameEvent(rs[n], cs[from[n][1]][from[n][2]]) /\ rs[n].source = from[n][1]
  /\ \A n, m \in DOMAIN rs : n < m => Before(from[n], from[m])
  /\ \A i \in DOMAIN cs : \A p \in DOMAIN cs[i] : \E n \in DOMAIN rs : Place(from, n, i, p)
  /\ \A n, o \in DOMAIN rs :
       o = n + 1 => Continues(cs, from[n][1], from[n][2], from[o][1], from[o][2])
  /\ 1 \in DOMAIN rs => /\ from[1][2] = 1
                        /\ \A m \in 1..(from[1][1] - 1) : cs[m] = <<>>
  /\ rs # <<>> => /\ from[Len(rs)][2] = Len(cs[from[Len(rs)][1]])
                  /\ \A m \in (from[Len(rs)][1] + 1)..Len(cs) : cs[m] = <<>>

LEMMA RowsTabled ==
  ASSUME NEW S, NEW cs \in Seq(Seq(S))
  PROVE  \E from : Tabled(cs, Rows(cs), from)
<1> DEFINE row(s, n) == [kind |-> cs[s][n].kind, track |-> cs[s][n].track,
                         call |-> cs[s][n].call, function |-> cs[s][n].function,
                         id |-> cs[s][n].id, sequence |-> cs[s][n].sequence, source |-> s]
           seqs == [s \in DOMAIN cs |-> [n \in DOMAIN cs[s] |-> row(s, n)]]
           E    == UNION {{row(s, n) : n \in DOMAIN cs[s]} : s \in DOMAIN cs}
           flat == FlattenSeq(seqs)
<1>2. /\ Len(cs) \in Nat /\ DOMAIN cs = 1..Len(cs)
      /\ \A i \in DOMAIN cs : /\ cs[i] \in Seq(S) /\ Len(cs[i]) \in Nat
                              /\ DOMAIN cs[i] = 1..Len(cs[i])
  BY ChunksTyped
<1>3. Rows(cs) = flat
  BY DEF Rows
<1>4. \A s, n : SameEvent(row(s, n), cs[s][n]) /\ row(s, n).source = s
  BY DEF SameEvent
<1>5. \A s \in DOMAIN cs : \A n \in DOMAIN cs[s] : row(s, n) \in E
  OBVIOUS
<1> HIDE DEF row, E
<1>6. ASSUME NEW s \in DOMAIN cs
      PROVE  /\ seqs[s] \in Seq(E) /\ DOMAIN seqs[s] = DOMAIN cs[s] /\ Len(seqs[s]) = Len(cs[s])
             /\ \A n \in DOMAIN cs[s] : seqs[s][n] = row(s, n)
  <2>1. seqs[s] = [n \in DOMAIN cs[s] |-> row(s, n)]
    OBVIOUS
  <2> HIDE DEF seqs
  <2>2. seqs[s] \in [1..Len(cs[s]) -> E]
    BY <1>2, <1>5, <2>1
  <2> QED BY <1>2, <2>1, <2>2, FunctionIsSeq
<1>7. seqs = [s \in 1..Len(cs) |-> seqs[s]]
  BY <1>2
<1> HIDE DEF seqs
<1>8. seqs \in [1..Len(cs) -> Seq(E)]
  BY <1>2, <1>6, <1>7
<1>9. seqs \in Seq(Seq(E)) /\ Len(seqs) = Len(cs)
  BY <1>2, <1>8, FunctionIsSeq
<1>10. flat \in Seq(E) /\ \E from : Ordered(seqs, flat, from, Len(seqs))
  BY <1>9, FlattenOrdered
<1> HIDE DEF flat
<1>11. PICK from : Ordered(seqs, flat, from, Len(seqs))
  BY <1>10
<1>12. ASSUME NEW n \in DOMAIN flat
       PROVE  /\ from[n][1] \in DOMAIN cs /\ from[n][2] \in DOMAIN cs[from[n][1]]
              /\ flat[n] = row(from[n][1], from[n][2])
  <2>1. /\ from[n][1] \in 1..Len(cs) /\ from[n][2] \in DOMAIN seqs[from[n][1]]
        /\ flat[n] = seqs[from[n][1]][from[n][2]]
    BY <1>9, <1>11 DEF Ordered
  <2>2. PICK s, m : s = from[n][1] /\ m = from[n][2]
    OBVIOUS
  <2>3. s \in DOMAIN cs /\ m \in DOMAIN cs[s] /\ flat[n] = row(s, m)
    BY <1>2, <1>6, <2>1, <2>2
  <2> QED BY <2>2, <2>3
<1>13. ASSUME NEW n \in DOMAIN flat
       PROVE  SameEvent(flat[n], cs[from[n][1]][from[n][2]]) /\ flat[n].source = from[n][1]
  BY <1>4, <1>12
<1>14. ASSUME NEW m \in DOMAIN cs, seqs[m] = <<>> PROVE cs[m] = <<>>
  <2>1. Len(cs[m]) = 0
    BY <1>6, <1>14
  <2> QED BY <1>2, <2>1, EmptySeq
<1>15. ASSUME NEW i \in DOMAIN cs, NEW p \in DOMAIN cs[i]
       PROVE  \E n \in DOMAIN flat : Place(from, n, i, p)
  <2>1. p \in DOMAIN seqs[i] /\ i \in 1..Len(seqs)
    BY <1>2, <1>6, <1>9
  <2> QED BY <1>11, <2>1 DEF Ordered, Place
<1>16. ASSUME NEW n \in DOMAIN flat
       PROVE  \E i \in DOMAIN cs : \E p \in DOMAIN cs[i] :
                Place(from, n, i, p) /\ i \in Nat /\ p \in Nat
  <2>1. PICK i, p : i = from[n][1] /\ p = from[n][2]
    OBVIOUS
  <2>2. i \in DOMAIN cs /\ p \in DOMAIN cs[i]
    BY <1>12, <2>1
  <2>3. i \in Nat /\ p \in Nat
    BY <1>2, <2>2
  <2> QED BY <2>1, <2>2, <2>3 DEF Place
<1>17. ASSUME NEW n \in DOMAIN flat, NEW o \in DOMAIN flat, o = n + 1
       PROVE  Continues(cs, from[n][1], from[n][2], from[o][1], from[o][2])
  <2>1. PICK i \in DOMAIN cs : \E p \in DOMAIN cs[i] : Place(from, n, i, p) /\ i \in Nat /\ p \in Nat
    BY <1>16
  <2>2. PICK p \in DOMAIN cs[i] : Place(from, n, i, p) /\ i \in Nat /\ p \in Nat
    BY <2>1
  <2>3. PICK j \in DOMAIN cs : \E q \in DOMAIN cs[j] : Place(from, o, j, q) /\ j \in Nat /\ q \in Nat
    BY <1>16
  <2>4. PICK q \in DOMAIN cs[j] : Place(from, o, j, q) /\ j \in Nat /\ q \in Nat
    BY <2>3
  <2>5. Continues(seqs, i, p, j, q)
    <3>1. seqs \in Seq(Seq(E)) /\ flat \in Seq(E) /\ Ordered(seqs, flat, from, Len(seqs))
      BY <1>9, <1>10, <1>11
    <3>2. Place(from, n, i, p) /\ Place(from, o, j, q) /\ i \in Nat /\ p \in Nat /\ j \in Nat /\ q \in Nat
      BY <2>2, <2>4
    <3> QED BY <1>17, <3>1, <3>2, Following
  <2>6. ASSUME NEW m \in (i + 1)..(j - 1) PROVE m \in DOMAIN cs
    BY <1>2, <2>2, <2>4
  <2>7. Continues(cs, i, p, j, q)
    BY <1>6, <1>14, <2>5, <2>6 DEF Continues, Void
  <2> QED BY <2>2, <2>4, <2>7 DEF Place
<1>18. ASSUME 1 \in DOMAIN flat
       PROVE  from[1][2] = 1 /\ \A m \in 1..(from[1][1] - 1) : cs[m] = <<>>
  <2>1. PICK j \in DOMAIN cs : \E q \in DOMAIN cs[j] : Place(from, 1, j, q) /\ j \in Nat /\ q \in Nat
    BY <1>16, <1>18
  <2>2. PICK q \in DOMAIN cs[j] : Place(from, 1, j, q) /\ j \in Nat /\ q \in Nat
    BY <2>1
  <2>3. j = from[1][1] /\ q = from[1][2]
    BY <2>2 DEF Place
  <2>4. q = 1 /\ \A m \in 1..(j - 1) : seqs[m] = <<>>
    BY <1>9, <1>10, <1>11, <1>18, <2>2, FirstPlace
  <2>5. \A m \in 1..(j - 1) : m \in DOMAIN cs
    BY <1>2
  <2> QED BY <1>14, <2>3, <2>4, <2>5
<1>19. ASSUME flat # <<>>
       PROVE  /\ from[Len(flat)][2] = Len(cs[from[Len(flat)][1]])
              /\ \A m \in (from[Len(flat)][1] + 1)..Len(cs) : cs[m] = <<>>
  <2>0. Len(flat) \in DOMAIN flat
    BY <1>10, <1>19, LenProperties, EmptySeq
  <2>1. PICK j \in DOMAIN cs : \E q \in DOMAIN cs[j] : Place(from, Len(flat), j, q) /\ j \in Nat /\ q \in Nat
    BY <1>16, <2>0
  <2>2. PICK q \in DOMAIN cs[j] : Place(from, Len(flat), j, q) /\ j \in Nat /\ q \in Nat
    BY <2>1
  <2>3. j = from[Len(flat)][1] /\ q = from[Len(flat)][2]
    BY <2>2 DEF Place
  <2>4. q = Len(seqs[j]) /\ \A m \in (j + 1)..Len(seqs) : seqs[m] = <<>>
    <3>1. /\ seqs \in Seq(Seq(E)) /\ flat \in Seq(E) /\ Ordered(seqs, flat, from, Len(seqs))
          /\ flat # <<>>
      BY <1>9, <1>10, <1>11, <1>19
    <3> QED BY <2>3, <3>1, LastPlace
  <2>5. \A m \in (j + 1)..Len(cs) : m \in DOMAIN cs
    BY <1>2, <2>2
  <2>6. Len(seqs[j]) = Len(cs[j]) /\ Len(seqs) = Len(cs)
    BY <1>6, <1>9
  <2> QED BY <1>14, <2>3, <2>4, <2>5, <2>6
<1>20. \A n, m \in DOMAIN flat : n < m => Before(from[n], from[m])
  BY <1>11 DEF Ordered
<1>21. Tabled(cs, flat, from)
  BY <1>12, <1>13, <1>15, <1>17, <1>18, <1>19, <1>20 DEF Tabled
<1> QED BY <1>3, <1>21

----------------------------------------------------------------------------
(* The replay.  What the recorder has open on a track, what waits there for *)
(* a reopen between the end of a chunk and the start of the next, and       *)
(* whether the exit of the innermost call is recorded already.              *)
Called == [call : Nat \ {0}, function : Functions]
Views == [open : Seq(Called), waiting : Seq(Called), probed : BOOLEAN]
View(o, w, p) == [open |-> o, waiting |-> w, probed |-> p]
CallOf(e) == [call |-> e.call, function |-> e.function]

(* From b to a by event e, which closes the chunk or not.                   *)
Moves(b, a, e, closing) ==
  \/ /\ e.kind = "enter" /\ ~closing /\ b.waiting = <<>> /\ ~b.probed
     /\ a = View(Append(b.open, CallOf(e)), <<>>, FALSE)
  \/ /\ e.kind = "probe" /\ ~closing /\ b.waiting = <<>>
     /\ b.open # <<>> /\ Last(b.open) = CallOf(e)
     /\ a = View(b.open, <<>>, TRUE)
  \/ /\ e.kind = "end" /\ ~closing /\ b.waiting = <<>>
     /\ b.open # <<>> /\ Last(b.open) = CallOf(e)
     /\ a = View(Front(b.open), <<>>, FALSE)
  \/ /\ e.kind = "end" /\ closing /\ ~b.probed
     /\ b.open # <<>> /\ Last(b.open) = CallOf(e)
     /\ a = View(Front(b.open), Append(b.waiting, CallOf(e)), FALSE)
  \/ /\ e.kind = "reopen" /\ ~closing /\ ~b.probed
     /\ b.waiting # <<>> /\ Last(b.waiting) = CallOf(e)
     /\ a = View(Append(b.open, CallOf(e)), Front(b.waiting), FALSE)
Neat(b, e, closing) ==
  /\ e.kind = "probe" => ~b.probed
  /\ e.kind = "end" /\ ~closing => b.probed

(* A chunk and the views before and after its events; those after position  *)
(* c close it.                                                              *)
Passes(b, a, e, closing, clean) ==
  /\ e.track \in Tracks
  /\ Moves(b[e.track], a[e.track], e, closing)
  /\ clean => Neat(b[e.track], e, closing)
  /\ \A u \in Tracks : u # e.track => a[u] = b[u]
Replay(E, G, c, clean) ==
  /\ \A k \in 0..Len(E) : G[k] \in [Tracks -> Views]
  /\ \A k \in 1..Len(E) : Passes(G[k - 1], G[k], E[k], k > c, clean)
Starting(g) == \A u \in Tracks : g[u].open = <<>> /\ ~g[u].probed
Waitless(g) == \A u \in Tracks : g[u].waiting = <<>>

Carried(g, h, clean) ==
  \A u \in Tracks : h[u].waiting = g[u].waiting /\ (clean => g[u].open = <<>>)
EndOf(cs, GG) == GG[Len(cs)][Len(cs[Len(cs)])]
Run(cs, GG, CC, clean) ==
  /\ Waitless(GG[1][0])
  /\ \A i \in 1..Len(cs) : /\ CC[i] \in 0..Len(cs[i]) /\ Replay(cs[i], GG[i], CC[i], clean)
                           /\ Starting(GG[i][0]) /\ (cs[i] = <<>> => Waitless(GG[i][0]))
  /\ \A i \in 1..(Len(cs) - 1) : Carried(GG[i][Len(cs[i])], GG[i + 1][0], clean)

(* A run of the chunks cs that ends in the views g, and whose last chunk is  *)
(* closed from position c.                                                  *)
Reached(cs, clean, g, c) ==
  \E GG, CC : Run(cs, GG, CC, clean) /\ EndOf(cs, GG) = g /\ CC[Len(cs)] = c
Sized(cs) == Len(cs) \in Nat /\ Len(cs) > 0 /\ \A i \in 1..Len(cs) : Len(cs[i]) \in Nat

(* The last chunk is extended, a chunk is added.                            *)
Extended(ds, cs, ev) ==
  LET N == Len(cs)
  IN  /\ Len(ds) = N /\ \A i \in 1..N : i # N => ds[i] = cs[i]
      /\ Len(ds[N]) = Len(cs[N]) + Len(ev)
      /\ \A k \in 1..Len(cs[N]) : ds[N][k] = cs[N][k]
      /\ \A k \in 1..Len(ev) : ds[N][Len(cs[N]) + k] = ev[k]
Added(ds, cs, ev) ==
  Len(ds) = Len(cs) + 1 /\ ds[Len(cs) + 1] = ev /\ \A i \in 1..Len(cs) : ds[i] = cs[i]

LEMMA LastExtended ==
  ASSUME NEW S, NEW cs \in Seq(Seq(S)), Len(cs) > 0, NEW E, NEW ev \in Seq(E)
  PROVE  Extended([cs EXCEPT ![Len(cs)] = @ \o ev], cs, ev)
<1> DEFINE N  == Len(cs)
           ds == [cs EXCEPT ![N] = @ \o ev]
           T  == S \cup E
           last == cs[N] \o ev
<1>2. /\ N \in Nat /\ N \in DOMAIN cs /\ DOMAIN cs = 1..N
      /\ \A i \in DOMAIN cs : /\ cs[i] \in Seq(S) /\ Len(cs[i]) \in Nat
                              /\ DOMAIN cs[i] = 1..Len(cs[i])
  BY ChunksTyped
<1>3. cs \in Seq(Seq(T)) /\ ev \in Seq(T) /\ \A i \in DOMAIN cs : cs[i] \in Seq(T)
  <2>1. S \subseteq T /\ E \subseteq T
    OBVIOUS
  <2>2. Seq(S) \subseteq Seq(T) /\ ev \in Seq(T)
    BY <2>1, SeqMonotonic
  <2> HIDE DEF T
  <2>3. cs \in Seq(Seq(T))
    BY <2>2, SeqMonotonic
  <2> QED BY <1>2, <2>2, <2>3
<1>4. /\ last \in Seq(T) /\ Len(ev) \in Nat /\ Len(last) = Len(cs[N]) + Len(ev)
      /\ \A n \in 1..(Len(cs[N]) + Len(ev)) :
           last[n] = IF n <= Len(cs[N]) THEN cs[N][n] ELSE ev[n - Len(cs[N])]
  <2>1. cs[N] \in Seq(T) /\ ev \in Seq(T)
    BY <1>2, <1>3
  <2> QED BY <2>1, ConcatProperties, LenProperties
<1>5. Len(ds) = N /\ \A i \in 1..Len(cs) : ds[i] = IF i = N THEN last ELSE cs[i]
  <2>1. N \in 1..Len(cs) /\ last \in Seq(T) /\ cs \in Seq(Seq(T))
    BY <1>2, <1>3, <1>4
  <2> HIDE DEF T, last
  <2>2. ds = [cs EXCEPT ![N] = last]
    BY DEF last
  <2> HIDE DEF ds
  <2> QED BY <2>1, <2>2, ExceptSeq
<1>6. ds[N] = last
  BY <1>2, <1>5
<1>7. Len(cs[N]) \in Nat
  BY <1>2
<1> HIDE DEF ds, T, last
<1>8. \A k \in 1..Len(cs[N]) : ds[N][k] = cs[N][k]
  BY <1>4, <1>6, <1>7
<1>9. \A k \in 1..Len(ev) : ds[N][Len(cs[N]) + k] = ev[k]
  <2> TAKE k \in 1..Len(ev)
  <2>1. /\ Len(cs[N]) + k \in 1..(Len(cs[N]) + Len(ev)) /\ ~(Len(cs[N]) + k <= Len(cs[N]))
        /\ (Len(cs[N]) + k) - Len(cs[N]) = k
    BY <1>4, <1>7
  <2> QED BY <1>4, <1>6, <2>1
<1>10. Len(ds[N]) = Len(cs[N]) + Len(ev) /\ \A i \in 1..N : i # N => ds[i] = cs[i]
  BY <1>4, <1>5, <1>6
<1> QED BY <1>5, <1>8, <1>9, <1>10 DEF Extended, ds

LEMMA RunExtended ==
  ASSUME NEW cs, NEW ds, NEW ev, Sized(cs), Len(ev) \in Nat, Extended(ds, cs, ev),
         NEW clean, NEW now, now => clean,
         NEW H, NEW c \in 0..Len(ev), Replay(ev, H, c, now),
         Reached(cs, clean, H[0], Len(cs[Len(cs)])),
         ds[Len(cs)] = <<>> => cs[Len(cs)] = <<>>
  PROVE  Reached(ds, now, H[Len(ev)], Len(cs[Len(cs)]) + c)
<1>0. PICK GG, CC : /\ Run(cs, GG, CC, clean) /\ EndOf(cs, GG) = H[0]
                    /\ CC[Len(cs)] = Len(cs[Len(cs)])
  BY DEF Reached
<1> DEFINE N  == Len(cs)
           L  == Len(cs[N])
           M  == Len(ev)
           J  == [k \in 0..(L + M) |-> IF k <= L THEN GG[N][k] ELSE H[k - L]]
           HH == [i \in 1..N |-> IF i = N THEN J ELSE GG[i]]
           DD == [i \in 1..N |-> IF i = N THEN L + c ELSE CC[i]]
<1>1. /\ N \in Nat /\ N \in 1..N /\ L \in Nat /\ M \in Nat /\ c \in Nat /\ c <= M
      /\ Len(ds) = N /\ Len(ds[N]) = L + M
      /\ \A i \in 1..N : i # N => ds[i] = cs[i]
      /\ \A k \in 1..L : ds[N][k] = cs[N][k]
      /\ \A k \in 1..M : ds[N][L + k] = ev[k]
  BY DEF Extended, Sized
<1>2. /\ \A k \in 0..(L + M) : J[k] = IF k <= L THEN GG[N][k] ELSE H[k - L]
      /\ \A i \in 1..N : HH[i] = IF i = N THEN J ELSE GG[i]
      /\ \A i \in 1..N : DD[i] = IF i = N THEN L + c ELSE CC[i]
  OBVIOUS
<1>3. CC[N] = L /\ H[0] = GG[N][L]
  BY <1>0 DEF EndOf
<1>a. (ds[N] = <<>> => cs[N] = <<>>) /\ (now => clean)
  OBVIOUS
<1> HIDE DEF N, L, M, J, HH, DD
<1>4. /\ Waitless(GG[1][0])
      /\ \A i \in 1..N : /\ CC[i] \in 0..Len(cs[i]) /\ Replay(cs[i], GG[i], CC[i], clean)
                         /\ Starting(GG[i][0]) /\ (cs[i] = <<>> => Waitless(GG[i][0]))
      /\ \A i \in 1..(N - 1) : Carried(GG[i][Len(cs[i])], GG[i + 1][0], clean)
  BY <1>0 DEF Run, N
<1>5. /\ \A k \in 0..L : GG[N][k] \in [Tracks -> Views]
      /\ \A k \in 1..L : Passes(GG[N][k - 1], GG[N][k], cs[N][k], k > CC[N], clean)
  BY <1>1, <1>4 DEF Replay, L
<1>6. /\ \A k \in 0..M : H[k] \in [Tracks -> Views]
      /\ \A k \in 1..M : Passes(H[k - 1], H[k], ev[k], k > c, now)
  BY DEF Replay, M
<1>7. J[0] = GG[N][0] /\ J[L + M] = H[M]
  <2>1. 0 \in 0..(L + M) /\ L + M \in 0..(L + M) /\ 0 <= L
    BY <1>1
  <2>2. CASE M = 0
    BY <1>1, <1>2, <1>3, <2>1, <2>2
  <2>3. CASE M # 0
    <3>1. ~(L + M <= L) /\ (L + M) - L = M
      BY <1>1, <2>3
    <3> QED BY <1>2, <2>1, <3>1
  <2> QED BY <2>2, <2>3
<1>8. Replay(ds[N], J, L + c, now)
  <2>1. ASSUME NEW k \in 0..(L + M) PROVE J[k] \in [Tracks -> Views]
    <3>1. CASE k <= L
      <4>1. k \in 0..L /\ J[k] = GG[N][k]
        BY <1>1, <1>2, <3>1
      <4> QED BY <1>5, <4>1
    <3>2. CASE ~(k <= L)
      <4>1. k - L \in 0..M /\ J[k] = H[k - L]
        BY <1>1, <1>2, <3>2
      <4> QED BY <1>6, <4>1
    <3> QED BY <3>1, <3>2
  <2>2. ASSUME NEW k \in 1..(L + M)
        PROVE  Passes(J[k - 1], J[k], ds[N][k], k > L + c, now)
    <3>1. CASE k <= L
      <4>1. /\ k \in 1..L /\ k - 1 \in 0..(L + M) /\ k \in 0..(L + M) /\ k - 1 <= L
            /\ ~(k > L + c) /\ ~(k > L)
        BY <1>1, <3>1
      <4>2. J[k - 1] = GG[N][k - 1] /\ J[k] = GG[N][k] /\ ds[N][k] = cs[N][k]
        BY <1>1, <1>2, <3>1, <4>1
      <4>3. Passes(GG[N][k - 1], GG[N][k], cs[N][k], k > CC[N], clean)
        BY <1>5, <4>1
      <4>4. Passes(GG[N][k - 1], GG[N][k], cs[N][k], k > L + c, now)
        BY <1>3, <1>a, <4>1, <4>3 DEF Passes, Moves, Neat
      <4> QED BY <4>2, <4>4
    <3>2. CASE ~(k <= L)
      <4>1. PICK m \in 1..M : m = k - L
        BY <1>1, <3>2
      <4>2. k = L + m /\ (k > L + c <=> m > c) /\ k - 1 \in 0..(L + M) /\ k \in 0..(L + M)
        BY <1>1, <4>1
      <4>3. ds[N][k] = ev[m] /\ J[k] = H[m]
        BY <1>1, <1>2, <3>2, <4>1, <4>2
      <4>4. J[k - 1] = H[m - 1]
        <5>1. CASE m = 1
          <6>1. k - 1 = L /\ m - 1 = 0
            BY <1>1, <4>2, <5>1
          <6> QED BY <1>1, <1>2, <1>3, <4>2, <6>1
        <5>2. CASE m # 1
          <6>1. ~(k - 1 <= L) /\ (k - 1) - L = m - 1
            BY <1>1, <4>1, <4>2, <5>2
          <6> QED BY <1>2, <4>2, <6>1
        <5> QED BY <5>1, <5>2
      <4>5. Passes(H[m - 1], H[m], ev[m], m > c, now)
        BY <1>6
      <4>6. Passes(H[m - 1], H[m], ev[m], k > L + c, now)
        BY <4>2, <4>5 DEF Passes, Moves, Neat
      <4> QED BY <4>3, <4>4, <4>6
    <3> QED BY <3>1, <3>2
  <2> QED BY <1>1, <2>1, <2>2 DEF Replay
<1>9. ASSUME NEW i \in 1..N
      PROVE  /\ DD[i] \in 0..Len(ds[i]) /\ Replay(ds[i], HH[i], DD[i], now)
             /\ Starting(HH[i][0]) /\ (ds[i] = <<>> => Waitless(HH[i][0]))
             /\ HH[i][0] = GG[i][0]
  <2>1. CASE i = N
    <3>1. HH[i] = J /\ DD[i] = L + c /\ L + c \in 0..(L + M)
      BY <1>1, <1>2, <2>1
    <3> QED BY <1>1, <1>4, <1>7, <1>8, <1>a, <2>1, <3>1
  <2>2. CASE i # N
    <3>1. HH[i] = GG[i] /\ DD[i] = CC[i] /\ ds[i] = cs[i]
      BY <1>1, <1>2, <2>2
    <3>2. Replay(cs[i], GG[i], CC[i], now)
      <4>1. Replay(cs[i], GG[i], CC[i], clean)
        BY <1>4
      <4> QED BY <1>a, <4>1 DEF Replay, Passes
    <3> QED BY <1>4, <3>1, <3>2
  <2> QED BY <2>1, <2>2
<1>10. ASSUME NEW i \in 1..(N - 1) PROVE Carried(HH[i][Len(ds[i])], HH[i + 1][0], now)
  <2>1. i \in 1..N /\ i + 1 \in 1..N /\ i # N
    BY <1>1
  <2>2. HH[i] = GG[i] /\ ds[i] = cs[i] /\ HH[i + 1][0] = GG[i + 1][0]
    BY <1>1, <1>2, <1>9, <2>1
  <2>3. Carried(GG[i][Len(cs[i])], GG[i + 1][0], clean)
    BY <1>4
  <2> QED BY <1>a, <2>2, <2>3 DEF Carried
<1>11. Waitless(HH[1][0])
  <2>1. 1 \in 1..N
    BY <1>1
  <2> QED BY <1>4, <1>9, <2>1
<1>12. Run(ds, HH, DD, now)
  BY <1>1, <1>9, <1>10, <1>11 DEF Run
<1>13. EndOf(ds, HH) = H[M] /\ DD[N] = L + c
  BY <1>1, <1>2, <1>7 DEF EndOf
<1>14. Run(ds, HH, DD, now) /\ EndOf(ds, HH) = H[Len(ev)] /\ DD[Len(ds)] = Len(cs[Len(cs)]) + c
  BY <1>1, <1>12, <1>13 DEF N, L, M
<1> QED BY <1>14 DEF Reached

LEMMA RunAdded ==
  ASSUME NEW cs, NEW ds, NEW ev, Sized(cs), Len(ev) \in Nat, Added(ds, cs, ev),
         NEW clean, NEW now, now => clean,
         NEW g, NEW c, Reached(cs, clean, g, c),
         NEW H, Carried(g, H[0], now), Starting(H[0]), ev = <<>> => Waitless(H[0]),
         Replay(ev, H, Len(ev), now)
  PROVE  Reached(ds, now, H[Len(ev)], Len(ev))
<1>0. PICK GG, CC : Run(cs, GG, CC, clean) /\ EndOf(cs, GG) = g
  BY DEF Reached
<1> DEFINE N  == Len(cs)
           M  == Len(ev)
           HH == [i \in 1..(N + 1) |-> IF i = N + 1 THEN H ELSE GG[i]]
           DD == [i \in 1..(N + 1) |-> IF i = N + 1 THEN M ELSE CC[i]]
<1>1. /\ N \in Nat /\ N > 0 /\ M \in Nat /\ Len(ds) = N + 1 /\ ds[N + 1] = ev
      /\ \A i \in 1..N : ds[i] = cs[i]
  BY DEF Added, Sized
<1>2. /\ \A i \in 1..(N + 1) : HH[i] = IF i = N + 1 THEN H ELSE GG[i]
      /\ \A i \in 1..(N + 1) : DD[i] = IF i = N + 1 THEN M ELSE CC[i]
  OBVIOUS
<1>3. /\ Waitless(GG[1][0])
      /\ \A i \in 1..N : /\ CC[i] \in 0..Len(cs[i]) /\ Replay(cs[i], GG[i], CC[i], clean)
                         /\ Starting(GG[i][0]) /\ (cs[i] = <<>> => Waitless(GG[i][0]))
      /\ \A i \in 1..(N - 1) : Carried(GG[i][Len(cs[i])], GG[i + 1][0], clean)
  BY <1>0 DEF Run
<1>4. Carried(GG[N][Len(cs[N])], H[0], now)
  BY <1>0 DEF EndOf
<1>5. Replay(ev, H, M, now)
  OBVIOUS
<1> HIDE DEF N, M, HH, DD
<1>6. ASSUME NEW i \in 1..(N + 1)
      PROVE  /\ DD[i] \in 0..Len(ds[i]) /\ Replay(ds[i], HH[i], DD[i], now)
             /\ Starting(HH[i][0]) /\ (ds[i] = <<>> => Waitless(HH[i][0]))
  <2>1. CASE i = N + 1
    <3>1. HH[i] = H /\ DD[i] = M /\ ds[i] = ev /\ M \in 0..M
      BY <1>1, <1>2, <2>1
    <3>2. DD[i] \in 0..Len(ds[i])
      BY <3>1 DEF M
    <3> QED BY <1>5, <3>1, <3>2
  <2>2. CASE i # N + 1
    <3>1. HH[i] = GG[i] /\ DD[i] = CC[i] /\ ds[i] = cs[i] /\ i \in 1..N
      BY <1>1, <1>2, <2>2
    <3>2. Replay(cs[i], GG[i], CC[i], now)
      <4>1. Replay(cs[i], GG[i], CC[i], clean)
        BY <1>3, <3>1
      <4> QED BY <4>1 DEF Replay, Passes
    <3> QED BY <1>3, <3>1, <3>2
  <2> QED BY <2>1, <2>2
<1>7. ASSUME NEW i \in 1..((N + 1) - 1) PROVE Carried(HH[i][Len(ds[i])], HH[i + 1][0], now)
  <2>1. i \in 1..N /\ i + 1 \in 1..(N + 1) /\ i \in 1..(N + 1) /\ i # N + 1
    BY <1>1
  <2>2. HH[i] = GG[i] /\ ds[i] = cs[i]
    BY <1>1, <1>2, <2>1
  <2>3. CASE i = N
    <3>1. HH[i + 1] = H
      BY <1>2, <2>1, <2>3
    <3> QED BY <1>4, <2>2, <2>3, <3>1
  <2>4. CASE i # N
    <3>1. HH[i + 1] = GG[i + 1] /\ i \in 1..(N - 1)
      BY <1>1, <1>2, <2>1, <2>4
    <3>2. Carried(GG[i][Len(cs[i])], GG[i + 1][0], clean)
      BY <1>3, <3>1
    <3>3. Carried(GG[i][Len(cs[i])], GG[i + 1][0], now)
      BY <3>2 DEF Carried
    <3> QED BY <2>2, <3>1, <3>3
  <2> QED BY <2>3, <2>4
<1>8. Waitless(HH[1][0])
  <2>1. 1 \in 1..(N + 1) /\ 1 # N + 1
    BY <1>1
  <2> QED BY <1>2, <1>3, <2>1
<1>9. Run(ds, HH, DD, now)
  BY <1>1, <1>6, <1>7, <1>8 DEF Run
<1>10. EndOf(ds, HH) = H[M] /\ DD[N + 1] = M
  <2>1. N + 1 \in 1..(N + 1)
    BY <1>1
  <2> QED BY <1>1, <1>2, <2>1 DEF EndOf, M
<1>11. Run(ds, HH, DD, now) /\ EndOf(ds, HH) = H[Len(ev)] /\ DD[Len(ds)] = Len(ev)
  BY <1>1, <1>9, <1>10 DEF N, M
<1> QED BY <1>11 DEF Reached

(* Prefixes of a stack and of its reverse: the part of it that is still     *)
(* open, and the part that is closed.                                       *)
LEMMA PrefixIs ==
  ASSUME NEW S, NEW s \in Seq(S), NEW k \in 0..Len(s)
  PROVE  /\ SubSeq(s, 1, k) \in Seq(S) /\ Len(SubSeq(s, 1, k)) = k
         /\ \A i \in 1..k : SubSeq(s, 1, k)[i] = s[i]
         /\ Len(s) \in Nat /\ k \in Nat
<1>1. Len(s) \in Nat /\ \A i \in 1..Len(s) : s[i] \in S
  BY LenProperties, ElementOfSeq
<1>2. \A i \in 1..k : s[i] \in S
  BY <1>1
<1>3. k \in Int /\ k \in Nat
  BY <1>1
<1>4. /\ SubSeq(s, 1, k) \in Seq(S)
      /\ Len(SubSeq(s, 1, k)) = IF 1 <= k THEN k - 1 + 1 ELSE 0
      /\ \A i \in 1..(k - 1 + 1) : SubSeq(s, 1, k)[i] = s[1 + i - 1]
  BY <1>2, <1>3, SubSeqProperties
<1>5. Len(SubSeq(s, 1, k)) = k
  BY <1>3, <1>4
<1>6. \A i \in 1..k : SubSeq(s, 1, k)[i] = s[i]
  <2> TAKE i \in 1..k
  <2>1. i \in 1..(k - 1 + 1) /\ 1 + i - 1 = i
    BY <1>3
  <2> QED BY <1>4, <2>1
<1> QED BY <1>1, <1>3, <1>4, <1>5, <1>6

LEMMA PrefixGrows ==
  ASSUME NEW S, NEW s \in Seq(S), NEW k \in 1..Len(s)
  PROVE  /\ SubSeq(s, 1, k) # <<>> /\ Last(SubSeq(s, 1, k)) = s[k]
         /\ Front(SubSeq(s, 1, k)) = SubSeq(s, 1, k - 1)
         /\ Append(SubSeq(s, 1, k - 1), s[k]) = SubSeq(s, 1, k)
<1>1. Len(s) \in Nat /\ \A i \in 1..Len(s) : s[i] \in S
  BY LenProperties, ElementOfSeq
<1>2. k \in 0..Len(s) /\ k - 1 \in 0..Len(s) /\ k \in 1..k
  BY <1>1
<1> DEFINE a == SubSeq(s, 1, k)
           b == SubSeq(s, 1, k - 1)
<1>3. /\ a \in Seq(S) /\ Len(a) = k /\ \A i \in 1..k : a[i] = s[i]
      /\ b \in Seq(S) /\ Len(b) = k - 1 /\ \A i \in 1..(k - 1) : b[i] = s[i]
  BY <1>2, PrefixIs
<1> HIDE DEF a, b
<1>4. a # <<>>
  BY <1>1, <1>2, <1>3, EmptySeq
<1>5. /\ Front(a) \in Seq(S) /\ Len(Front(a)) = k - 1 /\ DOMAIN Front(a) = 1..(k - 1)
      /\ \A n \in 1..(k - 1) : Front(a)[n] = a[n]
      /\ Last(a) = a[k]
  BY <1>3, <1>4, FrontIs
<1>6. Last(a) = s[k]
  BY <1>2, <1>3, <1>5
<1>7. Front(a) = b
  <2>1. \A i \in 1..(k - 1) : Front(a)[i] = b[i]
    <3> TAKE i \in 1..(k - 1)
    <3>1. i \in 1..k
      BY <1>1
    <3> QED BY <1>3, <1>5, <3>1
  <2> QED BY <1>3, <1>5, <2>1, SeqEqual
<1>8. Append(b, s[k]) = a
  <2>1. s[k] \in S
    BY <1>1
  <2> DEFINE c == Append(b, s[k])
  <2>2. /\ c \in Seq(S) /\ Len(c) = (k - 1) + 1 /\ c[(k - 1) + 1] = s[k]
        /\ \A i \in 1..(k - 1) : c[i] = b[i]
    BY <1>3, <2>1, AppendProperties
  <2> HIDE DEF c
  <2>3. (k - 1) + 1 = k
    BY <1>1
  <2>4. \A i \in 1..k : c[i] = a[i]
    <3> TAKE i \in 1..k
    <3>1. i = k \/ i \in 1..(k - 1)
      BY <1>1
    <3> QED BY <1>3, <2>2, <2>3, <3>1
  <2>5. Len(c) = Len(a)
    BY <1>3, <2>2, <2>3
  <2>6. \A i \in 1..Len(c) : c[i] = a[i]
    BY <1>3, <2>4, <2>5
  <2>7. c = a
    BY <1>3, <2>2, <2>5, <2>6, SeqEqual
  <2> QED BY <2>7 DEF c
<1> QED BY <1>4, <1>6, <1>7, <1>8 DEF a, b

LEMMA ReversedIs ==
  ASSUME NEW S, NEW s \in Seq(S)
  PROVE  /\ Reverse(s) \in Seq(S) /\ Len(Reverse(s)) = Len(s) /\ DOMAIN Reverse(s) = 1..Len(s)
         /\ \A k \in 1..Len(s) : Reverse(s)[k] = s[Len(s) - k + 1]
<1>1. Len(s) \in Nat /\ \A i \in 1..Len(s) : s[i] \in S
  BY LenProperties, ElementOfSeq
<1>2. \A k \in 1..Len(s) : Len(s) - k + 1 \in 1..Len(s)
  BY <1>1
<1>3. Reverse(s) = [i \in 1..Len(s) |-> s[(Len(s) - i) + 1]]
  BY DEF Reverse
<1>4. Reverse(s) \in [1..Len(s) -> S]
  BY <1>1, <1>2, <1>3
<1>5. Reverse(s) \in Seq(S) /\ Len(Reverse(s)) = Len(s)
  BY <1>1, <1>4, FunctionIsSeq
<1> QED BY <1>3, <1>5

(* The first k calls of a stack are open, the others wait.                  *)
Part(s, k) == View(SubSeq(s, 1, k), SubSeq(Reverse(s), 1, Len(s) - k), FALSE)

LEMMA PartIs ==
  ASSUME NEW s \in Seq(Called)
  PROVE  /\ \A k \in 0..Len(s) : Part(s, k) \in Views
         /\ Part(s, 0) = View(<<>>, Reverse(s), FALSE)
         /\ Part(s, Len(s)) = View(s, <<>>, FALSE)
<1>1. Len(s) \in Nat /\ Len(s) \in 0..Len(s) /\ 0 \in 0..Len(s)
  BY LenProperties
<1>2. Reverse(s) \in Seq(Called) /\ Len(Reverse(s)) = Len(s)
  BY ReversedIs
<1>3. ASSUME NEW k \in 0..Len(s) PROVE Part(s, k) \in Views
  <2>1. Len(s) - k \in 0..Len(Reverse(s))
    BY <1>1, <1>2
  <2>2. SubSeq(s, 1, k) \in Seq(Called) /\ SubSeq(Reverse(s), 1, Len(s) - k) \in Seq(Called)
    BY <1>2, <2>1, PrefixIs
  <2> QED BY <2>2 DEF Part, View, Views
<1>4. SubSeq(s, 1, 0) = <<>> /\ SubSeq(Reverse(s), 1, 0) = <<>>
  BY SubSeqEmpty
<1>5. SubSeq(s, 1, Len(s)) = s /\ SubSeq(Reverse(s), 1, Len(s)) = Reverse(s)
  BY <1>2, SubSeqFull
<1>6. Len(s) - 0 = Len(s) /\ Len(s) - Len(s) = 0
  BY <1>1
<1> QED BY <1>3, <1>4, <1>5, <1>6 DEF Part

LEMMA PartMoves ==
  ASSUME NEW s \in Seq(Called), NEW k \in 1..Len(s), NEW e, CallOf(e) = s[k]
  PROVE  /\ e.kind = "end" => Moves(Part(s, k), Part(s, k - 1), e, TRUE)
         /\ e.kind = "reopen" => Moves(Part(s, k - 1), Part(s, k), e, FALSE)
<1>1. Len(s) \in Nat
  BY LenProperties
<1> DEFINE r == Reverse(s)
           m == Len(s) - k + 1
<1>2. r \in Seq(Called) /\ Len(r) = Len(s) /\ r[m] = s[k]
  <2>1. m \in 1..Len(s) /\ Len(s) - m + 1 = k
    BY <1>1
  <2> HIDE DEF m
  <2> QED BY <2>1, ReversedIs
<1>3. m \in 1..Len(r) /\ m - 1 = Len(s) - k /\ Len(s) - (k - 1) = m
  BY <1>1, <1>2
<1> HIDE DEF r, m
<1>4. /\ SubSeq(s, 1, k) # <<>> /\ Last(SubSeq(s, 1, k)) = s[k]
      /\ Front(SubSeq(s, 1, k)) = SubSeq(s, 1, k - 1)
      /\ Append(SubSeq(s, 1, k - 1), s[k]) = SubSeq(s, 1, k)
  BY PrefixGrows
<1>5. /\ SubSeq(r, 1, m) # <<>> /\ Last(SubSeq(r, 1, m)) = s[k]
      /\ Front(SubSeq(r, 1, m)) = SubSeq(r, 1, m - 1)
      /\ Append(SubSeq(r, 1, m - 1), s[k]) = SubSeq(r, 1, m)
  BY <1>2, <1>3, PrefixGrows
<1>6. /\ Part(s, k) = View(SubSeq(s, 1, k), SubSeq(r, 1, m - 1), FALSE)
      /\ Part(s, k - 1) = View(SubSeq(s, 1, k - 1), SubSeq(r, 1, m), FALSE)
  BY <1>3 DEF Part, r
<1> DEFINE o == SubSeq(s, 1, k)
           p == SubSeq(s, 1, k - 1)
           w == SubSeq(r, 1, m)
           v == SubSeq(r, 1, m - 1)
<1>7. /\ o # <<>> /\ Last(o) = CallOf(e) /\ Front(o) = p /\ Append(p, CallOf(e)) = o
      /\ w # <<>> /\ Last(w) = CallOf(e) /\ Front(w) = v /\ Append(v, CallOf(e)) = w
  BY <1>4, <1>5
<1>8. Part(s, k) = View(o, v, FALSE) /\ Part(s, k - 1) = View(p, w, FALSE)
  BY <1>6
<1> HIDE DEF o, p, w, v
<1>9. /\ View(o, v, FALSE).open = o /\ View(o, v, FALSE).waiting = v /\ ~View(o, v, FALSE).probed
      /\ View(p, w, FALSE).open = p /\ View(p, w, FALSE).waiting = w /\ ~View(p, w, FALSE).probed
  BY DEF View
<1>10. ASSUME e.kind = "end" PROVE Moves(View(o, v, FALSE), View(p, w, FALSE), e, TRUE)
  <2>1. View(p, w, FALSE) = View(Front(o), Append(v, CallOf(e)), FALSE)
    BY <1>7
  <2> QED BY <1>7, <1>9, <1>10, <2>1 DEF Moves
<1>11. ASSUME e.kind = "reopen" PROVE Moves(View(p, w, FALSE), View(o, v, FALSE), e, FALSE)
  <2>1. View(o, v, FALSE) = View(Append(p, CallOf(e)), Front(w), FALSE)
    BY <1>7
  <2> QED BY <1>7, <1>9, <1>11, <2>1 DEF Moves
<1> QED BY <1>8, <1>10, <1>11

(* How far the flattening of sequences has come in sequence j at m.         *)
Count(seqs, from, m, j) ==
  IF m = 0 THEN 0 ELSE IF j < from[m][1] THEN Len(seqs[j])
                  ELSE IF j = from[m][1] THEN from[m][2] ELSE 0

LEMMA Counting ==
  ASSUME NEW S, NEW seqs \in Seq(Seq(S)), NEW flat \in Seq(S), NEW from,
         Ordered(seqs, flat, from, Len(seqs)), NEW j \in 1..Len(seqs)
  PROVE  /\ Count(seqs, from, 0, j) = 0
         /\ Count(seqs, from, Len(flat), j) = Len(seqs[j])
         /\ \A m \in 0..Len(flat) : Count(seqs, from, m, j) \in 0..Len(seqs[j])
         /\ \A m \in 1..Len(flat) : \A i \in Nat : \A p \in Nat : Place(from, m, i, p) =>
              IF j = i THEN Count(seqs, from, m, j) = p /\ Count(seqs, from, m - 1, j) = p - 1
              ELSE Count(seqs, from, m - 1, j) = Count(seqs, from, m, j)
<1>1. /\ Len(seqs) \in Nat /\ DOMAIN flat = 1..Len(flat) /\ Len(flat) \in Nat
      /\ \A m \in 1..Len(seqs) : /\ seqs[m] \in Seq(S) /\ Len(seqs[m]) \in Nat
                                 /\ DOMAIN seqs[m] = 1..Len(seqs[m])
  BY LenProperties, ElementOfSeq
<1>2. j \in Nat /\ Len(seqs[j]) \in Nat
  BY <1>1
<1>3. \A m \in 1..Len(flat) : from[m][1] \in 1..Len(seqs) /\ from[m][2] \in DOMAIN seqs[from[m][1]]
  BY <1>1 DEF Ordered
<1>4. \A m \in 1..Len(flat) : \E i \in 1..Len(seqs) : \E p \in 1..Len(seqs[i]) : Place(from, m, i, p)
  <2> TAKE m \in 1..Len(flat)
  <2>1. PICK i \in 1..Len(seqs) : i = from[m][1]
    BY <1>3
  <2>2. PICK p \in 1..Len(seqs[i]) : p = from[m][2]
    BY <1>1, <1>3, <2>1
  <2> QED BY <2>1, <2>2 DEF Place
<1>5. \A m \in 1..Len(flat) : m # 0
  BY <1>1
<1>6. ASSUME NEW m \in 1..Len(flat), NEW i \in 1..Len(seqs), NEW p \in 1..Len(seqs[i]),
             Place(from, m, i, p)
      PROVE  /\ j < i => Count(seqs, from, m, j) = Len(seqs[j])
             /\ j = i => Count(seqs, from, m, j) = p
             /\ ~(j < i) /\ j # i => Count(seqs, from, m, j) = 0
  BY <1>5, <1>6 DEF Place, Count
<1>7. Count(seqs, from, 0, j) = 0
  BY DEF Count
<1>8. Count(seqs, from, Len(flat), j) = Len(seqs[j])
  <2>1. CASE Len(flat) = 0
    <3>1. \A p \in DOMAIN seqs[j] : \E n \in DOMAIN flat : from[n][1] = j /\ from[n][2] = p
      BY DEF Ordered
    <3>2. DOMAIN flat = {}
      BY <1>1, <2>1
    <3>3. 1 \notin 1..Len(seqs[j])
      BY <1>1, <3>1, <3>2
    <3>4. Len(seqs[j]) = 0
      BY <1>2, <3>3
    <3> QED BY <1>7, <2>1, <3>4
  <2>2. CASE Len(flat) # 0
    <3>1. Len(flat) \in 1..Len(flat)
      BY <1>1, <2>2
    <3>2. PICK i \in 1..Len(seqs) : \E p \in 1..Len(seqs[i]) : Place(from, Len(flat), i, p)
      BY <1>4, <3>1
    <3>3. PICK p \in 1..Len(seqs[i]) : Place(from, Len(flat), i, p)
      BY <3>2
    <3>4. flat # <<>>
      BY <2>2
    <3>5. i = from[Len(flat)][1] /\ p = from[Len(flat)][2]
      BY <3>3 DEF Place
    <3>6. p = Len(seqs[i]) /\ \A m \in (i + 1)..Len(seqs) : seqs[m] = <<>>
      BY <3>4, <3>5, LastPlace
    <3>7. CASE j < i \/ j = i
      BY <1>6, <3>1, <3>3, <3>6, <3>7
    <3>8. CASE ~(j < i) /\ j # i
      <4>1. j \in (i + 1)..Len(seqs)
        BY <1>1, <1>2, <3>8
      <4>2. seqs[j] = <<>>
        BY <3>6, <4>1
      <4>3. Len(seqs[j]) = 0
        BY <4>2
      <4> QED BY <1>6, <3>1, <3>3, <3>8, <4>3
    <3> QED BY <3>7, <3>8
  <2> QED BY <2>1, <2>2
<1>9. ASSUME NEW m \in 0..Len(flat) PROVE Count(seqs, from, m, j) \in 0..Len(seqs[j])
  <2>1. CASE m = 0
    BY <1>2, <1>7, <2>1
  <2>2. CASE m # 0
    <3>1. m \in 1..Len(flat)
      BY <1>1, <2>2
    <3>2. PICK i \in 1..Len(seqs) : \E p \in 1..Len(seqs[i]) : Place(from, m, i, p)
      BY <1>4, <3>1
    <3>3. PICK p \in 1..Len(seqs[i]) : Place(from, m, i, p)
      BY <3>2
    <3>4. \/ Count(seqs, from, m, j) = Len(seqs[j]) \/ (j = i /\ Count(seqs, from, m, j) = p)
          \/ Count(seqs, from, m, j) = 0
      BY <1>6, <3>1, <3>3
    <3>5. j = i => p \in 0..Len(seqs[j])
      BY <1>1
    <3> QED BY <1>2, <3>4, <3>5
  <2> QED BY <2>1, <2>2
<1>10. ASSUME NEW m \in 1..Len(flat), NEW i \in Nat, NEW p \in Nat, Place(from, m, i, p)
       PROVE  IF j = i THEN Count(seqs, from, m, j) = p /\ Count(seqs, from, m - 1, j) = p - 1
              ELSE Count(seqs, from, m - 1, j) = Count(seqs, from, m, j)
  <2>1. i \in 1..Len(seqs) /\ p \in 1..Len(seqs[i])
    BY <1>4, <1>10 DEF Place
  <2>2. /\ j < i => Count(seqs, from, m, j) = Len(seqs[j])
        /\ j = i => Count(seqs, from, m, j) = p
        /\ ~(j < i) /\ j # i => Count(seqs, from, m, j) = 0
    BY <1>6, <1>10, <2>1
  <2>3. CASE m = 1
    <3>1. Count(seqs, from, m - 1, j) = 0
      BY <1>7, <2>3
    <3>2. 1 \in DOMAIN flat
      BY <1>1, <2>3
    <3>4. p = 1 /\ \A k \in 1..(i - 1) : seqs[k] = <<>>
      BY <1>10, <2>3, <3>2, FirstPlace
    <3>5. j < i => Len(seqs[j]) = 0
      <4>1. SUFFICES ASSUME j < i PROVE Len(seqs[j]) = 0
        OBVIOUS
      <4>2. j \in 1..(i - 1)
        BY <1>2, <4>1
      <4>3. seqs[j] = <<>>
        BY <3>4, <4>2
      <4> QED BY <4>3
    <3>6. j = i => ~(j < i)
      BY <1>2
    <3> QED BY <2>2, <3>1, <3>4, <3>5, <3>6
  <2>4. CASE m # 1
    <3>1. PICK n \in 1..Len(flat) : m = n + 1 /\ n = m - 1
      <4>1. m - 1 \in 1..Len(flat) /\ m = (m - 1) + 1
        BY <1>1, <2>4
      <4> QED BY <4>1
    <3>2. PICK a \in 1..Len(seqs) : \E b \in 1..Len(seqs[a]) : Place(from, n, a, b)
      BY <1>4
    <3>3. PICK b \in 1..Len(seqs[a]) : Place(from, n, a, b)
      BY <3>2
    <3>4. /\ j < a => Count(seqs, from, n, j) = Len(seqs[j])
          /\ j = a => Count(seqs, from, n, j) = b
          /\ ~(j < a) /\ j # a => Count(seqs, from, n, j) = 0
      BY <1>6, <3>3
    <3>5. /\ n \in DOMAIN flat /\ m \in DOMAIN flat /\ a \in Nat /\ b \in Nat
          /\ Len(seqs[a]) \in Nat
      <4>1. Len(seqs[a]) \in Nat
        BY <1>1
      <4> QED BY <1>1, <4>1
    <3>6. Continues(seqs, a, b, i, p)
      BY <1>10, <3>1, <3>3, <3>5, Following
    <3>7. CASE i = a /\ p = b + 1
      <4>1. p - 1 = b
        BY <3>5, <3>7
      <4> QED BY <1>2, <2>2, <3>1, <3>4, <3>5, <3>7, <4>1
    <3>8. CASE a < i /\ b = Len(seqs[a]) /\ p = 1 /\ Void(seqs, a + 1, i - 1)
      <4>1. CASE j < a
        <5>1. j < i /\ j # i
          BY <1>2, <3>5, <3>8, <4>1
        <5> QED BY <2>2, <3>1, <3>4, <4>1, <5>1
      <4>2. CASE j = a
        <5>1. j < i /\ j # i
          BY <1>2, <3>5, <3>8, <4>2
        <5> QED BY <2>2, <3>1, <3>4, <3>8, <4>2, <5>1
      <4>3. CASE ~(j < a) /\ j # a /\ j < i
        <5>1. j \in (a + 1)..(i - 1) /\ j # i
          BY <1>2, <3>5, <4>3
        <5>2. seqs[j] = <<>>
          BY <3>8, <5>1 DEF Void
        <5>3. Len(seqs[j]) = 0
          BY <5>2
        <5> QED BY <2>2, <3>1, <3>4, <4>3, <5>1, <5>3
      <4>4. CASE j = i
        <5>1. ~(j < a) /\ j # a /\ p - 1 = 0
          BY <1>2, <3>5, <3>8, <4>4
        <5> QED BY <2>2, <3>1, <3>4, <4>4, <5>1
      <4>5. CASE ~(j < i) /\ j # i
        <5>1. ~(j < a) /\ j # a
          BY <1>2, <3>5, <3>8, <4>5
        <5> QED BY <2>2, <3>1, <3>4, <4>5, <5>1
      <4> QED BY <4>1, <4>2, <4>3, <4>4, <4>5
    <3> QED BY <3>6, <3>7, <3>8 DEF Continues
  <2> QED BY <2>3, <2>4
<1> QED BY <1>7, <1>8, <1>9, <1>10

(* Every track is listed, and once.                                         *)
LEMMA TracksOnce ==
  \A u \in Tracks : \E j \in 1..Len(SetToSeq(Tracks)) :
     SetToSeq(Tracks)[j] = u /\ \A i \in 1..Len(SetToSeq(Tracks)) : SetToSeq(Tracks)[i] = u => i = j
<1> DEFINE N == Cardinality(Tracks)
           T == SetToSeq(Tracks)
<1>1. N \in Nat
  BY OracleAssumption, FS_CardinalityType
<1>2. PICK n \in Nat : ExistsBijection(1..n, Tracks)
  BY OracleAssumption, FS_NatBijection
<1>3. n = N
  BY <1>2, FS_CountingElements
<1>4. \E f \in [1..N -> Tracks] : IsInjective(f)
  BY <1>2, <1>3 DEF ExistsBijection, Bijection, Injection
<1>5. T \in [1..N -> Tracks] /\ IsInjective(T)
  BY <1>4 DEF SetToSeq
<1> HIDE DEF N, T
<1>6. Len(T) = N
  BY <1>1, <1>5, FunctionIsSeq
<1>7. T \in Injection(1..N, Tracks)
  BY <1>5 DEF Injection
<1>8. IsFiniteSet(1..N) /\ Cardinality(1..N) = N
  BY <1>1, FS_Interval
<1>9. Cardinality(1..N) = Cardinality(Tracks)
  BY <1>8 DEF N
<1>10. T \in Surjection(1..N, Tracks)
  BY <1>7, <1>9, OracleAssumption, FS_Injection
<1>11. \A u \in Tracks : \E j \in 1..N : T[j] = u
  BY <1>10 DEF Surjection
<1>12. \A i, j \in 1..N : T[i] = T[j] => i = j
  BY <1>5 DEF IsInjective
<1>13. \A u \in Tracks : \E j \in 1..Len(T) : T[j] = u /\ \A i \in 1..Len(T) : T[i] = u => i = j
  BY <1>6, <1>11, <1>12
<1> QED BY <1>13 DEF T

----------------------------------------------------------------------------
(* The recorder keeps to the replay as long as no slice is left without an  *)
(* end and no packet dropped; every event is numbered by its call.          *)
Sound == faults \cap {"lost", "swapped", "unended", "dropped"} = {}
Still(act) == [u \in Tracks |-> View(act[u], <<>>, FALSE)]
Traced(cs, act, clean) == Reached(cs, clean, Still(act), Len(cs[Len(cs)]))
Numbered(e, ids) ==
  /\ e.call \in Nat \ {0} /\ e.function \in Functions
  /\ e.id = IF ids /\ e.kind # "end" THEN e.call ELSE None
AllNumbered(cs, ids) == \A i \in 1..Len(cs) : \A n \in 1..Len(cs[i]) : Numbered(cs[i][n], ids)
Noted == active \in [Tracks -> Seq(Called)] /\ AllNumbered(chunks, identified)

LEMMA NumberedExtended ==
  ASSUME NEW cs, NEW ds, NEW ev, NEW ids, Sized(cs), Len(ev) \in Nat, Extended(ds, cs, ev),
         AllNumbered(cs, ids), \A k \in 1..Len(ev) : Numbered(ev[k], ids)
  PROVE  AllNumbered(ds, ids) /\ Sized(ds)
<1> DEFINE N == Len(cs)
           L == Len(cs[N])
           M == Len(ev)
<1>1. /\ N \in Nat /\ N > 0 /\ N \in 1..N /\ Len(ds) = N /\ \A i \in 1..N : i # N => ds[i] = cs[i]
      /\ Len(ds[N]) = L + M /\ \A k \in 1..L : ds[N][k] = cs[N][k]
      /\ \A k \in 1..M : ds[N][L + k] = ev[k]
      /\ \A i \in 1..N : Len(cs[i]) \in Nat
      /\ M \in Nat
  BY DEF Extended, Sized
<1>2. L \in Nat
  BY <1>1
<1>3. \A k \in 1..M : Numbered(ev[k], ids)
  OBVIOUS
<1>4. \A i \in 1..N : \A n \in 1..Len(cs[i]) : Numbered(cs[i][n], ids)
  BY DEF AllNumbered
<1>5. Len(ds) = N
  BY <1>1
<1>6. \A n \in 1..L : Numbered(cs[N][n], ids)
  BY <1>1, <1>4
<1> HIDE DEF L, M, N
<1>7. ASSUME NEW i \in 1..N, NEW n \in 1..Len(ds[i]) PROVE Numbered(ds[i][n], ids)
  <2>1. CASE i = N
    <3>1. n \in 1..(L + M)
      BY <1>1, <2>1
    <3>2. CASE n <= L
      <4>1. n \in 1..L
        BY <1>2, <3>1, <3>2
      <4> QED BY <1>1, <1>6, <2>1, <4>1
    <3>3. CASE ~(n <= L)
      <4>1. PICK k \in 1..M : n = L + k
        <5>1. n - L \in 1..M /\ n = L + (n - L)
          BY <1>1, <1>2, <3>1, <3>3
        <5> QED BY <5>1
      <4> QED BY <1>1, <1>3, <2>1, <4>1
    <3> QED BY <3>2, <3>3
  <2>2. CASE i # N
    <3>1. ds[i] = cs[i]
      BY <1>1, <2>2
    <3> QED BY <1>4, <3>1
  <2> QED BY <2>1, <2>2
<1>8. \A i \in 1..N : Len(ds[i]) \in Nat
  <2> TAKE i \in 1..N
  <2>1. i = N \/ ds[i] = cs[i]
    BY <1>1
  <2>2. L + M \in Nat
    BY <1>1, <1>2
  <2> QED BY <1>1, <2>1, <2>2
<1> QED BY <1>1, <1>7, <1>8 DEF AllNumbered, Sized

LEMMA NumberedAdded ==
  ASSUME NEW cs, NEW ds, NEW ev, NEW ids, Sized(cs), Len(ev) \in Nat, Added(ds, cs, ev),
         AllNumbered(cs, ids), \A k \in 1..Len(ev) : Numbered(ev[k], ids)
  PROVE  AllNumbered(ds, ids) /\ Sized(ds)
<1>1. /\ Len(cs) \in Nat /\ Len(ds) = Len(cs) + 1 /\ ds[Len(cs) + 1] = ev
      /\ \A i \in 1..Len(cs) : ds[i] = cs[i] /\ Len(cs[i]) \in Nat
  BY DEF Added, Sized
<1>2. \A i \in 1..Len(ds) : i \in 1..Len(cs) \/ i = Len(cs) + 1
  BY <1>1
<1>3. \A i \in 1..Len(cs) : \A n \in 1..Len(cs[i]) : Numbered(cs[i][n], ids)
  BY DEF AllNumbered
<1>4. AllNumbered(ds, ids)
  <2> SUFFICES ASSUME NEW i \in 1..Len(ds), NEW n \in 1..Len(ds[i]) PROVE Numbered(ds[i][n], ids)
    BY DEF AllNumbered
  <2>1. CASE i \in 1..Len(cs)
    BY <1>1, <1>3, <2>1
  <2>2. CASE i = Len(cs) + 1
    BY <1>1, <2>2
  <2> QED BY <1>2, <2>1, <2>2
<1>5. \A i \in 1..Len(ds) : Len(ds[i]) \in Nat
  BY <1>1, <1>2
<1> QED BY <1>1, <1>4, <1>5 DEF Sized

LEMMA EventNumbered ==
  ASSUME NEW k, NEW t, NEW c \in Called, NEW offset
  PROVE  /\ Event(k, t, c, offset).kind = k /\ Event(k, t, c, offset).track = t
         /\ CallOf(Event(k, t, c, offset)) = c
         /\ Numbered(Event(k, t, c, offset), identified)
<1>1. /\ c.call \in Nat \ {0} /\ c.function \in Functions
      /\ c = [call |-> c.call, function |-> c.function]
  BY DEF Called
<1>2. /\ Event(k, t, c, offset).kind = k /\ Event(k, t, c, offset).track = t
      /\ Event(k, t, c, offset).call = c.call /\ Event(k, t, c, offset).function = c.function
      /\ Event(k, t, c, offset).id = IF identified /\ k # "end" THEN c.call ELSE None
  BY DEF Event
<1>3. CallOf(Event(k, t, c, offset)) = c
  BY <1>1, <1>2 DEF CallOf
<1> QED BY <1>1, <1>2, <1>3 DEF Numbered

(* One track changes.                                                       *)
OnTrack(act, t, s, p) ==
  [u \in Tracks |-> IF u = t THEN View(s, <<>>, p) ELSE View(act[u], <<>>, FALSE)]

LEMMA OnTrackIs ==
  ASSUME NEW act \in [Tracks -> Seq(Called)], NEW t \in Tracks, NEW s \in Seq(Called)
  PROVE  /\ Still(act) = OnTrack(act, t, act[t], FALSE)
         /\ Still([act EXCEPT ![t] = s]) = OnTrack(act, t, s, FALSE)
         /\ \A p \in BOOLEAN : OnTrack(act, t, s, p) \in [Tracks -> Views]
         /\ OnTrack(act, t, act[t], FALSE) \in [Tracks -> Views]
         /\ Still(act) \in [Tracks -> Views]
<1>1. <<>> \in Seq(Called)
  OBVIOUS
<1>2. \A o \in Seq(Called) : \A p \in BOOLEAN : View(o, <<>>, p) \in Views
  BY <1>1 DEF View, Views
<1>3. Still(act) = OnTrack(act, t, act[t], FALSE)
  BY DEF Still, OnTrack
<1>4. Still([act EXCEPT ![t] = s]) = OnTrack(act, t, s, FALSE)
  BY DEF Still, OnTrack
<1>5. \A o \in Seq(Called) : \A p \in BOOLEAN : OnTrack(act, t, o, p) \in [Tracks -> Views]
  BY <1>2 DEF OnTrack
<1> QED BY <1>3, <1>4, <1>5

LEMMA OnTrackPasses ==
  ASSUME NEW act, NEW t \in Tracks, NEW s, NEW p, NEW z, NEW q, NEW e, NEW clean, e.track = t,
         Moves(View(s, <<>>, p), View(z, <<>>, q), e, FALSE),
         clean => Neat(View(s, <<>>, p), e, FALSE)
  PROVE  Passes(OnTrack(act, t, s, p), OnTrack(act, t, z, q), e, FALSE, clean)
<1> DEFINE b == OnTrack(act, t, s, p)
           a == OnTrack(act, t, z, q)
<1>1. /\ b[t] = View(s, <<>>, p) /\ a[t] = View(z, <<>>, q)
      /\ \A u \in Tracks : u # t => a[u] = b[u]
  BY DEF OnTrack
<1> HIDE DEF a, b
<1>2. Passes(b, a, e, FALSE, clean)
  BY <1>1 DEF Passes
<1> QED BY <1>2 DEF a, b

LEMMA ViewIs ==
  ASSUME NEW o, NEW w
  PROVE  /\ View(o, w, FALSE).open = o /\ View(o, w, FALSE).waiting = w
         /\ ~View(o, w, FALSE).probed
         /\ View(o, w, TRUE).open = o /\ View(o, w, TRUE).waiting = w
         /\ View(o, w, TRUE).probed
BY DEF View

LEMMA CallMoves ==
  ASSUME NEW s, NEW e
  PROVE  /\ e.kind = "enter" =>
              Moves(View(s, <<>>, FALSE), View(Append(s, CallOf(e)), <<>>, FALSE), e, FALSE)
         /\ e.kind = "probe" /\ s # <<>> /\ Last(s) = CallOf(e) =>
              /\ Moves(View(s, <<>>, FALSE), View(s, <<>>, TRUE), e, FALSE)
              /\ Moves(View(s, <<>>, TRUE), View(s, <<>>, TRUE), e, FALSE)
         /\ e.kind = "end" /\ s # <<>> /\ Last(s) = CallOf(e) =>
              /\ Moves(View(s, <<>>, FALSE), View(Front(s), <<>>, FALSE), e, FALSE)
              /\ Moves(View(s, <<>>, TRUE), View(Front(s), <<>>, FALSE), e, FALSE)
         /\ e.kind \notin {"probe", "end"} => Neat(View(s, <<>>, FALSE), e, FALSE)
         /\ e.kind = "probe" => Neat(View(s, <<>>, FALSE), e, FALSE)
         /\ e.kind = "end" => Neat(View(s, <<>>, TRUE), e, FALSE)
<1> DEFINE b == View(s, <<>>, FALSE)
           a == View(s, <<>>, TRUE)
           f == View(Front(s), <<>>, FALSE)
           p == View(Append(s, CallOf(e)), <<>>, FALSE)
<1>1. /\ b.open = s /\ b.waiting = <<>> /\ ~b.probed
      /\ a.open = s /\ a.waiting = <<>> /\ a.probed
  BY DEF View
<1>2. /\ p = View(Append(b.open, CallOf(e)), <<>>, FALSE)
      /\ a = View(b.open, <<>>, TRUE) /\ a = View(a.open, <<>>, TRUE)
      /\ f = View(Front(b.open), <<>>, FALSE) /\ f = View(Front(a.open), <<>>, FALSE)
  BY <1>1
<1> HIDE DEF a, b, f, p
<1>3. e.kind = "enter" => Moves(b, p, e, FALSE)
  BY <1>1, <1>2 DEF Moves
<1>4. e.kind = "probe" /\ s # <<>> /\ Last(s) = CallOf(e) =>
        Moves(b, a, e, FALSE) /\ Moves(a, a, e, FALSE)
  BY <1>1, <1>2 DEF Moves
<1>5. e.kind = "end" /\ s # <<>> /\ Last(s) = CallOf(e) =>
        Moves(b, f, e, FALSE) /\ Moves(a, f, e, FALSE)
  BY <1>1, <1>2 DEF Moves
<1>6. /\ e.kind \notin {"probe", "end"} => Neat(b, e, FALSE)
      /\ e.kind = "probe" => Neat(b, e, FALSE)
      /\ e.kind = "end" => Neat(a, e, FALSE)
  BY <1>1 DEF Neat
<1> QED BY <1>3, <1>4, <1>5, <1>6 DEF a, b, f, p

LEMMA ChunksSized ==
  ASSUME Recorded
  PROVE  Sized(chunks) /\ \E S : chunks \in Seq(Seq(S))
<1>1. PICK S : chunks \in Seq(Seq(S))
  BY DEF Recorded, ChunksFit
<1>2. Len(chunks) > 0
  BY DEF Recorded
<1> QED BY <1>1, <1>2, ChunksTyped DEF Sized

LEMMA RecordExtends ==
  ASSUME Recorded, NEW E, NEW ev \in Seq(E), Record(ev)
  PROVE  Extended(chunks', chunks, ev)
<1>1. PICK S : chunks \in Seq(Seq(S))
  BY ChunksSized
<1>2. chunks' = [chunks EXCEPT ![Len(chunks)] = @ \o ev] /\ Len(chunks) > 0
  BY DEF Record, Recorded
<1>3. Extended([chunks EXCEPT ![Len(chunks)] = @ \o ev], chunks, ev)
  BY <1>1, <1>2, LastExtended
<1> QED BY <1>2, <1>3

(* What is recorded outside of a rotation.                                  *)
LEMMA TracedOn ==
  ASSUME Recorded, NEW ev, Len(ev) \in Nat, Len(ev) > 0, Extended(chunks', chunks, ev),
         NEW clean, NEW now, now => clean, Traced(chunks, active, clean),
         NEW H, H[0] = Still(active), H[Len(ev)] = Still(active'), Replay(ev, H, Len(ev), now)
  PROVE  Traced(chunks', active', now)
<1>1. Sized(chunks)
  BY ChunksSized
<1>2. PICK cs, ds : cs = chunks /\ ds = chunks'
  OBVIOUS
<1>3. /\ Sized(cs) /\ Extended(ds, cs, ev) /\ Len(ev) \in 0..Len(ev)
      /\ Reached(cs, clean, H[0], Len(cs[Len(cs)]))
  BY <1>1, <1>2 DEF Traced
<1>4. ds[Len(cs)] = <<>> => cs[Len(cs)] = <<>>
  <2>1. Len(ds[Len(cs)]) = Len(cs[Len(cs)]) + Len(ev) /\ Len(cs[Len(cs)]) \in Nat
    BY <1>3 DEF Extended, Sized
  <2>2. Len(ds[Len(cs)]) # 0
    BY <2>1
  <2> QED BY <2>2
<1>5. Reached(ds, now, H[Len(ev)], Len(cs[Len(cs)]) + Len(ev))
  BY <1>3, <1>4, RunExtended
<1>6. Len(ds) = Len(cs) /\ Len(ds[Len(ds)]) = Len(cs[Len(cs)]) + Len(ev)
  BY <1>3 DEF Extended
<1>7. Traced(ds, active', now)
  BY <1>5, <1>6 DEF Traced
<1> QED BY <1>2, <1>7

Faithful == Noted /\ (Sound => Traced(chunks, active, faults = {}))

LEMMA RecordingFaithful ==
  ASSUME Recorded, Faithful, identified' = identified, faults \subseteq faults',
         active' \in [Tracks -> Seq(Called)],
         NEW E, NEW ev \in Seq(E), Len(ev) > 0, Record(ev),
         \A k \in 1..Len(ev) : Numbered(ev[k], identified),
         Sound' => \E H : /\ H[0] = Still(active) /\ H[Len(ev)] = Still(active')
                          /\ Replay(ev, H, Len(ev), faults' = {})
  PROVE  Faithful'
<1>1. Len(ev) \in Nat /\ Extended(chunks', chunks, ev) /\ Sized(chunks)
  BY LenProperties, RecordExtends, ChunksSized
<1>2. AllNumbered(chunks', identified)
  <2>1. PICK ds, cs : ds = chunks' /\ cs = chunks
    OBVIOUS
  <2>2. AllNumbered(cs, identified)
    BY <2>1 DEF Faithful, Noted
  <2>3. Extended(ds, cs, ev) /\ Sized(cs)
    BY <1>1, <2>1
  <2>4. AllNumbered(ds, identified)
    BY <1>1, <2>2, <2>3, NumberedExtended
  <2> QED BY <2>1, <2>4
<1>3. Noted'
  <2>1. AllNumbered(chunks', identified')
    BY <1>2
  <2> QED BY <2>1 DEF Noted
<1>4. ASSUME Sound' PROVE Traced(chunks', active', faults' = {})
  <2>1. Sound
    BY <1>4 DEF Sound
  <2>2. PICK H : /\ H[0] = Still(active) /\ H[Len(ev)] = Still(active')
                 /\ Replay(ev, H, Len(ev), faults' = {})
    BY <1>4
  <2>3. Traced(chunks, active, faults = {})
    BY <2>1 DEF Faithful
  <2>4. PICK clean, now : clean = (faults = {}) /\ now = (faults' = {})
    OBVIOUS
  <2>5. now => clean
    BY <2>4
  <2>6. Traced(chunks, active, clean) /\ Replay(ev, H, Len(ev), now)
    BY <2>2, <2>3, <2>4
  <2>7. Traced(chunks', active', now)
    BY <1>1, <2>2, <2>5, <2>6, TracedOn
  <2> QED BY <2>4, <2>7
<1> QED BY <1>3, <1>4 DEF Faithful

LEMMA EnterFaithful ==
  ASSUME Recorded, Faithful, NEW t \in Tracks, NEW f \in Functions, Enter(t, f)
  PROVE  Faithful'
<1> DEFINE c  == [call |-> calls + 1, function |-> f]
           e  == Event("enter", t, c, 1)
           ev == <<e>>
           z  == Append(active[t], c)
           H  == [k \in 0..1 |-> IF k = 0 THEN OnTrack(active, t, active[t], FALSE)
                                 ELSE OnTrack(active, t, z, FALSE)]
<1>1. /\ calls' = calls + 1 /\ active' = [active EXCEPT ![t] = z] /\ Record(ev)
      /\ identified' = identified /\ faults' = faults
  BY DEF Enter
<1>2. active \in [Tracks -> Seq(Called)]
  BY DEF Faithful, Noted
<1>3. c \in Called
  <2>1. calls \in Nat
    BY DEF Recorded
  <2> QED BY <2>1 DEF Called
<1>4. z \in Seq(Called) /\ active[t] \in Seq(Called)
  <2>1. active[t] \in Seq(Called)
    BY <1>2
  <2> HIDE DEF c
  <2> QED BY <1>3, <2>1, AppendProperties
<1> HIDE DEF c
<1>5. e.kind = "enter" /\ e.track = t /\ CallOf(e) = c /\ Numbered(e, identified)
  BY <1>3, EventNumbered
<1>6. z = Append(active[t], CallOf(e))
  BY <1>5
<1> HIDE DEF e, z
<1>7. ev \in Seq({e}) /\ Len(ev) = 1 /\ ev[1] = e
  OBVIOUS
<1>8. H[0] = OnTrack(active, t, active[t], FALSE) /\ H[1] = OnTrack(active, t, z, FALSE)
  OBVIOUS
<1> HIDE DEF ev, H
<1>9. /\ H[0] = Still(active) /\ H[1] = Still([active EXCEPT ![t] = z])
      /\ H[0] \in [Tracks -> Views] /\ H[1] \in [Tracks -> Views]
  <2>1. /\ Still(active) = OnTrack(active, t, active[t], FALSE)
        /\ Still([active EXCEPT ![t] = z]) = OnTrack(active, t, z, FALSE)
    BY <1>2, <1>4, OnTrackIs
  <2>2. /\ OnTrack(active, t, active[t], FALSE) \in [Tracks -> Views]
        /\ OnTrack(active, t, z, FALSE) \in [Tracks -> Views]
    BY <1>2, <1>4, OnTrackIs
  <2> QED BY <1>8, <2>1, <2>2
<1>10. Moves(View(active[t], <<>>, FALSE), View(z, <<>>, FALSE), e, FALSE)
  BY <1>5, <1>6, CallMoves
<1>11. \A clean : Passes(H[0], H[1], e, FALSE, clean)
  <2> TAKE clean
  <2>1. Neat(View(active[t], <<>>, FALSE), e, FALSE)
    BY <1>5, CallMoves
  <2> QED BY <1>5, <1>8, <1>10, <2>1, OnTrackPasses
<1>12. \A clean : Replay(ev, H, Len(ev), clean)
  <2> TAKE clean
  <2>1. \A k \in 0..1 : k = 0 \/ k = 1
    OBVIOUS
  <2>2. \A k \in 0..1 : H[k] \in [Tracks -> Views]
    BY <1>9, <2>1
  <2>3. Passes(H[1 - 1], H[1], ev[1], 1 > 1, clean)
    <3>1. 1 - 1 = 0 /\ (1 > 1) = FALSE
      OBVIOUS
    <3> QED BY <1>7, <1>11, <3>1
  <2>4. \A k \in 1..1 : k = 1
    OBVIOUS
  <2> QED BY <1>7, <2>2, <2>3, <2>4 DEF Replay
<1>13. active' \in [Tracks -> Seq(Called)]
  BY <1>1, <1>2, <1>4
<1>14. \A k \in 1..Len(ev) : Numbered(ev[k], identified)
  <2>1. \A k \in 1..1 : k = 1
    OBVIOUS
  <2> QED BY <1>5, <1>7, <2>1
<1>15. H[Len(ev)] = Still(active') /\ Len(ev) > 0
  BY <1>1, <1>7, <1>9
<1> QED BY <1>1, <1>7, <1>9, <1>12, <1>13, <1>14, <1>15, RecordingFaithful

(* A return: the probe is recorded n times, and then the end of the slice.  *)
LEMMA ReturnFaithful ==
  ASSUME Recorded, Faithful, NEW t \in Tracks, active[t] # <<>>,
         active' = [active EXCEPT ![t] = Front(@)],
         identified' = identified, faults \subseteq faults',
         NEW n \in {0, 1, 2}, n # 1 => faults' # {},
         NEW E, NEW ev \in Seq(E), Len(ev) = n + 1, Record(ev),
         \A k \in 1..n : ev[k] = Event("probe", t, Last(active[t]), k),
         ev[n + 1] = Event("end", t, Last(active[t]), n + 1)
  PROVE  Faithful'
<1> DEFINE s == active[t]
           c == Last(s)
           z == Front(s)
           A == OnTrack(active, t, s, FALSE)
           P == OnTrack(active, t, s, TRUE)
           Z == OnTrack(active, t, z, FALSE)
           H == [k \in 0..(n + 1) |-> IF k = n + 1 THEN Z ELSE IF k = 0 THEN A ELSE P]
<1>1. active \in [Tracks -> Seq(Called)]
  BY DEF Faithful, Noted
<1>2. s \in Seq(Called) /\ z \in Seq(Called) /\ c \in Called
  <2>1. active[t] \in Seq(Called)
    BY <1>1
  <2>2. PICK q : q = active[t]
    OBVIOUS
  <2>3. q \in Seq(Called) /\ q # <<>>
    BY <2>1, <2>2
  <2>4. Front(q) \in Seq(Called) /\ Last(q) = q[Len(q)] /\ Len(q) \in DOMAIN q
    BY <2>3, FrontIs
  <2>5. Last(q) \in Called
    BY <2>3, <2>4, ElementOfSeq, LenProperties
  <2> QED BY <2>2, <2>3, <2>4, <2>5
<1>3. /\ \A k \in 1..n : /\ ev[k].kind = "probe" /\ ev[k].track = t /\ CallOf(ev[k]) = c
                         /\ Numbered(ev[k], identified)
      /\ ev[n + 1].kind = "end" /\ ev[n + 1].track = t /\ CallOf(ev[n + 1]) = c
      /\ Numbered(ev[n + 1], identified)
  BY <1>2, EventNumbered
<1>4. H[0] = A /\ (\A k \in 1..n : H[k] = P) /\ H[n + 1] = Z
  <2>1. 0 \in 0..(n + 1) /\ 0 # n + 1 /\ n + 1 \in 0..(n + 1)
    OBVIOUS
  <2>2. \A k \in 1..n : k \in 0..(n + 1) /\ k # n + 1 /\ k # 0
    OBVIOUS
  <2> HIDE DEF A, P, Z
  <2> QED BY <2>1, <2>2
<1>5. s # <<>>
  OBVIOUS
<1> HIDE DEF H
<1>6. /\ A = Still(active) /\ Z = Still(active')
      /\ A \in [Tracks -> Views] /\ P \in [Tracks -> Views] /\ Z \in [Tracks -> Views]
  <2>1. A = Still(active) /\ Z = Still([active EXCEPT ![t] = z])
    BY <1>1, <1>2, OnTrackIs
  <2>2. A \in [Tracks -> Views] /\ P \in [Tracks -> Views] /\ Z \in [Tracks -> Views]
    <3>1. TRUE \in BOOLEAN /\ FALSE \in BOOLEAN
      OBVIOUS
    <3> QED BY <1>1, <1>2, <3>1, OnTrackIs
  <2> QED BY <2>1, <2>2
<1>7. \A k \in 0..(n + 1) : H[k] \in [Tracks -> Views]
  <2>1. \A k \in 0..(n + 1) : k = 0 \/ k \in 1..n \/ k = n + 1
    OBVIOUS
  <2> QED BY <1>4, <1>6, <2>1
<1> HIDE DEF s, c, z
<1>8. \A e : e.kind = "probe" /\ e.track = t /\ CallOf(e) = c =>
        /\ Passes(A, P, e, FALSE, faults' = {})
        /\ Passes(P, P, e, FALSE, FALSE)
  <2> TAKE e
  <2> SUFFICES ASSUME e.kind = "probe", e.track = t, CallOf(e) = c
               PROVE  /\ Passes(A, P, e, FALSE, faults' = {})
                      /\ Passes(P, P, e, FALSE, FALSE)
    OBVIOUS
  <2>1. /\ Moves(View(s, <<>>, FALSE), View(s, <<>>, TRUE), e, FALSE)
        /\ Moves(View(s, <<>>, TRUE), View(s, <<>>, TRUE), e, FALSE)
        /\ Neat(View(s, <<>>, FALSE), e, FALSE)
    BY <1>5, CallMoves DEF c
  <2>2. Passes(A, P, e, FALSE, faults' = {})
    BY <2>1, OnTrackPasses
  <2>3. Passes(P, P, e, FALSE, FALSE)
    BY <2>1, OnTrackPasses
  <2> QED BY <2>2, <2>3
<1>9. \A e : e.kind = "end" /\ e.track = t /\ CallOf(e) = c =>
        /\ Passes(P, Z, e, FALSE, faults' = {})
        /\ Passes(A, Z, e, FALSE, FALSE)
  <2> TAKE e
  <2> SUFFICES ASSUME e.kind = "end", e.track = t, CallOf(e) = c
               PROVE  /\ Passes(P, Z, e, FALSE, faults' = {})
                      /\ Passes(A, Z, e, FALSE, FALSE)
    OBVIOUS
  <2>1. /\ Moves(View(s, <<>>, FALSE), View(z, <<>>, FALSE), e, FALSE)
        /\ Moves(View(s, <<>>, TRUE), View(z, <<>>, FALSE), e, FALSE)
        /\ Neat(View(s, <<>>, TRUE), e, FALSE)
    BY <1>5, CallMoves DEF c, z
  <2>2. Passes(P, Z, e, FALSE, faults' = {})
    BY <2>1, OnTrackPasses
  <2>3. Passes(A, Z, e, FALSE, FALSE)
    BY <2>1, OnTrackPasses
  <2> QED BY <2>2, <2>3
<1> HIDE DEF A, P, Z
<1>10. ASSUME NEW k \in 1..(n + 1)
       PROVE  Passes(H[k - 1], H[k], ev[k], FALSE, faults' = {})
  <2>1. CASE k \in 1..n /\ k = 1
    <3>1. k - 1 = 0
      BY <2>1
    <3> QED BY <1>3, <1>4, <1>8, <2>1, <3>1
  <2>2. CASE k \in 1..n /\ k # 1
    <3>1. k - 1 \in 1..n /\ n # 1
      BY <2>2
    <3>2. Passes(P, P, ev[k], FALSE, FALSE)
      BY <1>3, <1>8, <2>2
    <3>3. Passes(P, P, ev[k], FALSE, faults' = {})
      BY <3>1, <3>2 DEF Passes
    <3> QED BY <1>4, <2>2, <3>1, <3>3
  <2>3. CASE k = n + 1 /\ n = 1
    <3>1. k - 1 \in 1..n
      BY <2>3
    <3>2. Passes(P, Z, ev[k], FALSE, faults' = {})
      BY <1>3, <1>9, <2>3
    <3> QED BY <1>4, <2>3, <3>1, <3>2
  <2>4. CASE k = n + 1 /\ n = 0
    <3>1. k - 1 = 0 /\ n # 1
      BY <2>4
    <3>2. Passes(A, Z, ev[k], FALSE, FALSE)
      BY <1>3, <1>9, <2>4
    <3>3. Passes(A, Z, ev[k], FALSE, faults' = {})
      BY <3>1, <3>2 DEF Passes
    <3> QED BY <1>4, <2>4, <3>1, <3>3
  <2>5. CASE k = n + 1 /\ n = 2
    <3>1. k - 1 \in 1..n
      BY <2>5
    <3>2. Passes(P, Z, ev[k], FALSE, faults' = {})
      BY <1>3, <1>9, <2>5
    <3> QED BY <1>4, <2>5, <3>1, <3>2
  <2>6. k \in 1..n \/ k = n + 1
    OBVIOUS
  <2> QED BY <2>1, <2>2, <2>3, <2>4, <2>5, <2>6
<1>11. Replay(ev, H, Len(ev), faults' = {})
  <2>1. ASSUME NEW k \in 1..Len(ev)
        PROVE  Passes(H[k - 1], H[k], ev[k], k > Len(ev), faults' = {})
    <3>1. (k > Len(ev)) = FALSE
      OBVIOUS
    <3>2. Passes(H[k - 1], H[k], ev[k], FALSE, faults' = {})
      BY <1>10
    <3> QED BY <3>1, <3>2
  <2> QED BY <1>7, <2>1 DEF Replay
<1>12. active' \in [Tracks -> Seq(Called)]
  BY <1>1, <1>2 DEF z, s
<1>13. \A k \in 1..Len(ev) : Numbered(ev[k], identified)
  <2> TAKE k \in 1..Len(ev)
  <2>1. k = n + 1 \/ k \in 1..n
    OBVIOUS
  <2> QED BY <1>3, <2>1
<1>14. Len(ev) > 0 /\ H[Len(ev)] = Still(active') /\ H[0] = Still(active)
  BY <1>4, <1>6
<1> QED BY <1>11, <1>12, <1>13, <1>14, RecordingFaithful

LEMMA ReturnsFaithful ==
  ASSUME Recorded, Faithful, NEW t \in Tracks,
         \/ Return(t) \/ ReturnUnprobed(t)
         \/ \E f \in {"twice", "unended"} : ReturnMalformed(t, f)
  PROVE  Faithful'
<1> DEFINE c    == Last(active[t])
           p(k) == Event("probe", t, c, k)
           e(k) == Event("end", t, c, k)
<1>1. CASE Return(t)
  <2> DEFINE ev == <<p(1), e(2)>>
  <2>1. /\ active[t] # <<>> /\ active' = [active EXCEPT ![t] = Front(@)]
        /\ identified' = identified /\ faults' = faults /\ Record(ev)
    BY <1>1 DEF Return
  <2> HIDE DEF p, e
  <2>2. ev \in Seq({p(1), e(2)}) /\ Len(ev) = 1 + 1 /\ ev[1] = p(1) /\ ev[1 + 1] = e(1 + 1)
    OBVIOUS
  <2>3. \A k \in 1..1 : ev[k] = p(k)
    BY <2>2
  <2> HIDE DEF ev
  <2>4. 1 \in {0, 1, 2}
    OBVIOUS
  <2> QED BY <2>1, <2>2, <2>3, <2>4, ReturnFaithful DEF p, e
<1>2. CASE ReturnUnprobed(t)
  <2> DEFINE ev == <<e(1)>>
  <2>1. /\ active[t] # <<>> /\ active' = [active EXCEPT ![t] = Front(@)]
        /\ identified' = identified /\ Record(ev)
        /\ faults \subseteq faults' /\ faults' # {}
    BY <1>2 DEF ReturnUnprobed, Fault
  <2> HIDE DEF p, e
  <2>2. ev \in Seq({e(1)}) /\ Len(ev) = 0 + 1 /\ ev[0 + 1] = e(0 + 1)
    OBVIOUS
  <2>3. \A k \in 1..0 : ev[k] = p(k)
    OBVIOUS
  <2> HIDE DEF ev
  <2>4. 0 \in {0, 1, 2}
    OBVIOUS
  <2> QED BY <2>1, <2>2, <2>3, <2>4, ReturnFaithful DEF p, e
<1>3. CASE ReturnMalformed(t, "twice")
  <2> DEFINE ev == <<p(1), p(2), e(3)>>
  <2>1. /\ active[t] # <<>> /\ active' = [active EXCEPT ![t] = Front(@)]
        /\ identified' = identified /\ Record(ev)
        /\ faults \subseteq faults' /\ faults' # {}
    BY <1>3 DEF ReturnMalformed, Fault
  <2> HIDE DEF p, e
  <2>2. /\ ev \in Seq({p(1), p(2), e(3)}) /\ Len(ev) = 2 + 1 /\ ev[1] = p(1) /\ ev[2] = p(2)
        /\ ev[2 + 1] = e(2 + 1)
    OBVIOUS
  <2>3. \A k \in 1..2 : ev[k] = p(k)
    <3>1. \A k \in 1..2 : k = 1 \/ k = 2
      OBVIOUS
    <3> QED BY <2>2, <3>1
  <2> HIDE DEF ev
  <2>4. 2 \in {0, 1, 2}
    OBVIOUS
  <2> QED BY <2>1, <2>2, <2>3, <2>4, ReturnFaithful DEF p, e
<1>4. CASE ReturnMalformed(t, "unended")
  <2> DEFINE ev == <<p(1)>>
  <2>1. /\ active[t] # <<>> /\ active' = [active EXCEPT ![t] = Front(active[t])]
        /\ identified' = identified /\ Record(ev)
        /\ faults \subseteq faults' /\ "unended" \in faults'
    BY <1>4 DEF ReturnMalformed, Fault
  <2>2. active \in [Tracks -> Seq(Called)]
    BY DEF Faithful, Noted
  <2>3. active[t] \in Seq(Called)
    BY <2>2
  <2>4. Front(active[t]) \in Seq(Called) /\ c \in Called
    <3>1. PICK q : q = active[t]
      OBVIOUS
    <3>2. q \in Seq(Called) /\ q # <<>>
      BY <2>1, <2>3, <3>1
    <3>3. Front(q) \in Seq(Called) /\ Last(q) = q[Len(q)] /\ Len(q) \in DOMAIN q
      BY <3>2, FrontIs
    <3>4. Last(q) \in Called
      BY <3>2, <3>3, ElementOfSeq, LenProperties
    <3> QED BY <3>1, <3>3, <3>4
  <2>5. active' \in [Tracks -> Seq(Called)]
    BY <2>1, <2>2, <2>4
  <2> HIDE DEF c
  <2>6. Numbered(p(1), identified)
    BY <2>4, EventNumbered
  <2> HIDE DEF p
  <2>7. ev \in Seq({p(1)}) /\ Len(ev) = 1 /\ ev[1] = p(1)
    OBVIOUS
  <2> HIDE DEF ev
  <2>8. \A k \in 1..Len(ev) : Numbered(ev[k], identified)
    <3>1. \A k \in 1..1 : k = 1
      OBVIOUS
    <3> QED BY <2>6, <2>7, <3>1
  <2>9. ~Sound'
    BY <2>1 DEF Sound
  <2>10. Len(ev) > 0
    BY <2>7
  <2> QED BY <2>1, <2>5, <2>7, <2>8, <2>9, <2>10, RecordingFaithful
<1> QED BY <1>1, <1>2, <1>3, <1>4

(* A rotation: on each track the first of the calls are open, the others    *)
(* wait; an event moves the border on its track by one.                     *)
Parted(act, K) == [u \in Tracks |-> Part(act[u], K[u])]
Bordered(act, K) == \A u \in Tracks : K[u] \in 0..Len(act[u])
Border(act, A, B, e, kind) ==
  \E t \in Tracks : \E k \in 1..Len(act[t]) :
     /\ e.kind = kind /\ e.track = t /\ CallOf(e) = act[t][k] /\ Numbered(e, identified)
     /\ IF kind = "end" THEN A[t] = k /\ B[t] = k - 1 ELSE A[t] = k - 1 /\ B[t] = k
     /\ \A u \in Tracks : u # t => A[u] = B[u]

LEMMA BorderPasses ==
  ASSUME NEW act \in [Tracks -> Seq(Called)], NEW A, NEW B, NEW e, NEW clean
  PROVE  /\ Border(act, A, B, e, "end") => Passes(Parted(act, A), Parted(act, B), e, TRUE, clean)
         /\ Border(act, A, B, e, "reopen") =>
              Passes(Parted(act, A), Parted(act, B), e, FALSE, clean)
<1> DEFINE b == Parted(act, A)
           a == Parted(act, B)
<1>1. \A u \in Tracks : b[u] = Part(act[u], A[u]) /\ a[u] = Part(act[u], B[u])
  BY DEF Parted
<1> HIDE DEF a, b
<1>2. ASSUME Border(act, A, B, e, "end") PROVE Passes(b, a, e, TRUE, clean)
  <2>1. PICK t \in Tracks : \E k \in 1..Len(act[t]) :
           /\ e.kind = "end" /\ e.track = t /\ CallOf(e) = act[t][k]
           /\ A[t] = k /\ B[t] = k - 1 /\ \A u \in Tracks : u # t => A[u] = B[u]
    BY <1>2 DEF Border
  <2>2. PICK k \in 1..Len(act[t]) :
           /\ e.kind = "end" /\ e.track = t /\ CallOf(e) = act[t][k]
           /\ A[t] = k /\ B[t] = k - 1 /\ \A u \in Tracks : u # t => A[u] = B[u]
    BY <2>1
  <2>3. act[t] \in Seq(Called)
    OBVIOUS
  <2>4. Moves(Part(act[t], k), Part(act[t], k - 1), e, TRUE)
    BY <2>2, <2>3, PartMoves
  <2>5. Moves(b[t], a[t], e, TRUE) /\ \A u \in Tracks : u # t => a[u] = b[u]
    BY <1>1, <2>2, <2>4
  <2>6. Neat(b[t], e, TRUE)
    BY <2>2 DEF Neat
  <2> QED BY <2>2, <2>5, <2>6 DEF Passes
<1>3. ASSUME Border(act, A, B, e, "reopen") PROVE Passes(b, a, e, FALSE, clean)
  <2>1. PICK t \in Tracks : \E k \in 1..Len(act[t]) :
           /\ e.kind = "reopen" /\ e.track = t /\ CallOf(e) = act[t][k]
           /\ A[t] = k - 1 /\ B[t] = k /\ \A u \in Tracks : u # t => A[u] = B[u]
    BY <1>3 DEF Border
  <2>2. PICK k \in 1..Len(act[t]) :
           /\ e.kind = "reopen" /\ e.track = t /\ CallOf(e) = act[t][k]
           /\ A[t] = k - 1 /\ B[t] = k /\ \A u \in Tracks : u # t => A[u] = B[u]
    BY <2>1
  <2>3. act[t] \in Seq(Called)
    OBVIOUS
  <2>4. Moves(Part(act[t], k - 1), Part(act[t], k), e, FALSE)
    BY <2>2, <2>3, PartMoves
  <2>5. Moves(b[t], a[t], e, FALSE) /\ \A u \in Tracks : u # t => a[u] = b[u]
    BY <1>1, <2>2, <2>4
  <2>6. Neat(b[t], e, FALSE)
    BY <2>2 DEF Neat
  <2> QED BY <2>2, <2>5, <2>6 DEF Passes
<1> QED BY <1>2, <1>3 DEF a, b

Index == [u \in Tracks |-> CHOOSE j \in 1..Len(SetToSeq(Tracks)) : SetToSeq(Tracks)[j] = u]
LEMMA IndexIs ==
  /\ \A u \in Tracks : Index[u] \in 1..Len(SetToSeq(Tracks)) /\ SetToSeq(Tracks)[Index[u]] = u
  /\ \A j \in 1..Len(SetToSeq(Tracks)) : /\ SetToSeq(Tracks)[j] \in Tracks
                                         /\ Index[SetToSeq(Tracks)[j]] = j
<1> DEFINE T == SetToSeq(Tracks)
<1>1. T \in [1..Len(T) -> Tracks]
  BY TracksListed
<1>2. \A u \in Tracks : \E j \in 1..Len(T) : T[j] = u /\ \A i \in 1..Len(T) : T[i] = u => i = j
  BY TracksOnce
<1>3. \A u \in Tracks : Index[u] = CHOOSE j \in 1..Len(T) : T[j] = u
  BY DEF Index
<1> HIDE DEF T
<1>4. \A u \in Tracks : Index[u] \in 1..Len(T) /\ T[Index[u]] = u
  BY <1>2, <1>3
<1>5. \A j \in 1..Len(T) : T[j] \in Tracks /\ Index[T[j]] = j
  <2> TAKE j \in 1..Len(T)
  <2>1. T[j] \in Tracks
    BY <1>1
  <2>2. PICK i \in 1..Len(T) : \A h \in 1..Len(T) : T[h] = T[j] => h = i
    BY <1>2, <2>1
  <2> QED BY <1>4, <2>1, <2>2
<1> QED BY <1>4, <1>5 DEF T

(* The flattening of one sequence of events for each track.                 *)
PerTrack(seqs, act, kind) ==
  \A n \in 1..Len(seqs) :
     /\ Len(seqs[n]) = Len(act[SetToSeq(Tracks)[n]])
     /\ \A k \in 1..Len(seqs[n]) :
          /\ seqs[n][k].kind = kind /\ seqs[n][k].track = SetToSeq(Tracks)[n]
          /\ CallOf(seqs[n][k]) =
               act[SetToSeq(Tracks)[n]][IF kind = "end" THEN Len(seqs[n]) - k + 1 ELSE k]
          /\ Numbered(seqs[n][k], identified)
Bordering(flat, act, kind, K) ==
  /\ \A m \in 0..Len(flat) : Bordered(act, K[m])
  /\ \A m \in 1..Len(flat) : Border(act, K[m - 1], K[m], flat[m], kind)
  /\ \A u \in Tracks : /\ K[0][u] = IF kind = "end" THEN Len(act[u]) ELSE 0
                       /\ K[Len(flat)][u] = IF kind = "end" THEN 0 ELSE Len(act[u])
LEMMA FlatBorders ==
  ASSUME NEW act \in [Tracks -> Seq(Called)], NEW S, NEW seqs \in Seq(Seq(S)),
         Len(seqs) = Len(SetToSeq(Tracks)), NEW kind, PerTrack(seqs, act, kind)
  PROVE  \E K : Bordering(FlattenSeq(seqs), act, kind, K)
<1> DEFINE flat == FlattenSeq(seqs)
           T    == SetToSeq(Tracks)
<1>1. flat \in Seq(S) /\ \E from : Ordered(seqs, flat, from, Len(seqs))
  BY FlattenOrdered
<1> HIDE DEF flat
<1>a. \A n \in 1..Len(seqs) :
        /\ Len(seqs[n]) = Len(act[T[n]])
        /\ \A k \in 1..Len(seqs[n]) :
             /\ seqs[n][k].kind = kind /\ seqs[n][k].track = T[n]
             /\ CallOf(seqs[n][k]) = act[T[n]][IF kind = "end" THEN Len(seqs[n]) - k + 1 ELSE k]
             /\ Numbered(seqs[n][k], identified)
  BY DEF PerTrack
<1>2. PICK from : Ordered(seqs, flat, from, Len(seqs))
  BY <1>1
<1> DEFINE C(m, u) == Count(seqs, from, m, Index[u])
           K == [m \in 0..Len(flat) |-> [u \in Tracks |->
                   IF kind = "end" THEN Len(act[u]) - C(m, u) ELSE C(m, u)]]
<1>3. \A m \in 0..Len(flat) : \A u \in Tracks :
        K[m][u] = IF kind = "end" THEN Len(act[u]) - C(m, u) ELSE C(m, u)
  OBVIOUS
<1> HIDE DEF K
<1>4. /\ Len(flat) \in Nat /\ DOMAIN flat = 1..Len(flat)
      /\ \A u \in Tracks : Len(act[u]) \in Nat
  BY <1>1, LenProperties
<1>5. \A u \in Tracks : /\ Index[u] \in 1..Len(seqs) /\ T[Index[u]] = u
                        /\ Len(seqs[Index[u]]) = Len(act[u])
  BY <1>a, IndexIs
<1>6. \A j \in 1..Len(seqs) : T[j] \in Tracks /\ Index[T[j]] = j
  BY IndexIs
<1>7. \A u \in Tracks : /\ C(0, u) = 0 /\ C(Len(flat), u) = Len(act[u])
                        /\ \A m \in 0..Len(flat) : C(m, u) \in 0..Len(act[u])
  BY <1>1, <1>2, <1>5, Counting
<1>8. \A u \in Tracks : \A m \in 1..Len(flat) : \A i \in Nat : \A p \in Nat :
        Place(from, m, i, p) =>
          IF Index[u] = i THEN C(m, u) = p /\ C(m - 1, u) = p - 1 ELSE C(m - 1, u) = C(m, u)
  BY <1>1, <1>2, <1>5, Counting
<1> HIDE DEF C, T
<1>9. ASSUME NEW m \in 0..Len(flat) PROVE Bordered(act, K[m])
  <2> SUFFICES ASSUME NEW u \in Tracks PROVE K[m][u] \in 0..Len(act[u])
    BY DEF Bordered
  <2>1. C(m, u) \in 0..Len(act[u]) /\ Len(act[u]) \in Nat
    BY <1>4, <1>7
  <2>2. Len(act[u]) - C(m, u) \in 0..Len(act[u])
    BY <2>1
  <2> QED BY <1>3, <2>1, <2>2
<1>10. ASSUME NEW u \in Tracks
       PROVE  /\ K[0][u] = IF kind = "end" THEN Len(act[u]) ELSE 0
              /\ K[Len(flat)][u] = IF kind = "end" THEN 0 ELSE Len(act[u])
  <2>1. 0 \in 0..Len(flat) /\ Len(flat) \in 0..Len(flat)
    BY <1>4
  <2>2. Len(act[u]) - 0 = Len(act[u]) /\ Len(act[u]) - Len(act[u]) = 0
    BY <1>4
  <2> QED BY <1>3, <1>7, <2>1, <2>2
<1>11. ASSUME NEW m \in 1..Len(flat) PROVE Border(act, K[m - 1], K[m], flat[m], kind)
  <2>1. PICK i, p : i = from[m][1] /\ p = from[m][2]
    OBVIOUS
  <2>2. /\ i \in 1..Len(seqs) /\ p \in DOMAIN seqs[i] /\ flat[m] = seqs[i][p]
    BY <1>2, <1>4, <2>1 DEF Ordered
  <2>3. PICK t : t = T[i]
    OBVIOUS
  <2>4. /\ t \in Tracks /\ Index[t] = i /\ Len(seqs[i]) = Len(act[t]) /\ Len(act[t]) \in Nat
    BY <1>4, <1>5, <1>6, <2>2, <2>3
  <2>5. p \in 1..Len(act[t]) /\ Len(seqs) \in Nat
    <3>1. seqs[i] \in Seq(S) /\ Len(seqs) \in Nat
      BY <2>2, ElementOfSeq, LenProperties
    <3>2. DOMAIN seqs[i] = 1..Len(seqs[i])
      BY <3>1, LenProperties
    <3> QED BY <2>2, <2>4, <3>1, <3>2
  <2>6. i \in Nat /\ p \in Nat /\ Place(from, m, i, p)
    BY <2>1, <2>2, <2>4, <2>5 DEF Place
  <2>7. \A u \in Tracks : IF Index[u] = i THEN C(m, u) = p /\ C(m - 1, u) = p - 1
                          ELSE C(m - 1, u) = C(m, u)
    BY <1>8, <2>6
  <2>8. \A u \in Tracks : u # t => Index[u] # i
    BY <1>5, <2>3
  <2>9. /\ flat[m].kind = kind /\ flat[m].track = t
        /\ CallOf(flat[m]) = act[t][IF kind = "end" THEN Len(act[t]) - p + 1 ELSE p]
        /\ Numbered(flat[m], identified)
    <3>1. p \in 1..Len(seqs[i])
      BY <2>4, <2>5
    <3>2. /\ seqs[i][p].kind = kind /\ seqs[i][p].track = T[i]
          /\ CallOf(seqs[i][p]) = act[T[i]][IF kind = "end" THEN Len(seqs[i]) - p + 1 ELSE p]
          /\ Numbered(seqs[i][p], identified)
      BY <1>a, <2>2, <3>1
    <3> QED BY <2>2, <2>3, <2>4, <3>2
  <2>10. m \in 0..Len(flat) /\ m - 1 \in 0..Len(flat)
    BY <1>4
  <2>11. ASSUME NEW u \in Tracks, u # t PROVE K[m - 1][u] = K[m][u]
    <3>1. C(m - 1, u) = C(m, u)
      BY <2>7, <2>8, <2>11
    <3>2. /\ K[m][u] = IF kind = "end" THEN Len(act[u]) - C(m, u) ELSE C(m, u)
          /\ K[m - 1][u] = IF kind = "end" THEN Len(act[u]) - C(m - 1, u) ELSE C(m - 1, u)
      BY <1>3, <2>10
    <3>3. CASE kind = "end"
      BY <3>1, <3>2, <3>3
    <3>4. CASE kind # "end"
      BY <3>1, <3>2, <3>4
    <3> QED BY <3>3, <3>4
  <2>12. C(m, t) = p /\ C(m - 1, t) = p - 1
    BY <2>4, <2>7
  <2>13. CASE kind = "end"
    <3>1. PICK k \in 1..Len(act[t]) : k = Len(act[t]) - p + 1
      <4>1. Len(act[t]) - p + 1 \in 1..Len(act[t])
        BY <2>4, <2>5
      <4> QED BY <4>1
    <3>2. K[m - 1][t] = Len(act[t]) - (p - 1) /\ K[m][t] = Len(act[t]) - p
      BY <1>3, <2>4, <2>10, <2>12, <2>13
    <3>3. K[m - 1][t] = k /\ K[m][t] = k - 1
      BY <2>4, <2>5, <3>1, <3>2
    <3>4. CallOf(flat[m]) = act[t][k]
      BY <2>9, <2>13, <3>1
    <3> QED BY <2>4, <2>9, <2>11, <2>13, <3>3, <3>4 DEF Border
  <2>14. CASE kind # "end"
    <3>1. K[m - 1][t] = p - 1 /\ K[m][t] = p
      BY <1>3, <2>4, <2>10, <2>12, <2>14
    <3>2. CallOf(flat[m]) = act[t][p]
      BY <2>9, <2>14
    <3> QED BY <2>4, <2>5, <2>9, <2>11, <2>14, <3>1, <3>2 DEF Border
  <2> QED BY <2>13, <2>14
<1>12. Bordering(flat, act, kind, K)
  BY <1>9, <1>10, <1>11 DEF Bordering
<1> QED BY <1>12 DEF flat

(* The views along such events.                                             *)
LEMMA BorderReplay ==
  ASSUME NEW act \in [Tracks -> Seq(Called)], NEW ev, Len(ev) \in Nat, NEW K,
         \A m \in 0..Len(ev) : Bordered(act, K[m]), NEW kind \in {"end", "reopen"},
         \A m \in 1..Len(ev) : Border(act, K[m - 1], K[m], ev[m], kind), NEW clean
  PROVE  Replay(ev, [m \in 0..Len(ev) |-> Parted(act, K[m])],
                IF kind = "end" THEN 0 ELSE Len(ev), clean)
<1> DEFINE H == [m \in 0..Len(ev) |-> Parted(act, K[m])]
           c == IF kind = "end" THEN 0 ELSE Len(ev)
<1>1. \A m \in 0..Len(ev) : H[m] = Parted(act, K[m])
  OBVIOUS
<1> HIDE DEF H
<1>2. ASSUME NEW m \in 0..Len(ev) PROVE H[m] \in [Tracks -> Views]
  <2>1. \A u \in Tracks : K[m][u] \in 0..Len(act[u]) /\ act[u] \in Seq(Called)
    BY DEF Bordered
  <2>2. \A u \in Tracks : Part(act[u], K[m][u]) \in Views
    BY <2>1, PartIs
  <2>3. Parted(act, K[m]) \in [Tracks -> Views]
    BY <2>2 DEF Parted
  <2> QED BY <1>1, <2>3
<1>3. ASSUME NEW m \in 1..Len(ev) PROVE Passes(H[m - 1], H[m], ev[m], m > c, clean)
  <2>1. m \in 0..Len(ev) /\ m - 1 \in 0..Len(ev)
    OBVIOUS
  <2>2. H[m - 1] = Parted(act, K[m - 1]) /\ H[m] = Parted(act, K[m])
    BY <1>1, <2>1
  <2>3. CASE kind = "end"
    <3>1. (m > c) = TRUE
      BY <2>3
    <3>2. Border(act, K[m - 1], K[m], ev[m], "end")
      BY <2>3
    <3>3. Passes(Parted(act, K[m - 1]), Parted(act, K[m]), ev[m], TRUE, clean)
      BY <3>2, BorderPasses
    <3> QED BY <2>2, <3>1, <3>3
  <2>4. CASE kind = "reopen"
    <3>1. (m > c) = FALSE
      BY <2>4
    <3>2. Border(act, K[m - 1], K[m], ev[m], "reopen")
      BY <2>4
    <3>3. Passes(Parted(act, K[m - 1]), Parted(act, K[m]), ev[m], FALSE, clean)
      BY <3>2, BorderPasses
    <3> QED BY <2>2, <3>1, <3>3
  <2> QED BY <2>3, <2>4
<1> HIDE DEF c
<1>4. Replay(ev, H, c, clean)
  BY <1>2, <1>3 DEF Replay
<1> QED BY <1>4 DEF H, c

LEMMA ClosesBordered ==
  ASSUME Noted
  PROVE  /\ \E E : Closes(SetToSeq(Tracks)) \in Seq(E)
         /\ \E K : Bordering(Closes(SetToSeq(Tracks)), active, "end", K)
<1> DEFINE T    == SetToSeq(Tracks)
           N    == Len(T)
           seqs == [n \in DOMAIN T |->
                      LET s == active[T[n]]
                      IN  [k \in DOMAIN s |-> Event("end", T[n], Reverse(s)[k], k)]]
           E    == UNION {{seqs[n][k] : k \in DOMAIN seqs[n]} : n \in 1..N}
<1>1. N \in Nat /\ T \in [1..N -> Tracks] /\ DOMAIN T = 1..N
  BY TracksListed
<1>2. active \in [Tracks -> Seq(Called)]
  BY DEF Noted
<1>3. \A n \in 1..N : /\ T[n] \in Tracks /\ active[T[n]] \in Seq(Called)
                      /\ Len(active[T[n]]) \in Nat /\ DOMAIN active[T[n]] = 1..Len(active[T[n]])
  BY <1>1, <1>2, LenProperties
<1>4. \A n \in 1..N : /\ DOMAIN seqs[n] = DOMAIN active[T[n]]
                      /\ seqs[n] = [k \in DOMAIN active[T[n]] |-> seqs[n][k]]
                      /\ \A k \in DOMAIN seqs[n] :
                           seqs[n][k] = Event("end", T[n], Reverse(active[T[n]])[k], k)
  BY <1>1
<1>5. seqs = [n \in 1..N |-> seqs[n]]
  BY <1>1
<1>6. Closes(T) = FlattenSeq(seqs)
  BY DEF Closes
<1>a. T = SetToSeq(Tracks) /\ N = Len(T)
  OBVIOUS
<1> HIDE DEF T, N, seqs
<1>7. ASSUME NEW n \in 1..N PROVE seqs[n] \in Seq(E) /\ Len(seqs[n]) = Len(active[T[n]])
  <2>1. \A k \in DOMAIN seqs[n] : seqs[n][k] \in E
    OBVIOUS
  <2> HIDE DEF E
  <2>2. seqs[n] \in [1..Len(active[T[n]]) -> E]
    BY <1>3, <1>4, <2>1
  <2> QED BY <1>3, <2>2, FunctionIsSeq
<1> HIDE DEF E
<1>8. seqs \in [1..N -> Seq(E)]
  BY <1>5, <1>7
<1>9. seqs \in Seq(Seq(E)) /\ Len(seqs) = N
  BY <1>1, <1>8, FunctionIsSeq
<1>10. ASSUME NEW n \in 1..Len(seqs), NEW k \in 1..Len(seqs[n])
       PROVE  /\ seqs[n][k].kind = "end" /\ seqs[n][k].track = T[n]
              /\ CallOf(seqs[n][k]) = active[T[n]][Len(seqs[n]) - k + 1]
              /\ Numbered(seqs[n][k], identified)
  <2>1. PICK s, t : s = active[T[n]] /\ t = T[n]
    OBVIOUS
  <2>2. n \in 1..N /\ s \in Seq(Called) /\ Len(s) \in Nat /\ k \in 1..Len(s) /\ Len(seqs[n]) = Len(s)
    BY <1>3, <1>7, <1>9, <2>1
  <2>3. seqs[n][k] = Event("end", t, Reverse(s)[k], k)
    BY <1>3, <1>4, <2>1, <2>2
  <2>4. Reverse(s)[k] = s[Len(s) - k + 1] /\ Len(s) - k + 1 \in 1..Len(s)
    BY <2>2, ReversedIs
  <2>5. Reverse(s)[k] \in Called
    BY <2>2, <2>4, ElementOfSeq
  <2> QED BY <2>1, <2>2, <2>3, <2>4, <2>5, EventNumbered
<1>11. PICK kind : kind = "end"
  OBVIOUS
<1>12. PerTrack(seqs, active, kind)
  BY <1>7, <1>9, <1>10, <1>11, <1>a DEF PerTrack
<1>13. \E K : Bordering(FlattenSeq(seqs), active, kind, K)
  <2>1. Len(seqs) = Len(SetToSeq(Tracks))
    BY <1>9, <1>a
  <2> QED BY <1>2, <1>9, <1>12, <2>1, FlatBorders
<1>14. FlattenSeq(seqs) \in Seq(E)
  BY <1>9, FlattenOrdered
<1> HIDE DEF T
<1>15. /\ \E F : Closes(T) \in Seq(F)
       /\ \E K : Bordering(Closes(T), active, kind, K)
  BY <1>6, <1>13, <1>14
<1> QED BY <1>11, <1>15, <1>a

LEMMA ReopensBordered ==
  ASSUME Noted
  PROVE  /\ \E E : Reopens(SetToSeq(Tracks)) \in Seq(E)
         /\ \E K : Bordering(Reopens(SetToSeq(Tracks)), active, "reopen", K)
<1> DEFINE T    == SetToSeq(Tracks)
           N    == Len(T)
           seqs == [n \in DOMAIN T |->
                      LET s == active[T[n]]
                      IN  [k \in DOMAIN s |-> Event("reopen", T[n], s[k], k)]]
           E    == UNION {{seqs[n][k] : k \in DOMAIN seqs[n]} : n \in 1..N}
<1>1. N \in Nat /\ T \in [1..N -> Tracks] /\ DOMAIN T = 1..N
  BY TracksListed
<1>2. active \in [Tracks -> Seq(Called)]
  BY DEF Noted
<1>3. \A n \in 1..N : /\ T[n] \in Tracks /\ active[T[n]] \in Seq(Called)
                      /\ Len(active[T[n]]) \in Nat /\ DOMAIN active[T[n]] = 1..Len(active[T[n]])
  BY <1>1, <1>2, LenProperties
<1>4. \A n \in 1..N : /\ DOMAIN seqs[n] = DOMAIN active[T[n]]
                      /\ seqs[n] = [k \in DOMAIN active[T[n]] |-> seqs[n][k]]
                      /\ \A k \in DOMAIN seqs[n] :
                           seqs[n][k] = Event("reopen", T[n], active[T[n]][k], k)
  BY <1>1
<1>5. seqs = [n \in 1..N |-> seqs[n]]
  BY <1>1
<1>6. Reopens(T) = FlattenSeq(seqs)
  BY DEF Reopens
<1>a. T = SetToSeq(Tracks) /\ N = Len(T)
  OBVIOUS
<1> HIDE DEF T, N, seqs
<1>7. ASSUME NEW n \in 1..N PROVE seqs[n] \in Seq(E) /\ Len(seqs[n]) = Len(active[T[n]])
  <2>1. \A k \in DOMAIN seqs[n] : seqs[n][k] \in E
    OBVIOUS
  <2> HIDE DEF E
  <2>2. seqs[n] \in [1..Len(active[T[n]]) -> E]
    BY <1>3, <1>4, <2>1
  <2> QED BY <1>3, <2>2, FunctionIsSeq
<1> HIDE DEF E
<1>8. seqs \in [1..N -> Seq(E)]
  BY <1>5, <1>7
<1>9. seqs \in Seq(Seq(E)) /\ Len(seqs) = N
  BY <1>1, <1>8, FunctionIsSeq
<1>10. ASSUME NEW n \in 1..Len(seqs), NEW k \in 1..Len(seqs[n])
       PROVE  /\ seqs[n][k].kind = "reopen" /\ seqs[n][k].track = T[n]
              /\ CallOf(seqs[n][k]) = active[T[n]][k]
              /\ Numbered(seqs[n][k], identified)
  <2>1. PICK s, t : s = active[T[n]] /\ t = T[n]
    OBVIOUS
  <2>2. n \in 1..N /\ s \in Seq(Called) /\ Len(s) \in Nat /\ k \in 1..Len(s) /\ Len(seqs[n]) = Len(s)
    BY <1>3, <1>7, <1>9, <2>1
  <2>3. seqs[n][k] = Event("reopen", t, s[k], k)
    BY <1>3, <1>4, <2>1, <2>2
  <2>4. s[k] \in Called
    BY <2>2, ElementOfSeq
  <2> QED BY <2>1, <2>2, <2>3, <2>4, EventNumbered
<1>11. PICK kind : kind = "reopen"
  OBVIOUS
<1>12. PerTrack(seqs, active, kind)
  BY <1>7, <1>9, <1>10, <1>11, <1>a DEF PerTrack
<1>13. \E K : Bordering(FlattenSeq(seqs), active, kind, K)
  <2>1. Len(seqs) = Len(SetToSeq(Tracks))
    BY <1>9, <1>a
  <2> QED BY <1>2, <1>9, <1>12, <2>1, FlatBorders
<1>14. FlattenSeq(seqs) \in Seq(E)
  BY <1>9, FlattenOrdered
<1> HIDE DEF T
<1>15. /\ \E F : Reopens(T) \in Seq(F)
       /\ \E K : Bordering(Reopens(T), active, kind, K)
  BY <1>6, <1>13, <1>14
<1> QED BY <1>11, <1>15, <1>a

LEMMA ChunkAppended ==
  ASSUME NEW S, NEW cs \in Seq(Seq(S)), NEW E, NEW ev \in Seq(E)
  PROVE  Added(Append(cs, ev), cs, ev)
<1> DEFINE T == S \cup E
<1>1. cs \in Seq(Seq(T)) /\ ev \in Seq(T)
  <2>1. S \subseteq T /\ E \subseteq T
    OBVIOUS
  <2>2. Seq(S) \subseteq Seq(T) /\ ev \in Seq(T)
    BY <2>1, SeqMonotonic
  <2> HIDE DEF T
  <2> QED BY <2>2, SeqMonotonic
<1> HIDE DEF T
<1>2. /\ Len(Append(cs, ev)) = Len(cs) + 1 /\ Append(cs, ev)[Len(cs) + 1] = ev
      /\ \A i \in 1..Len(cs) : Append(cs, ev)[i] = cs[i]
  BY <1>1, AppendProperties
<1> QED BY <1>2 DEF Added

LEMMA BorderSame ==
  ASSUME NEW act, NEW A, NEW B, NEW e, NEW f, NEW kind, Border(act, A, B, e, kind),
         f.kind = e.kind, f.track = e.track, f.call = e.call, f.function = e.function, f.id = e.id
  PROVE  Border(act, A, B, f, kind)
<1>1. CallOf(f) = CallOf(e)
  BY DEF CallOf
<1>2. Numbered(e, identified) => Numbered(f, identified)
  BY DEF Numbered
<1> QED BY <1>1, <1>2 DEF Border

(* The views at both ends of a rotation.                                    *)
LEMMA PartedEnds ==
  ASSUME NEW act \in [Tracks -> Seq(Called)], NEW k
  PROVE  /\ (\A u \in Tracks : k[u] = Len(act[u])) => Parted(act, k) = Still(act)
         /\ (\A u \in Tracks : k[u] = 0) =>
              Parted(act, k) = [u \in Tracks |-> View(<<>>, Reverse(act[u]), FALSE)]
<1>1. \A u \in Tracks : /\ Part(act[u], 0) = View(<<>>, Reverse(act[u]), FALSE)
                        /\ Part(act[u], Len(act[u])) = View(act[u], <<>>, FALSE)
  BY PartIs
<1>2. ASSUME \A u \in Tracks : k[u] = Len(act[u]) PROVE Parted(act, k) = Still(act)
  BY <1>1, <1>2 DEF Parted, Still
<1>3. ASSUME \A u \in Tracks : k[u] = 0
      PROVE  Parted(act, k) = [u \in Tracks |-> View(<<>>, Reverse(act[u]), FALSE)]
  BY <1>1, <1>3 DEF Parted
<1> QED BY <1>2, <1>3

LEMMA RotateFaithful == ASSUME Recorded, Faithful, Rotate PROVE Faithful'
<1>1. Sized(chunks) /\ \E S : chunks \in Seq(Seq(S))
  BY ChunksSized
<1>2. PICK S : chunks \in Seq(Seq(S))
  BY <1>1
<1> DEFINE N      == Len(chunks)
           tracks == SetToSeq(Tracks)
           closes == Closes(tracks)
           opened == Reopens(tracks)
           reopened == [m \in DOMAIN opened |->
                          [opened[m] EXCEPT !.sequence = SequenceNow + Len(closes) + m]]
           closed == [chunks EXCEPT ![Len(chunks)] = @ \o closes]
           clean  == faults = {}
<1>3. Noted /\ active \in [Tracks -> Seq(Called)] /\ AllNumbered(chunks, identified)
  BY DEF Faithful, Noted
<1>4. /\ chunks' = Append(Front(chunks) \o <<Last(chunks) \o closes>>, reopened)
      /\ active' = active /\ identified' = identified /\ faults' = faults
  BY DEF Rotate
<1>5. PICK E : closes \in Seq(E)
  BY <1>3, ClosesBordered
<1>6. PICK K : Bordering(closes, active, "end", K)
  BY <1>3, ClosesBordered
<1>7. PICK F : opened \in Seq(F)
  BY <1>3, ReopensBordered
<1>8. PICK J : Bordering(opened, active, "reopen", J)
  BY <1>3, ReopensBordered
<1>9. /\ Len(closes) \in Nat /\ Len(opened) \in Nat /\ N \in Nat /\ N > 0
      /\ DOMAIN opened = 1..Len(opened)
  BY <1>1, <1>5, <1>7, LenProperties DEF Sized
<1>10. Stacks(active)
  BY DEF Recorded
<1>11. \A m \in DOMAIN opened :
         \E t \in Tracks : \E c, k : opened[m] = Event("reopen", t, c, k)
  BY <1>10, ReopensAre
<1>12. /\ DOMAIN reopened = DOMAIN opened /\ reopened = [m \in DOMAIN opened |-> reopened[m]]
       /\ \A m \in DOMAIN opened :
            reopened[m] = [opened[m] EXCEPT !.sequence = SequenceNow + Len(closes) + m]
  OBVIOUS
<1> HIDE DEF closes, opened, reopened
<1>13. \A m \in DOMAIN opened :
         /\ reopened[m].kind = opened[m].kind /\ reopened[m].track = opened[m].track
         /\ reopened[m].call = opened[m].call /\ reopened[m].function = opened[m].function
         /\ reopened[m].id = opened[m].id
  <2> TAKE m \in DOMAIN opened
  <2>1. PICK t \in Tracks : \E c, k : opened[m] = Event("reopen", t, c, k)
    BY <1>11
  <2>2. PICK c, k : opened[m] = Event("reopen", t, c, k)
    BY <2>1
  <2> DEFINE q == SequenceNow + Len(closes) + m
  <2>3. reopened[m] = [opened[m] EXCEPT !.sequence = q]
    BY <1>12
  <2> HIDE DEF q
  <2> QED BY <2>2, <2>3 DEF Event
<1>14. PICK G : reopened \in Seq(G) /\ Len(reopened) = Len(opened)
  <2> DEFINE G == {reopened[m] : m \in DOMAIN opened}
  <2>1. \A m \in DOMAIN opened : reopened[m] \in G
    OBVIOUS
  <2> HIDE DEF G
  <2>2. reopened \in [1..Len(opened) -> G]
    BY <1>9, <1>12, <2>1
  <2> QED BY <1>9, <2>2, FunctionIsSeq
<1>15. Bordering(reopened, active, "reopen", J)
  <2>1. \A m \in 1..Len(reopened) : Border(active, J[m - 1], J[m], reopened[m], "reopen")
    <3> TAKE m \in 1..Len(reopened)
    <3>1. m \in DOMAIN opened /\ m \in 1..Len(opened)
      BY <1>9, <1>14
    <3>2. Border(active, J[m - 1], J[m], opened[m], "reopen")
      BY <1>8, <3>1 DEF Bordering
    <3> QED BY <1>13, <3>1, <3>2, BorderSame
  <2> QED BY <1>8, <1>14, <2>1 DEF Bordering
<1>16. chunks' = Append(closed, reopened) /\ \E D : closed \in Seq(Seq(D))
  BY <1>2, <1>4, <1>5, <1>9, LastGrown
<1>17. Extended(closed, chunks, closes)
  BY <1>2, <1>5, <1>9, LastExtended
<1> HIDE DEF closed
<1>18. Added(chunks', closed, reopened)
  BY <1>14, <1>16, ChunkAppended
<1>19. \A m \in 1..Len(closes) : Numbered(closes[m], identified)
  BY <1>6 DEF Bordering, Border
<1>20. \A m \in 1..Len(reopened) : Numbered(reopened[m], identified)
  BY <1>15 DEF Bordering, Border
<1>21. AllNumbered(closed, identified) /\ Sized(closed)
  BY <1>1, <1>3, <1>9, <1>17, <1>19, NumberedExtended
<1>22. Noted'
  <2>1. PICK ds : ds = chunks'
    OBVIOUS
  <2>2. AllNumbered(ds, identified)
    BY <1>9, <1>14, <1>18, <1>20, <1>21, <2>1, NumberedAdded
  <2> QED BY <1>3, <1>4, <2>1, <2>2 DEF Noted
<1>23. ASSUME Sound' PROVE Traced(chunks, active, faults = {})'
  <2>1. Traced(chunks, active, clean)
    BY <1>4, <1>23 DEF Faithful, Sound
  <2>2. Reached(chunks, clean, Still(active), Len(chunks[N]))
    BY <2>1 DEF Traced
  <2> DEFINE H == [m \in 0..Len(closes) |-> Parted(active, K[m])]
             I == [m \in 0..Len(reopened) |-> Parted(active, J[m])]
  <2>3. PICK last : last = "end"
    OBVIOUS
  <2>4. PICK first : first = "reopen"
    OBVIOUS
  <2>5. Replay(closes, H, 0, clean)
    <3>1. /\ \A m \in 0..Len(closes) : Bordered(active, K[m])
          /\ \A m \in 1..Len(closes) : Border(active, K[m - 1], K[m], closes[m], last)
      BY <1>6, <2>3 DEF Bordering
    <3>2. Replay(closes, H, IF last = "end" THEN 0 ELSE Len(closes), clean)
      <4> HIDE DEF clean
      <4> QED BY <1>3, <1>9, <2>3, <3>1, BorderReplay
    <3> QED BY <2>3, <3>2
  <2>6. Replay(reopened, I, Len(reopened), clean)
    <3>1. /\ \A m \in 0..Len(reopened) : Bordered(active, J[m])
          /\ \A m \in 1..Len(reopened) : Border(active, J[m - 1], J[m], reopened[m], first)
      BY <1>15, <2>4 DEF Bordering
    <3>2. Replay(reopened, I, IF first = "end" THEN 0 ELSE Len(reopened), clean)
      <4> HIDE DEF clean
      <4> QED BY <1>3, <1>9, <1>14, <2>4, <3>1, BorderReplay
    <3> QED BY <2>4, <3>2
  <2>7. /\ H[0] = Parted(active, K[0]) /\ H[Len(closes)] = Parted(active, K[Len(closes)])
        /\ I[0] = Parted(active, J[0]) /\ I[Len(reopened)] = Parted(active, J[Len(reopened)])
    BY <1>9, <1>14
  <2> HIDE DEF H, I, clean
  <2>8. \A u \in Tracks : K[0][u] = Len(active[u]) /\ K[Len(closes)][u] = 0
    BY <1>6 DEF Bordering
  <2>9. \A u \in Tracks : J[0][u] = 0 /\ J[Len(reopened)][u] = Len(active[u])
    BY <1>15 DEF Bordering
  <2> DEFINE Turned == [u \in Tracks |-> View(<<>>, Reverse(active[u]), FALSE)]
  <2>10. PICK act : act = active
    OBVIOUS
  <2>11. /\ H[0] = Still(active) /\ H[Len(closes)] = Turned
         /\ I[0] = Turned /\ I[Len(reopened)] = Still(active)
    BY <1>3, <2>7, <2>8, <2>9, PartedEnds
  <2>12. \A u \in Tracks : /\ Turned[u].open = <<>> /\ ~Turned[u].probed
    BY ViewIs
  <2> HIDE DEF Turned
  <2>13. Reached(closed, clean, H[Len(closes)], Len(chunks[N]) + 0)
    <3>1. closed[N] = <<>> => chunks[N] = <<>>
      <4>1. Len(closed[N]) = Len(chunks[N]) + Len(closes) /\ Len(chunks[N]) \in Nat
        BY <1>1, <1>9, <1>17 DEF Extended, Sized
      <4>2. chunks[N] \in Seq(S)
        BY <1>2, <1>9, ElementOfSeq
      <4>3. closed[N] = <<>> => Len(chunks[N]) = 0
        BY <1>9, <4>1
      <4> QED BY <4>2, <4>3, EmptySeq
    <3>2. Reached(chunks, clean, H[0], Len(chunks[N])) /\ 0 \in 0..Len(closes)
      BY <1>9, <2>2, <2>11
    <3> QED BY <1>1, <1>9, <1>17, <2>5, <3>1, <3>2, RunExtended
  <2>14. PICK c : Reached(closed, clean, Turned, c)
    BY <2>11, <2>13
  <2>15. Carried(Turned, I[0], clean) /\ Starting(I[0])
    BY <2>11, <2>12 DEF Carried, Starting
  <2>16. ASSUME reopened = <<>> PROVE Waitless(I[0])
    <3>1. Len(reopened) = 0
      BY <2>16
    <3>2. I[0] = Still(active)
      BY <2>11, <3>1
    <3>3. \A u \in Tracks : Still(active)[u] = View(active[u], <<>>, FALSE)
      BY DEF Still
    <3>4. \A u \in Tracks : Still(active)[u].waiting = <<>>
      <4> TAKE u \in Tracks
      <4>1. View(active[u], <<>>, FALSE).waiting = <<>>
        BY DEF View
      <4> QED BY <3>3, <4>1
    <3> QED BY <3>2, <3>4 DEF Waitless
  <2>17. PICK ds : ds = chunks'
    OBVIOUS
  <2>18. Reached(ds, clean, I[Len(reopened)], Len(reopened))
    BY <1>9, <1>14, <1>18, <1>21, <2>6, <2>14, <2>15, <2>16, <2>17, RunAdded
  <2>19. ds[Len(ds)] = reopened
    BY <1>18, <2>17 DEF Added
  <2>20. Traced(ds, active, clean)
    BY <2>11, <2>18, <2>19 DEF Traced
  <2> QED BY <1>4, <2>17, <2>20 DEF clean
<1> QED BY <1>22, <1>23 DEF Faithful

LEMMA TracedLess ==
  ASSUME NEW cs, NEW act, NEW clean, NEW now, now => clean, Traced(cs, act, clean)
  PROVE  Traced(cs, act, now)
<1>1. PICK GG, CC : /\ Run(cs, GG, CC, clean) /\ EndOf(cs, GG) = Still(act)
                    /\ CC[Len(cs)] = Len(cs[Len(cs)])
  BY DEF Traced, Reached
<1>2. \A E, G, c : Replay(E, G, c, clean) => Replay(E, G, c, now)
  BY DEF Replay, Passes
<1>3. \A g, h : Carried(g, h, clean) => Carried(g, h, now)
  BY DEF Carried
<1>4. Run(cs, GG, CC, now)
  BY <1>1, <1>2, <1>3 DEF Run
<1> QED BY <1>1, <1>4 DEF Traced, Reached

LEMMA FaultsFaithful ==
  ASSUME Faithful, UNCHANGED <<active, chunks, identified>>, faults \subseteq faults'
  PROVE  Faithful'
<1>1. Noted'
  BY DEF Faithful, Noted
<1>2. ASSUME Sound' PROVE Traced(chunks, active, faults = {})'
  <2>1. PICK clean, now : clean = (faults = {}) /\ now = (faults' = {})
    OBVIOUS
  <2>2. now => clean
    BY <2>1
  <2>3. Traced(chunks, active, clean)
    BY <1>2, <2>1 DEF Faithful, Sound
  <2>4. Traced(chunks, active, now)
    BY <2>2, <2>3, TracedLess
  <2> QED BY <2>1, <2>4
<1> QED BY <1>1, <1>2 DEF Faithful

LEMMA DropFaithful == ASSUME Recorded, Faithful, Drop PROVE Faithful'
<1>1. PICK S : chunks \in Seq(Seq(S))
  BY DEF Recorded, ChunksFit
<1>2. /\ chunks' = [chunks EXCEPT ![Len(chunks)] = Front(@)] /\ active' = active
      /\ identified' = identified /\ "dropped" \in faults' /\ chunks[Len(chunks)] # <<>>
  BY DEF Drop, Fault, Last
<1>3. ~Sound'
  BY <1>2 DEF Sound
<1>4. /\ Len(chunks) \in Nat /\ Len(chunks) \in DOMAIN chunks /\ DOMAIN chunks = 1..Len(chunks)
      /\ \A i \in DOMAIN chunks : chunks[i] \in Seq(S) /\ Len(chunks[i]) \in Nat
  BY <1>1, ChunksTyped DEF Recorded
<1> DEFINE N    == Len(chunks)
           last == chunks[N]
<1>5. /\ Front(last) \in Seq(S) /\ Len(Front(last)) = Len(last) - 1
      /\ \A n \in 1..(Len(last) - 1) : Front(last)[n] = last[n]
  BY <1>2, <1>4, FrontIs
<1>6. chunks' = [chunks EXCEPT ![N] = Front(last)]
  BY <1>2
<1>7. Len(chunks') = N /\ \A i \in 1..N : chunks'[i] = IF i = N THEN Front(last) ELSE chunks[i]
  BY <1>1, <1>4, <1>5, <1>6, ExceptSeq
<1>8. AllNumbered(chunks, identified) /\ active \in [Tracks -> Seq(Called)]
  BY DEF Faithful, Noted
<1> HIDE DEF N, last
<1>9. AllNumbered(chunks', identified')
  <2> SUFFICES ASSUME NEW i \in 1..N, NEW n \in 1..Len(chunks'[i])
               PROVE  Numbered(chunks'[i][n], identified)
    BY <1>2, <1>7 DEF AllNumbered
  <2>1. \A m \in 1..Len(chunks[i]) : Numbered(chunks[i][m], identified)
    BY <1>8 DEF AllNumbered, N
  <2>2. CASE i = N
    <3>1. chunks'[i] = Front(last) /\ chunks[i] = last /\ Len(last) \in Nat
      BY <1>4, <1>7, <2>2 DEF last, N
    <3>2. n \in 1..(Len(last) - 1) /\ n \in 1..Len(last)
      BY <1>5, <3>1
    <3> QED BY <1>5, <2>1, <3>1, <3>2
  <2>3. CASE i # N
    <3>1. chunks'[i] = chunks[i]
      BY <1>7, <2>3
    <3> QED BY <2>1, <3>1
  <2> QED BY <2>2, <2>3
<1> QED BY <1>2, <1>3, <1>8, <1>9 DEF Faithful, Noted

LEMMA CrashFaithful == ASSUME Recorded, Faithful, Crash PROVE Faithful'
<1> DEFINE empty == [t \in Tracks |-> <<>>]
<1>1. Sized(chunks) /\ \E S : chunks \in Seq(Seq(S))
  BY ChunksSized
<1>2. /\ chunks' = Append(chunks, <<>>) /\ active' = empty /\ identified' = identified
      /\ faults' # {} /\ faults \subseteq faults'
  BY DEF Crash, Fault
<1>3. <<>> \in Seq({}) /\ Len(<<>>) = 0 /\ 0 \in Nat
  OBVIOUS
<1>4. PICK ds, ev : ds = chunks' /\ ev = <<>>
  OBVIOUS
<1>5. Added(ds, chunks, ev)
  BY <1>1, <1>2, <1>3, <1>4, ChunkAppended
<1>6. AllNumbered(chunks, identified)
  BY DEF Faithful, Noted
<1>7. Len(ev) = 0 /\ Len(ev) \in Nat
  BY <1>3, <1>4
<1>8. AllNumbered(ds, identified)
  <2>1. \A k \in 1..Len(ev) : Numbered(ev[k], identified)
    BY <1>7
  <2> QED BY <1>1, <1>5, <1>6, <1>7, <2>1, NumberedAdded
<1>9. empty \in [Tracks -> Seq(Called)]
  OBVIOUS
<1>10. Noted'
  BY <1>2, <1>4, <1>8, <1>9 DEF Noted
<1>11. ASSUME Sound' PROVE Traced(chunks, active, faults = {})'
  <2>1. PICK clean : clean = (faults = {})
    OBVIOUS
  <2>2. Traced(chunks, active, clean)
    BY <1>2, <1>11, <2>1 DEF Faithful, Sound
  <2> DEFINE g == Still(active)
             h == Still(empty)
             H == [m \in 0..0 |-> h]
  <2>3. Reached(chunks, clean, g, Len(chunks[Len(chunks)]))
    BY <2>2 DEF Traced
  <2>4. H[0] = h /\ H[Len(ev)] = h
    BY <1>7
  <2>5. \A u \in Tracks : /\ g[u] = View(active[u], <<>>, FALSE)
                          /\ h[u] = View(<<>>, <<>>, FALSE)
    BY DEF Still
  <2>6. h \in [Tracks -> Views]
    BY <1>9, OnTrackIs DEF Still, Views, View
  <2>7. \A k \in 0..Len(ev) : H[k] \in [Tracks -> Views]
    BY <1>7, <2>6
  <2> HIDE DEF g, h, H, empty
  <2>8. \A u \in Tracks : /\ g[u].waiting = <<>> /\ h[u].waiting = <<>>
                          /\ h[u].open = <<>> /\ ~h[u].probed
    <3> TAKE u \in Tracks
    <3>1. View(active[u], <<>>, FALSE).waiting = <<>>
      BY DEF View
    <3>2. /\ View(<<>>, <<>>, FALSE).waiting = <<>> /\ View(<<>>, <<>>, FALSE).open = <<>>
          /\ ~View(<<>>, <<>>, FALSE).probed
      BY ViewIs
    <3> QED BY <2>5, <3>1, <3>2
  <2>9. PICK now : now = FALSE
    OBVIOUS
  <2>10. /\ Carried(g, H[0], now) /\ Starting(H[0]) /\ Waitless(H[0])
    BY <2>4, <2>8, <2>9 DEF Carried, Starting, Waitless
  <2>11. Replay(ev, H, Len(ev), now)
    BY <1>7, <2>7 DEF Replay
  <2>12. Reached(ds, now, H[Len(ev)], Len(ev))
    BY <1>1, <1>5, <1>7, <2>3, <2>9, <2>10, <2>11, RunAdded
  <2>13. ds[Len(ds)] = ev
    BY <1>5 DEF Added
  <2>14. Traced(ds, empty, now)
    BY <2>4, <2>12, <2>13 DEF Traced, h
  <2>15. now = (faults' = {})
    BY <1>2, <2>9
  <2> QED BY <1>2, <1>4, <2>14, <2>15
<1> QED BY <1>10, <1>11 DEF Faithful

LEMMA InitFaithful == ASSUME Init PROVE Faithful
<1> DEFINE e  == [t \in Tracks |-> <<>>]
           GG == [i \in 1..1 |-> [k \in 0..0 |-> Still(e)]]
           CC == [i \in 1..1 |-> 0]
           cs == <<<<>>>>
<1>1. active = e /\ chunks = cs
  BY DEF Init
<1>2. e \in [Tracks -> Seq(Called)]
  OBVIOUS
<1>3. Len(cs) = 1 /\ cs[1] = <<>> /\ Len(cs[1]) = 0 /\ Len(<<>>) = 0
  OBVIOUS
<1>4. Still(e) = [u \in Tracks |-> View(<<>>, <<>>, FALSE)]
  BY DEF Still
<1>5. GG[1][0] = Still(e) /\ CC[1] = 0
  OBVIOUS
<1>6. Still(e) \in [Tracks -> Views]
  <2>1. <<>> \in Seq(Called)
    OBVIOUS
  <2>2. View(<<>>, <<>>, FALSE) \in Views
    BY <2>1 DEF Views, View
  <2> QED BY <1>4, <2>2
<1> HIDE DEF e, GG, CC, cs
<1>7. /\ View(<<>>, <<>>, FALSE).waiting = <<>> /\ View(<<>>, <<>>, FALSE).open = <<>>
      /\ ~View(<<>>, <<>>, FALSE).probed
  BY ViewIs
<1>8. Waitless(GG[1][0]) /\ Starting(GG[1][0])
  BY <1>4, <1>5, <1>7 DEF Waitless, Starting
<1>9. PICK clean : clean = (faults = {})
  OBVIOUS
<1>10. Replay(cs[1], GG[1], CC[1], clean)
  BY <1>3, <1>5, <1>6 DEF Replay
<1>11. Run(cs, GG, CC, clean)
  BY <1>3, <1>5, <1>8, <1>10 DEF Run
<1>12. EndOf(cs, GG) = Still(e) /\ CC[Len(cs)] = Len(cs[Len(cs)])
  BY <1>3, <1>5 DEF EndOf
<1>13. Traced(cs, e, clean)
  BY <1>11, <1>12 DEF Traced, Reached
<1>14. AllNumbered(cs, identified)
  BY <1>3 DEF AllNumbered
<1> QED BY <1>1, <1>2, <1>9, <1>13, <1>14 DEF Faithful, Noted, e

LEMMA FaithfulStep ==
  ASSUME Recorded, Faithful, [Next]_vars
  PROVE  Faithful'
<1>1. CASE UNCHANGED vars
  <2>1. UNCHANGED <<active, chunks, identified, faults>>
    BY <1>1 DEF vars, recording, recorded
  <2> QED BY <2>1, FaultsFaithful
<1>2. ASSUME \/ BuildAll \/ \E n \in DOMAIN chunks : BuildWithout(n)
             \/ \E n \in 1..(Len(chunks) - 1) : BuildSwapped(n)
      PROVE  Faithful'
  <2>1. UNCHANGED <<active, chunks, identified>> /\ faults \subseteq faults'
    BY <1>2 DEF BuildAll, BuildWithout, BuildSwapped, Build, recorded
  <2> QED BY <2>1, FaultsFaithful
<1>3. ASSUME VerifyEnter \/ VerifyReopen \/ VerifyExitProbe \/ VerifySliceEnd \/ VerifyFinish
      PROVE  Faithful'
  <2>1. UNCHANGED <<active, chunks, identified, faults>>
    BY <1>3 DEF VerifyEnter, VerifyReopen, VerifyExitProbe, VerifySliceEnd, VerifyFinish, Handle,
                recording, recorded
  <2> QED BY <2>1, FaultsFaithful
<1> QED BY <1>1, <1>2, <1>3, EnterFaithful, ReturnsFaithful, DropFaithful, RotateFaithful,
           CrashFaithful DEF Next
=============================================================================
