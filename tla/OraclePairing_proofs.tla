------------------------- MODULE OraclePairing_proofs -------------------------
(***************************************************************************)
(* The index charges no exit to another call, and its verdict is right:    *)
(* two theorems of OracleIndex.                                            *)
(*                                                                         *)
(* Without call ids an exit is paired by its function, with the innermost  *)
(* call of it that is open: the right one only if the stacks of the index  *)
(* are what the recorder's stacks were at that event.  They are (Mirror):  *)
(* at each row the index has open and pending what the replay of the       *)
(* recording has there, if no chunk was lost or put in another place.      *)
(*                                                                         *)
(* The verdict has two directions.  A recording without a fault raises no  *)
(* issue (Clean), as every row finds in the mirror what it expects.  And   *)
(* without an issue there was no fault that a recording that can be told   *)
(* apart could hide: a missed or a doubled exit and a slice without an end *)
(* leave a mark in the recording (Witnessed, Endings) that outlasts its    *)
(* rotations and its passing on (Passed), while a verification without an  *)
(* issue accounts for each exit (Accounted) and each end (Balanced).  A    *)
(* drop that a later packet announced is told by its chunk (Heard).        *)
(***************************************************************************)
EXTENDS OracleIndex_proofs

----------------------------------------------------------------------------
(* What the index holds of a call, and how it mirrors what the recorder has *)
(* open (o) and whether the exit of the innermost is recorded (p), and what *)
(* waits for a reopen (w): the last of those the index has waiting, closed   *)
(* in a chunk before `bound`.                                               *)
Invocations ==
  [call : Nat \ {0}, function : Functions, id : Nat, real : BOOLEAN, exit : Nat,
   closedIn : Nat, closes : Nat, reopens : Nat]
StackMirrors(stack, o, p) ==
  /\ Len(stack) = Len(o)
  /\ \A n \in 1..Len(stack) : /\ stack[n].real /\ CallOf(stack[n]) = o[n]
                              /\ stack[n].exit # None <=> n = Len(stack) /\ p
Awaits(i, c, bound) == i.real /\ CallOf(i) = c /\ i.exit = None /\ i.closedIn < bound
WaitMirrors(waiting, w, bound, exact) ==
  /\ Len(w) <= Len(waiting) /\ (exact => Len(w) = Len(waiting))
  /\ \A m \in 0..(Len(w) - 1) : Awaits(waiting[Len(waiting) - m], w[Len(w) - m], bound)

LEMMA Invoked ==
  ASSUME NEW i \in Invocations, NEW x \in Nat
  PROVE  /\ LET e == [i EXCEPT !.exit = x]
            IN  /\ e \in Invocations /\ e.exit = x /\ e.call = i.call /\ e.function = i.function
                /\ e.id = i.id /\ e.real = i.real /\ e.closes = i.closes /\ e.reopens = i.reopens
         /\ LET e == [i EXCEPT !.closedIn = x]
            IN  /\ e \in Invocations /\ e.exit = i.exit /\ e.call = i.call
                /\ e.function = i.function /\ e.id = i.id /\ e.real = i.real /\ e.closedIn = x
                /\ e.closes = i.closes /\ e.reopens = i.reopens
         /\ LET e == [i EXCEPT !.closes = @ + 1]
            IN  /\ e \in Invocations /\ e.exit = i.exit /\ e.call = i.call
                /\ e.function = i.function /\ e.id = i.id /\ e.real = i.real
                /\ e.closedIn = i.closedIn
                /\ e.closes = i.closes + 1 /\ e.reopens = i.reopens
         /\ LET e == [i EXCEPT !.reopens = @ + 1, !.closedIn = None]
            IN  /\ e \in Invocations /\ e.exit = i.exit /\ e.call = i.call
                /\ e.function = i.function /\ e.id = i.id /\ e.real = i.real
                /\ e.closes = i.closes /\ e.reopens = i.reopens + 1
<1>1. LET e == [i EXCEPT !.exit = x]
      IN  /\ e \in Invocations /\ e.exit = x /\ e.call = i.call /\ e.function = i.function
          /\ e.id = i.id /\ e.real = i.real /\ e.closes = i.closes /\ e.reopens = i.reopens
  BY DEF Invocations
<1>2. LET e == [i EXCEPT !.closedIn = x]
      IN  /\ e \in Invocations /\ e.exit = i.exit /\ e.call = i.call
          /\ e.function = i.function /\ e.id = i.id /\ e.real = i.real /\ e.closedIn = x
          /\ e.closes = i.closes /\ e.reopens = i.reopens
  BY DEF Invocations
<1>3. LET e == [i EXCEPT !.closes = @ + 1]
      IN  /\ e \in Invocations /\ e.exit = i.exit /\ e.call = i.call
          /\ e.function = i.function /\ e.id = i.id /\ e.real = i.real
          /\ e.closedIn = i.closedIn
          /\ e.closes = i.closes + 1 /\ e.reopens = i.reopens
  BY DEF Invocations
<1>4. LET e == [i EXCEPT !.reopens = @ + 1, !.closedIn = None]
      IN  /\ e \in Invocations /\ e.exit = i.exit /\ e.call = i.call
          /\ e.function = i.function /\ e.id = i.id /\ e.real = i.real
          /\ e.closes = i.closes /\ e.reopens = i.reopens + 1
  <2>1. PICK f : f = [i EXCEPT !.reopens = @ + 1]
    OBVIOUS
  <2>2. /\ f \in Invocations /\ f.exit = i.exit /\ f.call = i.call
        /\ f.function = i.function /\ f.id = i.id /\ f.real = i.real
        /\ f.closes = i.closes /\ f.reopens = i.reopens + 1
    BY <2>1 DEF Invocations
  <2>3. 0 \in Nat
    OBVIOUS
  <2>4. [i EXCEPT !.reopens = @ + 1, !.closedIn = None] = [f EXCEPT !.closedIn = 0]
    BY <2>1 DEF None
  <2> HIDE DEF Invocations
  <2>5. LET e == [f EXCEPT !.closedIn = 0]
        IN  /\ e \in Invocations /\ e.exit = f.exit /\ e.call = f.call
            /\ e.function = f.function /\ e.id = f.id /\ e.real = f.real
            /\ e.closes = f.closes /\ e.reopens = f.reopens
    BY <2>2, <2>3 DEF Invocations
  <2> QED BY <2>2, <2>4, <2>5
<1> QED BY <1>1, <1>2, <1>3, <1>4

LEMMA StackPushed ==
  ASSUME NEW I, NEW stack \in Seq(I), NEW o \in Seq(Called), NEW i \in I, NEW c \in Called,
         StackMirrors(stack, o, FALSE), i.real, i.exit = None, CallOf(i) = c
  PROVE  StackMirrors(Append(stack, i), Append(o, c), FALSE)
<1> DEFINE s == Append(stack, i)
           z == Append(o, c)
<1>1. /\ Len(s) = Len(stack) + 1 /\ s[Len(stack) + 1] = i
      /\ \A n \in 1..Len(stack) : s[n] = stack[n]
  BY AppendProperties
<1>2. /\ Len(z) = Len(o) + 1 /\ z[Len(o) + 1] = c
      /\ \A n \in 1..Len(o) : z[n] = o[n]
  BY AppendProperties
<1>3. Len(stack) \in Nat /\ Len(stack) = Len(o)
  BY LenProperties DEF StackMirrors
<1> HIDE DEF s, z
<1>4. ASSUME NEW n \in 1..Len(s)
      PROVE  s[n].real /\ CallOf(s[n]) = z[n] /\ s[n].exit = None
  <2>1. CASE n = Len(stack) + 1
    BY <1>1, <1>2, <1>3, <2>1
  <2>2. CASE n # Len(stack) + 1
    <3>1. n \in 1..Len(stack) /\ s[n] = stack[n] /\ z[n] = o[n]
      BY <1>1, <1>2, <1>3, <2>2
    <3> QED BY <3>1 DEF StackMirrors
  <2> QED BY <2>1, <2>2
<1>5. Len(s) = Len(z)
  BY <1>1, <1>2, <1>3
<1> QED BY <1>4, <1>5 DEF StackMirrors, s, z

LEMMA StackPopped ==
  ASSUME NEW I, NEW stack \in Seq(I), NEW o \in Seq(Called), o # <<>>,
         NEW p, StackMirrors(stack, o, p)
  PROVE  /\ stack # <<>> /\ Last(stack).real /\ CallOf(Last(stack)) = Last(o)
         /\ Last(stack) \in I /\ Front(stack) \in Seq(I) /\ Last(stack) = stack[Len(stack)]
         /\ StackMirrors(Front(stack), Front(o), FALSE)
<1>1. Len(stack) \in Nat /\ Len(stack) = Len(o) /\ Len(o) # 0
  BY LenProperties, EmptySeq DEF StackMirrors
<1>2. stack # <<>> /\ Len(stack) \in 1..Len(stack)
  BY <1>1
<1>3. /\ Front(stack) \in Seq(I) /\ Len(Front(stack)) = Len(stack) - 1
      /\ \A n \in 1..(Len(stack) - 1) : Front(stack)[n] = stack[n]
      /\ Last(stack) = stack[Len(stack)]
  BY <1>2, FrontIs DEF Last
<1>4. /\ Len(Front(o)) = Len(o) - 1
      /\ \A n \in 1..(Len(o) - 1) : Front(o)[n] = o[n]
      /\ Last(o) = o[Len(o)]
  BY <1>1, FrontIs DEF Last
<1>5. Last(stack) \in I
  BY <1>2, <1>3, ElementOfSeq
<1>6. /\ Last(stack).real /\ CallOf(Last(stack)) = Last(o)
  BY <1>1, <1>2, <1>3, <1>4 DEF StackMirrors
<1>7. StackMirrors(Front(stack), Front(o), FALSE)
  <2> SUFFICES ASSUME NEW n \in 1..Len(Front(stack))
               PROVE  /\ Front(stack)[n].real /\ CallOf(Front(stack)[n]) = Front(o)[n]
                      /\ Front(stack)[n].exit = None
    BY <1>1, <1>3, <1>4 DEF StackMirrors
  <2>1. n \in 1..(Len(stack) - 1) /\ n \in 1..Len(stack) /\ n # Len(stack)
    BY <1>1, <1>3
  <2>2. Front(stack)[n] = stack[n] /\ Front(o)[n] = o[n]
    BY <1>1, <1>3, <1>4, <2>1
  <2> QED BY <2>1, <2>2 DEF StackMirrors
<1> QED BY <1>2, <1>3, <1>5, <1>6, <1>7

LEMMA StackProbed ==
  ASSUME NEW I, NEW stack \in Seq(I), NEW o \in Seq(Called), o # <<>>,
         NEW p, StackMirrors(stack, o, p), NEW i \in I,
         i.real, i.exit # None, CallOf(i) = Last(o)
  PROVE  StackMirrors([stack EXCEPT ![Len(stack)] = i], o, TRUE)
<1>1. Len(stack) \in Nat /\ Len(stack) = Len(o) /\ Len(o) # 0
  BY LenProperties, EmptySeq DEF StackMirrors
<1> DEFINE s == [stack EXCEPT ![Len(stack)] = i]
<1>2. Len(stack) \in 1..Len(stack)
  BY <1>1
<1>3. Len(s) = Len(stack) /\ \A n \in 1..Len(stack) : s[n] = IF n = Len(stack) THEN i ELSE stack[n]
  BY <1>2, ExceptSeq
<1> HIDE DEF s
<1>4. ASSUME NEW n \in 1..Len(s)
      PROVE  s[n].real /\ CallOf(s[n]) = o[n] /\ (s[n].exit # None <=> n = Len(s))
  <2>1. CASE n = Len(stack)
    BY <1>1, <1>3, <2>1 DEF Last
  <2>2. CASE n # Len(stack)
    <3>1. s[n] = stack[n] /\ n \in 1..Len(stack)
      BY <1>3, <2>2
    <3> QED BY <1>3, <2>2, <3>1 DEF StackMirrors
  <2> QED BY <2>1, <2>2
<1> QED BY <1>1, <1>3, <1>4 DEF StackMirrors, s

LEMMA WaitNone ==
  ASSUME NEW I, NEW waiting \in Seq(I), NEW bound, NEW exact, exact => waiting = <<>>
  PROVE  WaitMirrors(waiting, <<>>, bound, exact)
<1>1. Len(waiting) \in Nat /\ Len(<<>>) = 0
  BY LenProperties
<1>2. 0..(Len(<<>>) - 1) = {}
  BY <1>1
<1>3. exact => Len(waiting) = 0
  BY <1>1
<1>4. Len(<<>>) <= Len(waiting)
  BY <1>1
<1>5. exact => Len(<<>>) = Len(waiting)
  BY <1>1, <1>3
<1> QED BY <1>2, <1>4, <1>5 DEF WaitMirrors

LEMMA WaitLater ==
  ASSUME NEW waiting \in Seq(Invocations), NEW w \in Seq(Called), NEW b \in Nat, NEW d \in Nat,
         b <= d, NEW exact, WaitMirrors(waiting, w, b, exact)
  PROVE  WaitMirrors(waiting, w, d, exact)
<1>1. Len(waiting) \in Nat /\ Len(w) \in Nat /\ Len(w) <= Len(waiting)
  BY LenProperties DEF WaitMirrors
<1>2. ASSUME NEW m \in 0..(Len(w) - 1)
      PROVE  Awaits(waiting[Len(waiting) - m], w[Len(w) - m], d)
  <2>1. Len(waiting) - m \in 1..Len(waiting)
    BY <1>1
  <2>2. waiting[Len(waiting) - m] \in Invocations
    BY <2>1, ElementOfSeq
  <2>3. waiting[Len(waiting) - m].closedIn \in Nat
    BY <2>2 DEF Invocations
  <2>4. Awaits(waiting[Len(waiting) - m], w[Len(w) - m], b)
    BY DEF WaitMirrors
  <2> QED BY <2>3, <2>4 DEF Awaits
<1> QED BY <1>2 DEF WaitMirrors

LEMMA WaitPushed ==
  ASSUME NEW I, NEW waiting \in Seq(I), NEW w \in Seq(Called), NEW i \in I, NEW c \in Called,
         NEW bound, NEW exact, WaitMirrors(waiting, w, bound, exact), Awaits(i, c, bound)
  PROVE  WaitMirrors(Append(waiting, i), Append(w, c), bound, exact)
<1> DEFINE s == Append(waiting, i)
           z == Append(w, c)
<1>1. /\ Len(s) = Len(waiting) + 1 /\ s[Len(waiting) + 1] = i
      /\ \A n \in 1..Len(waiting) : s[n] = waiting[n]
  BY AppendProperties
<1>2. /\ Len(z) = Len(w) + 1 /\ z[Len(w) + 1] = c
      /\ \A n \in 1..Len(w) : z[n] = w[n]
  BY AppendProperties
<1>3. /\ Len(waiting) \in Nat /\ Len(w) \in Nat /\ Len(w) <= Len(waiting)
      /\ exact => Len(w) = Len(waiting)
  BY LenProperties DEF WaitMirrors
<1> HIDE DEF s, z
<1>4. ASSUME NEW m \in 0..(Len(z) - 1) PROVE Awaits(s[Len(s) - m], z[Len(z) - m], bound)
  <2>1. CASE m = 0
    <3>1. Len(s) - m = Len(waiting) + 1 /\ Len(z) - m = Len(w) + 1
      BY <1>1, <1>2, <1>3, <2>1
    <3> QED BY <1>1, <1>2, <3>1
  <2>2. CASE m # 0
    <3>1. PICK k \in 0..(Len(w) - 1) : k = m - 1
      BY <1>2, <1>3, <2>2
    <3>2. /\ Len(s) - m = Len(waiting) - k /\ Len(z) - m = Len(w) - k
          /\ Len(waiting) - k \in 1..Len(waiting) /\ Len(w) - k \in 1..Len(w)
      BY <1>1, <1>2, <1>3, <3>1
    <3>3. s[Len(s) - m] = waiting[Len(waiting) - k] /\ z[Len(z) - m] = w[Len(w) - k]
      BY <1>1, <1>2, <3>2
    <3>4. Awaits(waiting[Len(waiting) - k], w[Len(w) - k], bound)
      BY DEF WaitMirrors
    <3> QED BY <3>3, <3>4
  <2> QED BY <2>1, <2>2
<1>5. Len(z) <= Len(s) /\ (exact => Len(z) = Len(s))
  BY <1>1, <1>2, <1>3
<1> QED BY <1>4, <1>5 DEF WaitMirrors, s, z

LEMMA WaitPopped ==
  ASSUME NEW I, NEW waiting \in Seq(I), NEW w \in Seq(Called), w # <<>>,
         NEW bound, NEW exact, WaitMirrors(waiting, w, bound, exact)
  PROVE  /\ waiting # <<>> /\ Len(waiting) \in Nat \ {0}
         /\ Awaits(waiting[Len(waiting)], Last(w), bound)
         /\ WaitMirrors(Front(waiting), Front(w), bound, exact)
<1>1. /\ Len(waiting) \in Nat /\ Len(w) \in Nat /\ Len(w) # 0 /\ Len(w) <= Len(waiting)
      /\ exact => Len(w) = Len(waiting)
  BY LenProperties, EmptySeq DEF WaitMirrors
<1>2. waiting # <<>> /\ Len(waiting) \in Nat \ {0}
  BY <1>1
<1>3. /\ Len(Front(waiting)) = Len(waiting) - 1
      /\ \A n \in 1..(Len(waiting) - 1) : Front(waiting)[n] = waiting[n]
  BY <1>2, FrontIs
<1>4. /\ Len(Front(w)) = Len(w) - 1
      /\ \A n \in 1..(Len(w) - 1) : Front(w)[n] = w[n]
      /\ Last(w) = w[Len(w)]
  BY <1>1, FrontIs DEF Last
<1>5. Awaits(waiting[Len(waiting)], Last(w), bound)
  <2>1. 0 \in 0..(Len(w) - 1) /\ Len(waiting) - 0 = Len(waiting) /\ Len(w) - 0 = Len(w)
    BY <1>1
  <2>2. Awaits(waiting[Len(waiting) - 0], w[Len(w) - 0], bound)
    BY <2>1 DEF WaitMirrors
  <2> QED BY <1>4, <2>1, <2>2
<1> DEFINE s == Front(waiting)
           z == Front(w)
<1> HIDE DEF s, z
<1>6. ASSUME NEW m \in 0..(Len(z) - 1) PROVE Awaits(s[Len(s) - m], z[Len(z) - m], bound)
  <2>1. PICK k \in 0..(Len(w) - 1) : k = m + 1
    BY <1>1, <1>4 DEF z
  <2>2. /\ Len(s) - m = Len(waiting) - k /\ Len(z) - m = Len(w) - k
        /\ Len(waiting) - k \in 1..(Len(waiting) - 1) /\ Len(w) - k \in 1..(Len(w) - 1)
    BY <1>1, <1>3, <1>4, <2>1 DEF s, z
  <2>3. s[Len(s) - m] = waiting[Len(waiting) - k] /\ z[Len(z) - m] = w[Len(w) - k]
    BY <1>3, <1>4, <2>2 DEF s, z
  <2>4. Awaits(waiting[Len(waiting) - k], w[Len(w) - k], bound)
    BY DEF WaitMirrors
  <2> QED BY <2>3, <2>4
<1>7. Len(z) <= Len(s) /\ (exact => Len(z) = Len(s))
  BY <1>1, <1>3, <1>4 DEF s, z
<1>8. WaitMirrors(s, z, bound, exact)
  BY <1>6, <1>7 DEF WaitMirrors
<1> QED BY <1>2, <1>5, <1>8 DEF s, z

(* What is read, and what is known of a call, carries the call's number.     *)
Right(i) == /\ i.id = IF identified THEN i.call ELSE None
            /\ i.exit # None /\ ~Ambiguous => i.exit = i.call
Settled == {i \in Invocations : Right(i)}
LoggedIn(rs, ids) == \A n \in DOMAIN rs : Numbered(rs[n], ids) /\ rs[n].source \in Nat
Logged == LoggedIn(rows, identified)
Kept ==
  /\ phase = "record" => /\ open = [t \in Tracks |-> <<>>] /\ pending = [t \in Tracks |-> <<>>]
                         /\ exported = {}
  /\ open \in [Tracks -> Seq(Settled)] /\ pending \in [Tracks -> Seq(Settled)]
  /\ \A e \in exported : e.invocation \in Settled

LEMMA RowsNumbered ==
  ASSUME NEW S, NEW cs \in Seq(Seq(S)), NEW ids, AllNumbered(cs, ids)
  PROVE  LoggedIn(Rows(cs), ids)
<1> DEFINE rs == Rows(cs)
<1> HIDE DEF rs
<1>1. PICK from : Tabled(cs, rs, from)
  BY RowsTabled DEF rs
<1>2. /\ DOMAIN cs = 1..Len(cs) /\ Len(cs) \in Nat
      /\ \A i \in DOMAIN cs : DOMAIN cs[i] = 1..Len(cs[i])
  BY ChunksTyped
<1>3. ASSUME NEW n \in DOMAIN rs PROVE Numbered(rs[n], ids) /\ rs[n].source \in Nat
  <2>1. PICK i, p : i = from[n][1] /\ p = from[n][2]
    OBVIOUS
  <2>2. i \in DOMAIN cs /\ p \in DOMAIN cs[i] /\ SameEvent(rs[n], cs[i][p]) /\ rs[n].source = i
    BY <1>1, <2>1 DEF Tabled
  <2>3. Numbered(cs[i][p], ids) /\ i \in Nat
    BY <1>2, <2>2 DEF AllNumbered
  <2>4. Numbered(rs[n], ids)
    BY <2>2, <2>3 DEF SameEvent, Numbered
  <2> QED BY <2>2, <2>3, <2>4
<1> QED BY <1>3 DEF LoggedIn, rs

LEMMA LostNumbered ==
  ASSUME NEW S, NEW cs \in Seq(Seq(S)), NEW n \in DOMAIN cs, NEW ids, AllNumbered(cs, ids)
  PROVE  RemoveAt(cs, n) \in Seq(Seq(S)) /\ AllNumbered(RemoveAt(cs, n), ids)
<1> DEFINE ds == RemoveAt(cs, n)
           N  == Len(cs)
<1>1. /\ ds \in Seq(Seq(S)) /\ DOMAIN ds = 1..(N - 1) /\ N \in Nat /\ DOMAIN cs = 1..N
      /\ \A i \in 1..(N - 1) : ds[i] = cs[IF i < n THEN i ELSE i + 1]
  BY RemovedIs
<1>2. DOMAIN ds = 1..Len(ds)
  BY <1>1, LenProperties
<1> HIDE DEF ds
<1>3. \A i \in 1..Len(ds) : \E m \in 1..N : ds[i] = cs[m]
  <2> TAKE i \in 1..Len(ds)
  <2>1. i \in 1..(N - 1)
    BY <1>1, <1>2
  <2>2. (IF i < n THEN i ELSE i + 1) \in 1..N
    BY <1>1, <2>1
  <2> QED BY <1>1, <2>1, <2>2
<1>4. AllNumbered(ds, ids)
  BY <1>3 DEF AllNumbered
<1> QED BY <1>1, <1>4 DEF ds

LEMMA SwappedNumbered ==
  ASSUME NEW S, NEW cs \in Seq(Seq(S)), NEW n \in 1..(Len(cs) - 1), NEW ids, AllNumbered(cs, ids)
  PROVE  LET ds == [cs EXCEPT ![n] = cs[n + 1], ![n + 1] = cs[n]]
         IN  ds \in Seq(Seq(S)) /\ AllNumbered(ds, ids)
<1> DEFINE N  == Len(cs)
           es == [cs EXCEPT ![n] = cs[n + 1]]
           ds == [cs EXCEPT ![n] = cs[n + 1], ![n + 1] = cs[n]]
<1>1. /\ N \in Nat /\ DOMAIN cs = 1..N /\ \A i \in 1..N : cs[i] \in Seq(S)
  BY ChunksTyped
<1>2. n \in 1..N /\ n + 1 \in 1..N /\ n # n + 1
  BY <1>1
<1>3. ds = [es EXCEPT ![n + 1] = cs[n]]
  OBVIOUS
<1>4. /\ es \in Seq(Seq(S)) /\ Len(es) = N
      /\ \A i \in 1..N : es[i] = IF i = n THEN cs[n + 1] ELSE cs[i]
  BY <1>1, <1>2, ExceptSeq
<1> HIDE DEF es, ds
<1>5. /\ ds \in Seq(Seq(S)) /\ Len(ds) = N
      /\ \A i \in 1..N : ds[i] = IF i = n + 1 THEN cs[n] ELSE es[i]
  BY <1>1, <1>2, <1>3, <1>4, ExceptSeq
<1>6. \A i \in 1..Len(ds) : \E m \in 1..N : ds[i] = cs[m]
  BY <1>2, <1>4, <1>5
<1>7. AllNumbered(ds, ids)
  BY <1>6 DEF AllNumbered
<1> QED BY <1>5, <1>7 DEF ds

LEMMA BuildLogs ==
  ASSUME Recorded, Faithful,
         \/ BuildAll \/ \E n \in DOMAIN chunks : BuildWithout(n)
         \/ \E n \in 1..(Len(chunks) - 1) : BuildSwapped(n)
  PROVE  Logged'
<1>1. PICK S : chunks \in Seq(Seq(S))
  BY DEF Recorded, ChunksFit
<1>2. AllNumbered(chunks, identified)
  BY DEF Faithful, Noted
<1>3. PICK rs, cs : rs = rows' /\ cs = chunks
  OBVIOUS
<1>4. identified' = identified
  BY DEF BuildAll, BuildWithout, BuildSwapped, Build, recorded
<1>5. CASE BuildAll
  <2>1. rs = Rows(cs)
    BY <1>3, <1>5 DEF BuildAll, Build
  <2>2. LoggedIn(rs, identified)
    BY <1>1, <1>2, <1>3, <2>1, RowsNumbered
  <2> QED BY <1>3, <1>4, <2>2 DEF Logged
<1>6. ASSUME NEW n \in DOMAIN chunks, BuildWithout(n) PROVE Logged'
  <2>1. rs = Rows(RemoveAt(cs, n))
    BY <1>3, <1>6 DEF BuildWithout, Build
  <2>2. RemoveAt(cs, n) \in Seq(Seq(S)) /\ AllNumbered(RemoveAt(cs, n), identified)
    BY <1>1, <1>2, <1>3, LostNumbered
  <2>3. LoggedIn(rs, identified)
    BY <2>1, <2>2, RowsNumbered
  <2> QED BY <1>3, <1>4, <2>3 DEF Logged
<1>7. ASSUME NEW n \in 1..(Len(chunks) - 1), BuildSwapped(n) PROVE Logged'
  <2> DEFINE ds == [cs EXCEPT ![n] = cs[n + 1], ![n + 1] = cs[n]]
  <2>1. rs = Rows(ds)
    BY <1>3, <1>7 DEF BuildSwapped, Build
  <2>2. ds \in Seq(Seq(S)) /\ AllNumbered(ds, identified)
    BY <1>1, <1>2, <1>3, SwappedNumbered
  <2> HIDE DEF ds
  <2>3. LoggedIn(rs, identified)
    BY <2>1, <2>2, RowsNumbered
  <2> QED BY <1>3, <1>4, <2>3 DEF Logged
<1> QED BY <1>5, <1>6, <1>7

(* The row that is read.                                                    *)
LEMMA RowLogged ==
  ASSUME OracleInv, Logged, done < Len(rows)
  PROVE  /\ Row.track \in Tracks /\ Row.source \in Nat /\ Row.call \in Nat \ {0}
         /\ Row.function \in Functions /\ CallOf(Row) \in Called
         /\ Row.id = IF identified /\ Row.kind # "end" THEN Row.call ELSE None
         /\ At \in DOMAIN rows /\ At = done + 1 /\ done \in Nat
<1>1. Verified(rows, done)
  BY DEF OracleInv
<1>2. PICK S : rows \in Seq(S)
  BY <1>1 DEF Verified, EntriesFit
<1>3. Len(rows) \in Nat /\ DOMAIN rows = 1..Len(rows)
  BY <1>2, LenProperties
<1>4. done \in Nat /\ done + 1 \in DOMAIN rows /\ At = done + 1
  BY <1>1, <1>3 DEF Verified, At
<1>5. Row.track \in Tracks
  BY <1>1, RowRead
<1>6. Numbered(Row, identified) /\ Row.source \in Nat
  BY <1>4 DEF Logged, LoggedIn, Row
<1>7. /\ Row.call \in Nat \ {0} /\ Row.function \in Functions
      /\ Row.id = IF identified /\ Row.kind # "end" THEN Row.call ELSE None
  BY <1>6 DEF Numbered
<1>8. CallOf(Row) \in Called
  BY <1>7 DEF CallOf, Called
<1> QED BY <1>4, <1>5, <1>6, <1>7, <1>8

LEMMA NewSettled ==
  ASSUME OracleInv, Logged, done < Len(rows), Row.kind # "end", NEW real \in BOOLEAN
  PROVE  /\ NewInvocation(real) \in Settled /\ NewInvocation(real).exit = None
         /\ CallOf(NewInvocation(real)) = CallOf(Row)
         /\ NewInvocation(real).real = real
<1> DEFINE i == NewInvocation(real)
<1>1. /\ i = [call |-> Row.call, function |-> Row.function, id |-> Row.id, real |-> real,
              exit |-> None, closedIn |-> None, closes |-> 0, reopens |-> 0]
  BY DEF NewInvocation
<1>2. /\ Row.call \in Nat \ {0} /\ Row.function \in Functions
      /\ Row.id = IF identified THEN Row.call ELSE None
  BY RowLogged
<1>3. Row.id \in Nat /\ None \in Nat /\ 0 \in Nat
  BY <1>2 DEF None
<1> HIDE DEF i
<1>4. i \in Invocations
  BY <1>1, <1>2, <1>3 DEF Invocations
<1>5. /\ i.call = Row.call /\ i.function = Row.function /\ i.id = Row.id /\ i.exit = None
      /\ i.real = real
  BY <1>1
<1>6. Right(i)
  BY <1>2, <1>5 DEF Right
<1>7. i \in Settled
  BY <1>4, <1>6 DEF Settled
<1> QED BY <1>5, <1>7 DEF CallOf, i

(* Settled invocations stay so where they are moved or exported.            *)
LEMMA OpenedSettled ==
  ASSUME Kept
  PROVE  /\ Opened \in [Tracks -> Seq(Settled)]
         /\ \A e \in Leftover : e.invocation \in Settled
<1>1. open \in [Tracks -> Seq(Settled)]
  BY DEF Kept
<1> DEFINE S == Settled
<1>2. /\ open \in [Tracks -> Seq(S)] /\ \A t \in Tracks : ToSet(open[t]) \subseteq S
  <2>1. \A t \in Tracks : open[t] \in Seq(S)
    BY <1>1
  <2> HIDE DEF S
  <2>2. \A t \in Tracks : \A n \in DOMAIN open[t] : open[t][n] \in S
    BY <2>1, ElementOfSeq, LenProperties
  <2> QED BY <1>1, <2>2 DEF ToSet, S
<1> HIDE DEF S
<1>3. Opened \in [Tracks -> Seq(S)]
  <2>1. [t \in Tracks |-> <<>>] \in [Tracks -> Seq(S)]
    OBVIOUS
  <2> QED BY <1>2, <2>1 DEF Opened
<1>4. \A i \in Unclosed : i \in S
  BY <1>2 DEF Unclosed
<1>5. \A i, k : Export(i, k).invocation = i
  BY DEF Export
<1>6. \A e \in Leftover : e.invocation \in S
  <2> TAKE e \in Leftover
  <2>1. PICK i \in Unclosed : \E k : e = Export(i, k)
    BY DEF Leftover
  <2> QED BY <1>4, <1>5, <2>1
<1> QED BY <1>3, <1>6 DEF S

LEMMA HandleSettles ==
  ASSUME Kept, phase = "verify", Row.track \in Tracks,
         NEW stack \in Seq(Settled), NEW waiting \in Seq(Settled),
         NEW x, \A e \in x : e.invocation \in Settled, NEW codes,
         Handle(stack, waiting, x, codes)
  PROVE  Kept'
<1>1. /\ open' = [Opened EXCEPT ![Row.track] = stack]
      /\ pending' = [pending EXCEPT ![Row.track] = waiting]
      /\ exported' = exported \cup Leftover \cup x
      /\ phase' = phase /\ identified' = identified /\ faults' = faults
  BY DEF Handle, recording, recorded
<1>2. Settled' = Settled
  BY <1>1 DEF Settled, Right, Ambiguous
<1>3. /\ Opened \in [Tracks -> Seq(Settled)] /\ pending \in [Tracks -> Seq(Settled)]
      /\ \A e \in Leftover : e.invocation \in Settled
      /\ \A e \in exported : e.invocation \in Settled
  BY OpenedSettled DEF Kept
<1>4. PICK S, t : S = Settled /\ t = Row.track
  OBVIOUS
<1>5. open' \in [Tracks -> Seq(S)] /\ pending' \in [Tracks -> Seq(S)]
  <2>1. Opened \in [Tracks -> Seq(S)] /\ pending \in [Tracks -> Seq(S)]
        /\ stack \in Seq(S) /\ waiting \in Seq(S)
    BY <1>3, <1>4
  <2>2. open' = [Opened EXCEPT ![t] = stack] /\ pending' = [pending EXCEPT ![t] = waiting]
    BY <1>1, <1>4
  <2> QED BY <2>1, <2>2
<1>6. \A e \in exported' : e.invocation \in S
  BY <1>1, <1>3, <1>4
<1> QED BY <1>1, <1>2, <1>4, <1>5, <1>6 DEF Kept

LEMMA SeqSettled ==
  ASSUME NEW S, NEW q \in Seq(S)
  PROVE  /\ \A n \in DOMAIN q : q[n] \in S
         /\ ToSet(q) \subseteq S
         /\ DOMAIN q = 1..Len(q) /\ Len(q) \in Nat
<1>1. /\ DOMAIN q = 1..Len(q) /\ Len(q) \in Nat
      /\ \A n \in 1..Len(q) : q[n] \in S
  BY ElementOfSeq, LenProperties
<1> QED BY <1>1 DEF ToSet

LEMMA FlushedSettled ==
  ASSUME Kept, Row.track \in Tracks
  PROVE  /\ \A e \in Flushed : e.invocation \in Settled
         /\ Opened[Row.track] \in Seq(Settled) /\ pending[Row.track] \in Seq(Settled)
         /\ <<>> \in Seq(Settled)
<1>1. Opened[Row.track] \in Seq(Settled) /\ pending[Row.track] \in Seq(Settled)
  BY OpenedSettled DEF Kept
<1>2. ToSet(pending[Row.track]) \subseteq Settled
  BY <1>1, SeqSettled
<1>3. \A i, k : Export(i, k).invocation = i
  BY DEF Export
<1>4. \A e \in Flushed : e.invocation \in Settled
  BY <1>2, <1>3 DEF Flushed
<1> QED BY <1>1, <1>4

LEMMA EnterSettles ==
  ASSUME OracleInv, Logged, Kept, VerifyEnter
  PROVE  Kept'
<1> DEFINE q == Opened[Row.track]
           i == NewInvocation(TRUE)
<1>1. /\ phase = "verify" /\ done < Len(rows) /\ Row.kind = "enter"
      /\ Handle(Append(q, i), <<>>, Flushed, FlushCodes)
  BY DEF VerifyEnter, Verifying
<1>2. Row.track \in Tracks
  BY <1>1, RowLogged
<1>3. /\ i \in Settled
  BY <1>1, NewSettled
<1>4. q \in Seq(Settled) /\ \A e \in Flushed : e.invocation \in Settled
  BY <1>2, FlushedSettled
<1> DEFINE s == Append(q, i)
<1>5. Handle(s, <<>>, Flushed, FlushCodes)
  BY <1>1
<1> HIDE DEF i, q
<1>6. s \in Seq(Settled) /\ <<>> \in Seq(Settled)
  BY <1>3, <1>4, AppendProperties
<1> HIDE DEF s
<1> QED BY <1>1, <1>2, <1>4, <1>5, <1>6, HandleSettles

LEMMA ReopenSettles ==
  ASSUME OracleInv, Logged, Kept, VerifyReopen
  PROVE  Kept'
<1> DEFINE q     == Opened[Row.track]
           w     == pending[Row.track]
           found == {n \in DOMAIN w : Reopenable(w[n])}
           k     == Max(found)
           new   == NewInvocation(FALSE)
           back  == [w[k] EXCEPT !.reopens = @ + 1, !.closedIn = None]
<1>1. /\ phase = "verify" /\ done < Len(rows) /\ Row.kind = "reopen"
      /\ \/ found = {} /\ \E codes : Handle(Append(q, new), w, {}, codes)
         \/ found # {} /\ \E codes : Handle(Append(q, back), RemoveAt(w, k), {}, codes)
  BY DEF VerifyReopen, Verifying
<1>2. Row.track \in Tracks
  BY <1>1, RowLogged
<1>3. q \in Seq(Settled) /\ w \in Seq(Settled)
  BY <1>2, FlushedSettled
<1>4. new \in Settled
  BY <1>1, NewSettled
<1>5. CASE found = {}
  <2> DEFINE s == Append(q, new)
  <2>1. PICK codes : Handle(s, w, {}, codes)
    BY <1>1, <1>5
  <2> HIDE DEF q, w, new, found, k
  <2>2. s \in Seq(Settled)
    BY <1>3, <1>4, AppendProperties
  <2> HIDE DEF s
  <2> QED BY <1>1, <1>2, <1>3, <2>1, <2>2, HandleSettles
<1>6. CASE found # {}
  <2> DEFINE s == Append(q, back)
             v == RemoveAt(w, k)
  <2>1. PICK codes : Handle(s, v, {}, codes)
    BY <1>1, <1>6
  <2>2. k \in DOMAIN w
    <3>1. Len(w) \in Nat /\ found \in SUBSET (0..Len(w))
      BY <1>3, LenProperties
    <3> HIDE DEF found
    <3>2. k \in found
      BY <1>6, <3>1, LargestIs
    <3> QED BY <3>2 DEF found
  <2>3. back \in Settled
    <3>1. w[k] \in Settled
      BY <1>3, <2>2, SeqSettled
    <3>2. PICK i : i = w[k]
      OBVIOUS
    <3>3. i \in Invocations /\ Right(i) /\ 0 \in Nat
      BY <3>1, <3>2 DEF Settled
    <3> DEFINE e == [i EXCEPT !.reopens = @ + 1, !.closedIn = None]
    <3>4. e \in Invocations /\ e.exit = i.exit /\ e.call = i.call /\ e.id = i.id
      BY <3>3, Invoked
    <3> HIDE DEF e
    <3>5. e \in Settled
      BY <3>3, <3>4 DEF Settled, Right
    <3> QED BY <3>2, <3>5 DEF e
  <2> HIDE DEF q, w, back, found, k
  <2>4. v \in Seq(Settled)
    BY <1>3, <2>2, RemovedIs
  <2>5. s \in Seq(Settled)
    BY <1>3, <2>3, AppendProperties
  <2> HIDE DEF s, v
  <2> QED BY <1>1, <1>2, <2>1, <2>4, <2>5, HandleSettles
<1> QED BY <1>5, <1>6

LEMMA SliceEndSettles ==
  ASSUME OracleInv, Logged, Kept, VerifySliceEnd
  PROVE  Kept'
<1> DEFINE q == Opened[Row.track]
           w == pending[Row.track]
           i == [Last(q) EXCEPT !.closedIn = Row.source]
           j == [i EXCEPT !.closes = @ + 1]
           s == Front(q)
<1>1. /\ phase = "verify" /\ done < Len(rows) /\ Row.kind = "end"
      /\ \/ q = <<>> /\ \E codes : Handle(q, w, {}, codes)
         \/ q # <<>> /\ \E codes : Handle(s, w, {}, codes)
         \/ q # <<>> /\ \E kind, codes : Handle(s, w, {Export(i, kind)}, codes)
         \/ q # <<>> /\ \E codes : Handle(s, Append(w, j), {}, codes)
  BY DEF VerifySliceEnd, Verifying
<1>2. Row.track \in Tracks /\ Row.source \in Nat
  BY <1>1, RowLogged
<1>3. q \in Seq(Settled) /\ w \in Seq(Settled)
  BY <1>2, FlushedSettled
<1>4. q # <<>> => s \in Seq(Settled) /\ i \in Settled /\ j \in Settled
  <2> SUFFICES ASSUME q # <<>> PROVE s \in Seq(Settled) /\ i \in Settled /\ j \in Settled
    OBVIOUS
  <2>1. s \in Seq(Settled) /\ Last(q) = q[Len(q)] /\ Len(q) \in DOMAIN q
    BY <1>3, FrontIs
  <2>2. Last(q) \in Settled
    BY <1>3, <2>1, SeqSettled
  <2>3. PICK a, n : a = Last(q) /\ n = Row.source
    OBVIOUS
  <2>4. a \in Invocations /\ Right(a) /\ n \in Nat
    BY <1>2, <2>2, <2>3 DEF Settled
  <2> DEFINE e == [a EXCEPT !.closedIn = n]
             f == [e EXCEPT !.closes = @ + 1]
  <2>5. e \in Invocations /\ e.exit = a.exit /\ e.call = a.call /\ e.id = a.id
    BY <2>4, Invoked
  <2> HIDE DEF e
  <2>6. f \in Invocations /\ f.exit = e.exit /\ f.call = e.call /\ f.id = e.id
    BY <2>4, <2>5, Invoked
  <2> HIDE DEF f
  <2>7. e \in Settled /\ f \in Settled
    BY <2>4, <2>5, <2>6 DEF Settled, Right
  <2>8. i = e /\ j = f
    BY <2>3 DEF e, f
  <2> QED BY <2>1, <2>7, <2>8
<1> HIDE DEF q, w, i, j, s
<1>5. ASSUME NEW stack \in Seq(Settled), NEW codes, Handle(stack, w, {}, codes) PROVE Kept'
  BY <1>1, <1>2, <1>3, <1>5, HandleSettles
<1>6. ASSUME q # <<>>, NEW kind, NEW codes, Handle(s, w, {Export(i, kind)}, codes) PROVE Kept'
  <2> DEFINE x == {Export(i, kind)}
  <2>1. \A e \in x : e.invocation \in Settled
    BY <1>4, <1>6 DEF Export
  <2>2. Handle(s, w, x, codes)
    BY <1>6
  <2> HIDE DEF x
  <2> QED BY <1>1, <1>2, <1>3, <1>4, <1>6, <2>1, <2>2, HandleSettles
<1>7. ASSUME q # <<>>, NEW codes, Handle(s, Append(w, j), {}, codes) PROVE Kept'
  <2> DEFINE v == Append(w, j)
  <2>1. v \in Seq(Settled)
    BY <1>3, <1>4, <1>7, AppendProperties
  <2>2. Handle(s, v, {}, codes)
    BY <1>7
  <2> HIDE DEF v
  <2> QED BY <1>1, <1>2, <1>4, <1>7, <2>1, <2>2, HandleSettles
<1> QED BY <1>1, <1>3, <1>4, <1>5, <1>6, <1>7

(* An exit that is paired with an invocation of its own call.               *)
LEMMA ExitProbeSettles ==
  ASSUME OracleInv, Logged, Kept, VerifyExitProbe,
         LET q == Opened[Row.track]
         IN  Exiting(q) # 0 /\ ~Ambiguous => q[Exiting(q)].call = Row.call
  PROVE  Kept'
<1> DEFINE q == Opened[Row.track]
           n == Exiting(q)
           r == [q EXCEPT ![n].exit = Row.call]
<1>1. phase = "verify" /\ done < Len(rows) /\ Row.kind = "probe"
  BY DEF VerifyExitProbe, Verifying
<1>2. Row.track \in Tracks /\ Row.call \in Nat \ {0}
  BY <1>1, RowLogged
<1>3. /\ q \in Seq(Settled) /\ <<>> \in Seq(Settled)
      /\ \A e \in Flushed : e.invocation \in Settled
  BY <1>2, FlushedSettled
<1>4. \/ \E codes : Handle(q, <<>>, Flushed, codes)
      \/ n # 0 /\ \E codes : Handle(r, <<>>, Flushed, codes)
  BY DEF VerifyExitProbe
<1>5. CASE \E codes : Handle(q, <<>>, Flushed, codes)
  BY <1>1, <1>2, <1>3, <1>5, HandleSettles
<1>6. CASE n # 0 /\ \E codes : Handle(r, <<>>, Flushed, codes)
  <2>1. PICK codes : Handle(r, <<>>, Flushed, codes)
    BY <1>6
  <2>2. ~Ambiguous => q[n].call = Row.call
    BY <1>6
  <2> DEFINE i == [q[n] EXCEPT !.exit = Row.call]
  <2>3. r = [q EXCEPT ![n] = i]
    OBVIOUS
  <2>4. n \in DOMAIN q => i \in Settled
    <3> SUFFICES ASSUME n \in DOMAIN q PROVE i \in Settled
      OBVIOUS
    <3>1. PICK a, c : a = q[n] /\ c = Row.call
      OBVIOUS
    <3>2. a \in Settled
      BY <1>3, <3>1, SeqSettled
    <3>3. a \in Invocations /\ Right(a) /\ c \in Nat
      BY <1>2, <3>1, <3>2 DEF Settled
    <3> DEFINE e == [a EXCEPT !.exit = c]
    <3>4. e \in Invocations /\ e.exit = c /\ e.call = a.call /\ e.id = a.id
      BY <3>3, Invoked
    <3> HIDE DEF e
    <3>5. e \in Settled
      BY <2>2, <3>1, <3>3, <3>4 DEF Settled, Right
    <3> QED BY <3>1, <3>5 DEF e
  <2> HIDE DEF i, r, n, q
  <2>5. r \in Seq(Settled)
    <3>1. CASE n \in DOMAIN q
      <4>1. n \in 1..Len(q)
        BY <1>3, <3>1, LenProperties
      <4> QED BY <1>3, <2>3, <2>4, <3>1, <4>1, ExceptSeq
    <3>2. CASE n \notin DOMAIN q
      <4>1. r = q
        BY <1>3, <2>3, <3>2
      <4> QED BY <1>3, <4>1
    <3> QED BY <3>1, <3>2
  <2> QED BY <1>1, <1>2, <1>3, <2>1, <2>5, HandleSettles
<1> QED BY <1>4, <1>5, <1>6

LEMMA FinishSettles ==
  ASSUME OracleInv, Kept, VerifyFinish
  PROVE  Kept'
<1> DEFINE empty == [t \in Tracks |-> <<>>]
<1>1. /\ open' = empty /\ pending' = empty /\ phase' = "verified"
      /\ exported' = exported \cup FinalPending \cup FinalOpen
      /\ identified' = identified /\ faults' = faults
  BY DEF VerifyFinish, recording, recorded
<1>2. Settled' = Settled
  BY <1>1 DEF Settled, Right, Ambiguous
<1>3. PICK S : S = Settled
  OBVIOUS
<1>4. /\ open \in [Tracks -> Seq(S)] /\ pending \in [Tracks -> Seq(S)]
      /\ \A e \in exported : e.invocation \in S
  BY <1>3 DEF Kept
<1>5. \A t \in Tracks : ToSet(open[t]) \subseteq S /\ ToSet(pending[t]) \subseteq S
  <2> TAKE t \in Tracks
  <2>1. open[t] \in Seq(S) /\ pending[t] \in Seq(S)
    BY <1>4
  <2> QED BY <2>1, SeqSettled
<1>6. \A i, k : Export(i, k).invocation = i
  BY DEF Export
<1>7. \A e \in FinalOpen : e.invocation \in S
  BY <1>5, <1>6 DEF FinalOpen, Unclosed
<1>8. \A e \in FinalPending : e.invocation \in S
  BY <1>5, <1>6 DEF FinalPending
<1>9. empty \in [Tracks -> Seq(S)]
  OBVIOUS
<1>10. open' \in [Tracks -> Seq(S)] /\ pending' \in [Tracks -> Seq(S)]
  BY <1>1, <1>9
<1>11. \A e \in exported' : e.invocation \in S
  BY <1>1, <1>4, <1>7, <1>8
<1> QED BY <1>1, <1>2, <1>3, <1>10, <1>11 DEF Kept

(* Before the verification nothing is known.                                *)
LEMMA UnreadSettles ==
  ASSUME Kept, phase = "record", UNCHANGED <<open, pending, exported>>
  PROVE  Kept'
<1>1. /\ open' = [t \in Tracks |-> <<>>] /\ pending' = [t \in Tracks |-> <<>>] /\ exported' = {}
  BY DEF Kept
<1>2. \A S : [t \in Tracks |-> <<>>] \in [Tracks -> Seq(S)]
  OBVIOUS
<1>3. open' \in [Tracks -> Seq(Settled')] /\ pending' \in [Tracks -> Seq(Settled')]
  BY <1>1, <1>2
<1> QED BY <1>1, <1>3 DEF Kept

----------------------------------------------------------------------------
(* The mirror: at the row last read, every track of the index is as the      *)
(* replay of the recording says.                                            *)
Bound(CC, s, k) == IF k > CC[s] THEN s + 1 ELSE s
Mirrored(o, p, g, bound, exact) ==
  \A t \in Tracks : /\ StackMirrors(o[t], g[t].open, g[t].probed)
                    /\ WaitMirrors(p[t], g[t].waiting, bound, exact)
Traces(from, GG, CC) ==
  /\ Tabled(chunks, rows, from) /\ Run(chunks, GG, CC, faults = {})
  /\ EndOf(chunks, GG) = Still(active)
Behind(from, GG, CC) ==
  IF done = 0 THEN open = [t \in Tracks |-> <<>>] /\ pending = [t \in Tracks |-> <<>>]
  ELSE \E s, k : /\ Place(from, done, s, k)
                 /\ Mirrored(open, pending, GG[s][k], Bound(CC, s, k), faults = {})
Mirror ==
  Sound /\ phase = "verify" => \E from, GG, CC : Traces(from, GG, CC) /\ Behind(from, GG, CC)

LEMMA CarriedOn ==
  ASSUME NEW cs, NEW GG, NEW CC, NEW clean, Run(cs, GG, CC, clean), Len(cs) \in Nat,
         NEW i \in Nat, i >= 1, i + 1 <= Len(cs)
  PROVE  /\ Carried(GG[i][Len(cs[i])], GG[i + 1][0], clean)
         /\ cs[i] = <<>> => /\ Waitless(GG[i][0]) /\ Waitless(GG[i + 1][0])
<1>1. i \in 1..(Len(cs) - 1) /\ i \in 1..Len(cs)
  OBVIOUS
<1>2. Carried(GG[i][Len(cs[i])], GG[i + 1][0], clean)
  BY <1>1 DEF Run
<1>3. ASSUME cs[i] = <<>> PROVE Waitless(GG[i][0]) /\ Waitless(GG[i + 1][0])
  <2>1. Waitless(GG[i][0]) /\ Len(cs[i]) = 0
    BY <1>1, <1>3 DEF Run
  <2>2. Carried(GG[i][0], GG[i + 1][0], clean)
    BY <1>2, <2>1
  <2> QED BY <2>1, <2>2 DEF Carried, Waitless
<1> QED BY <1>2, <1>3

(* Between the chunks nothing changes in what waits.                        *)
LEMMA WaitsCarried ==
  ASSUME NEW cs, NEW GG, NEW CC, NEW clean, Run(cs, GG, CC, clean), Len(cs) \in Nat,
         NEW s \in Nat, NEW j \in Nat, s >= 1, s < j, j <= Len(cs), Void(cs, s + 1, j - 1)
  PROVE  /\ \A u \in Tracks : GG[j][0][u].waiting = GG[s][Len(cs[s])][u].waiting
         /\ clean => \A u \in Tracks : GG[s][Len(cs[s])][u].open = <<>>
<1>1. s + 1 <= Len(cs)
  OBVIOUS
<1>2. Carried(GG[s][Len(cs[s])], GG[s + 1][0], clean)
  BY <1>1, CarriedOn
<1>3. CASE j = s + 1
  BY <1>2, <1>3 DEF Carried
<1>4. CASE j # s + 1
  <2>1. PICK i \in Nat : i = s + 1
    OBVIOUS
  <2>2. PICK k \in Nat : k = j - 1
    OBVIOUS
  <2>3. /\ i \in (s + 1)..(j - 1) /\ k \in (s + 1)..(j - 1) /\ i >= 1 /\ k >= 1
        /\ i + 1 <= Len(cs) /\ k + 1 <= Len(cs) /\ k + 1 = j
    BY <1>4, <2>1, <2>2
  <2>4. cs[i] = <<>> /\ cs[k] = <<>>
    BY <2>3 DEF Void
  <2>5. Waitless(GG[i][0])
    BY <2>3, <2>4, CarriedOn
  <2>6. Waitless(GG[k + 1][0])
    BY <2>3, <2>4, CarriedOn
  <2> QED BY <1>2, <2>1, <2>3, <2>5, <2>6 DEF Waitless, Carried
<1> QED BY <1>3, <1>4

LEMMA FirstWaitless ==
  ASSUME NEW cs, NEW GG, NEW CC, NEW clean, Run(cs, GG, CC, clean), Len(cs) \in Nat,
         NEW j \in Nat, j >= 1, j <= Len(cs), Void(cs, 1, j - 1)
  PROVE  Waitless(GG[j][0])
<1>1. CASE j = 1
  BY <1>1 DEF Run
<1>2. CASE j # 1
  <2>1. PICK k \in Nat : k = j - 1
    OBVIOUS
  <2>2. k \in 1..(j - 1) /\ k >= 1 /\ k + 1 <= Len(cs) /\ k + 1 = j
    BY <1>2, <2>1
  <2>3. cs[k] = <<>>
    BY <2>2 DEF Void
  <2>4. Waitless(GG[k + 1][0])
    BY <2>2, <2>3, CarriedOn
  <2> QED BY <2>2, <2>4
<1> QED BY <1>1, <1>2

LEMMA BoundIs ==
  ASSUME NEW CC, NEW s \in Nat, NEW k \in Nat, CC[s] \in Nat
  PROVE  /\ Bound(CC, s, k) \in Nat /\ s <= Bound(CC, s, k) /\ Bound(CC, s, k) <= s + 1
         /\ Bound(CC, s, 0) = s
         /\ k > 0 => Bound(CC, s, k - 1) \in Nat /\ Bound(CC, s, k - 1) <= Bound(CC, s, k)
         /\ k > CC[s] => Bound(CC, s, k) = s + 1
         /\ ~(k > CC[s]) => Bound(CC, s, k) = s
BY DEF Bound

LEMMA EmptyMirrors ==
  ASSUME NEW o, NEW p, NEW g, NEW bound, NEW exact, Starting(g), Waitless(g),
         \A t \in Tracks : o[t] = <<>> /\ p[t] = <<>>
  PROVE  Mirrored(o, p, g, bound, exact)
<1> SUFFICES ASSUME NEW t \in Tracks
             PROVE  /\ StackMirrors(o[t], g[t].open, g[t].probed)
                    /\ WaitMirrors(p[t], g[t].waiting, bound, exact)
  BY DEF Mirrored
<1>1. o[t] = <<>> /\ p[t] = <<>> /\ g[t].open = <<>> /\ g[t].waiting = <<>>
  BY DEF Starting, Waitless
<1>2. Len(<<>>) = 0 /\ 1..0 = {} /\ <<>> \in Seq({})
  OBVIOUS
<1>3. StackMirrors(o[t], g[t].open, g[t].probed)
  BY <1>1, <1>2 DEF StackMirrors
<1>4. WaitMirrors(<<>>, <<>>, bound, exact)
  BY <1>2, WaitNone
<1> QED BY <1>1, <1>3, <1>4

(* The next row: j and q are its place.                                     *)
AheadAt(from, GG, CC, j, q) ==
  /\ Place(from, At, j, q) /\ j \in 1..Len(chunks) /\ q \in 1..Len(chunks[j])
  /\ Mirrored(Opened, pending, GG[j][q - 1], Bound(CC, j, q - 1), faults = {})
  /\ faults = {} => Leftover = {}

LEMMA RunTyped ==
  ASSUME Recorded, NEW GG, NEW CC, NEW clean, Run(chunks, GG, CC, clean)
  PROVE  /\ Len(chunks) \in Nat /\ DOMAIN chunks = 1..Len(chunks)
         /\ \A i \in 1..Len(chunks) :
              /\ Len(chunks[i]) \in Nat /\ DOMAIN chunks[i] = 1..Len(chunks[i])
              /\ CC[i] \in Nat /\ Starting(GG[i][0])
              /\ \A k \in 0..Len(chunks[i]) : GG[i][k] \in [Tracks -> Views]
              /\ \A k \in 1..Len(chunks[i]) :
                   Passes(GG[i][k - 1], GG[i][k], chunks[i][k], k > CC[i], clean)
<1>1. PICK S : chunks \in Seq(Seq(S))
  BY DEF Recorded, ChunksFit
<1>2. /\ Len(chunks) \in Nat /\ DOMAIN chunks = 1..Len(chunks)
      /\ \A i \in 1..Len(chunks) : Len(chunks[i]) \in Nat /\ DOMAIN chunks[i] = 1..Len(chunks[i])
  BY <1>1, ChunksTyped
<1>3. \A i \in 1..Len(chunks) : /\ CC[i] \in 0..Len(chunks[i]) /\ Starting(GG[i][0])
                                /\ Replay(chunks[i], GG[i], CC[i], clean)
  BY DEF Run
<1>4. ASSUME NEW i \in 1..Len(chunks)
      PROVE  /\ CC[i] \in Nat /\ Starting(GG[i][0])
             /\ \A k \in 0..Len(chunks[i]) : GG[i][k] \in [Tracks -> Views]
             /\ \A k \in 1..Len(chunks[i]) :
                  Passes(GG[i][k - 1], GG[i][k], chunks[i][k], k > CC[i], clean)
  <2>1. CC[i] \in Nat /\ Starting(GG[i][0])
    BY <1>2, <1>3
  <2>2. Replay(chunks[i], GG[i], CC[i], clean)
    BY <1>3
  <2> QED BY <2>1, <2>2 DEF Replay
<1> QED BY <1>2, <1>4

LEMMA RowAhead ==
  ASSUME OracleInv, Kept, done < Len(rows),
         NEW from, NEW GG, NEW CC, Traces(from, GG, CC), Behind(from, GG, CC)
  PROVE  \E j, q : AheadAt(from, GG, CC, j, q)
<1>1. Recorded /\ Verified(rows, done)
  BY DEF OracleInv
<1>2. PICK S : rows \in Seq(S)
  BY <1>1 DEF Verified, EntriesFit
<1>3. /\ Len(rows) \in Nat /\ DOMAIN rows = 1..Len(rows) /\ done \in Nat
      /\ At = done + 1 /\ At \in DOMAIN rows /\ Row = rows[At]
  BY <1>1, <1>2, LenProperties DEF Verified, At, Row
<1>4. PICK clean : clean = (faults = {})
  OBVIOUS
<1>5. Tabled(chunks, rows, from) /\ Run(chunks, GG, CC, clean)
  BY <1>4 DEF Traces
<1>6. /\ Len(chunks) \in Nat /\ DOMAIN chunks = 1..Len(chunks)
      /\ \A i \in 1..Len(chunks) :
           /\ Len(chunks[i]) \in Nat /\ DOMAIN chunks[i] = 1..Len(chunks[i])
           /\ CC[i] \in Nat /\ Starting(GG[i][0])
           /\ \A k \in 0..Len(chunks[i]) : GG[i][k] \in [Tracks -> Views]
  BY <1>1, <1>5, RunTyped
<1>7. PICK j, q : Place(from, At, j, q)
  BY DEF Place
<1>8. j \in DOMAIN chunks /\ q \in DOMAIN chunks[j] /\ Row.source = j
  BY <1>3, <1>5, <1>7 DEF Tabled, Place
<1>9. j \in 1..Len(chunks) /\ q \in 1..Len(chunks[j]) /\ j \in Nat /\ q \in Nat
  BY <1>6, <1>8
<1>10. CC[j] \in Nat /\ Starting(GG[j][0]) /\ Bound(CC, j, 0) = j
  BY <1>6, <1>9, BoundIs
<1>11. CASE done = 0
  <2>1. /\ \A t \in Tracks : open[t] = <<>> /\ pending[t] = <<>>
        /\ ~AtBoundary
    BY <1>11 DEF Behind, AtBoundary
  <2>2. q = 1 /\ \A m \in 1..(j - 1) : chunks[m] = <<>>
    <3>1. 1 \in DOMAIN rows /\ At = 1
      BY <1>3, <1>11
    <3> QED BY <1>5, <1>7, <3>1 DEF Tabled, Place
  <2>3. Void(chunks, 1, j - 1)
    BY <2>2 DEF Void
  <2>4. Waitless(GG[j][0])
    <3>1. j >= 1 /\ j <= Len(chunks)
      BY <1>6, <1>9
    <3> QED BY <1>5, <1>6, <1>9, <2>3, <3>1, FirstWaitless
  <2>5. Opened = open /\ Leftover = {}
    BY <2>1 DEF Opened, Leftover
  <2>6. q - 1 = 0
    BY <2>2
  <2>7. Mirrored(Opened, pending, GG[j][q - 1], Bound(CC, j, q - 1), clean)
    BY <1>10, <2>1, <2>4, <2>5, <2>6, EmptyMirrors
  <2> QED BY <1>4, <1>7, <1>9, <2>5, <2>7 DEF AheadAt
<1>12. CASE done # 0
  <2>1. PICK s, k : /\ Place(from, done, s, k)
                    /\ Mirrored(open, pending, GG[s][k], Bound(CC, s, k), clean)
    BY <1>4, <1>12 DEF Behind
  <2>2. done \in DOMAIN rows
    BY <1>3, <1>12
  <2>3. s \in DOMAIN chunks /\ k \in DOMAIN chunks[s] /\ rows[done].source = s
    BY <1>5, <2>1, <2>2 DEF Tabled, Place
  <2>4. s \in 1..Len(chunks) /\ k \in 1..Len(chunks[s]) /\ s \in Nat /\ k \in Nat
    BY <1>6, <2>3
  <2>5. Continues(chunks, s, k, j, q)
    BY <1>3, <1>5, <1>7, <2>1, <2>2 DEF Tabled, Place
  <2>6. AtBoundary <=> s # j
    BY <1>3, <1>8, <1>12, <2>3 DEF AtBoundary
  <2>7. CASE j = s /\ q = k + 1
    <3>1. Opened = open /\ Leftover = {}
      BY <2>6, <2>7 DEF Opened, Leftover
    <3>2. q - 1 = k
      BY <2>4, <2>7
    <3>3. Mirrored(Opened, pending, GG[j][q - 1], Bound(CC, j, q - 1), clean)
      BY <2>1, <2>7, <3>1, <3>2
    <3> QED BY <1>4, <1>7, <1>9, <3>1, <3>3 DEF AheadAt
  <2>8. CASE s < j /\ k = Len(chunks[s]) /\ q = 1 /\ Void(chunks, s + 1, j - 1)
    <3>1. AtBoundary
      BY <1>9, <2>4, <2>6, <2>8
    <3>2. Opened = [t \in Tracks |-> <<>>]
      BY <3>1 DEF Opened
    <3>3. /\ \A u \in Tracks : GG[j][0][u].waiting = GG[s][k][u].waiting
          /\ clean => \A u \in Tracks : GG[s][k][u].open = <<>>
      <4>1. s >= 1 /\ s < j /\ j <= Len(chunks)
        BY <1>6, <1>9, <2>4, <2>8
      <4>2. PICK cs : cs = chunks
        OBVIOUS
      <4>3. /\ Run(cs, GG, CC, clean) /\ Len(cs) \in Nat /\ s >= 1 /\ s < j /\ j <= Len(cs)
            /\ Void(cs, s + 1, j - 1)
        BY <1>5, <1>6, <2>8, <4>1, <4>2
      <4>4. /\ \A u \in Tracks : GG[j][0][u].waiting = GG[s][Len(cs[s])][u].waiting
            /\ clean => \A u \in Tracks : GG[s][Len(cs[s])][u].open = <<>>
        BY <1>9, <2>4, <4>3, WaitsCarried
      <4> QED BY <2>8, <4>2, <4>4
    <3>4. /\ \A t \in Tracks : /\ StackMirrors(open[t], GG[s][k][t].open, GG[s][k][t].probed)
                               /\ WaitMirrors(pending[t], GG[s][k][t].waiting, Bound(CC, s, k), clean)
      BY <2>1 DEF Mirrored
    <3>5. Bound(CC, s, k) \in Nat /\ Bound(CC, s, k) <= j /\ q - 1 = 0
      <4>1. CC[s] \in Nat
        BY <1>6, <2>4
      <4>2. Bound(CC, s, k) \in Nat /\ Bound(CC, s, k) <= s + 1
        BY <2>4, <4>1, BoundIs
      <4> QED BY <1>9, <2>4, <2>8, <4>2
    <3>6. ASSUME NEW t \in Tracks
          PROVE  /\ StackMirrors(Opened[t], GG[j][0][t].open, GG[j][0][t].probed)
                 /\ WaitMirrors(pending[t], GG[j][0][t].waiting, j, clean)
      <4>1. GG[j][0][t].open = <<>> /\ Opened[t] = <<>>
        BY <1>10, <3>2 DEF Starting
      <4>2. Len(<<>>) = 0 /\ 1..0 = {}
        OBVIOUS
      <4>3. StackMirrors(Opened[t], GG[j][0][t].open, GG[j][0][t].probed)
        BY <4>1, <4>2 DEF StackMirrors
      <4>4. pending[t] \in Seq(Invocations)
        <5>1. pending[t] \in Seq(Settled) /\ Settled \subseteq Invocations
          BY DEF Kept, Settled
        <5> QED BY <5>1, SeqMonotonic
      <4>5. GG[s][k][t].waiting \in Seq(Called)
        <5>1. k \in 0..Len(chunks[s])
          BY <2>4
        <5>2. GG[s][k][t] \in Views
          BY <1>6, <2>4, <5>1
        <5> QED BY <5>2 DEF Views
      <4>6. PICK waiting, w, b, d : /\ waiting = pending[t] /\ w = GG[s][k][t].waiting
                                    /\ b = Bound(CC, s, k) /\ d = j
        OBVIOUS
      <4>7. WaitMirrors(waiting, w, d, clean)
        <5>1. WaitMirrors(waiting, w, b, clean)
          BY <3>4, <4>6
        <5>2. /\ waiting \in Seq(Invocations) /\ w \in Seq(Called) /\ b \in Nat /\ d \in Nat
              /\ b <= d
          BY <1>9, <3>5, <4>4, <4>5, <4>6
        <5> QED BY <5>1, <5>2, WaitLater
      <4> QED BY <3>3, <4>3, <4>6, <4>7
    <3>7. Mirrored(Opened, pending, GG[j][q - 1], Bound(CC, j, q - 1), clean)
      BY <1>10, <3>5, <3>6 DEF Mirrored
    <3>8. ASSUME clean PROVE Leftover = {}
      <4>1. \A t \in Tracks : Len(open[t]) = 0
        <5> TAKE t \in Tracks
        <5>1. Len(open[t]) = Len(GG[s][k][t].open) /\ GG[s][k][t].open = <<>>
          BY <3>3, <3>4, <3>8 DEF StackMirrors
        <5> QED BY <5>1
      <4>2. \A t \in Tracks : DOMAIN open[t] = {}
        <5> TAKE t \in Tracks
        <5>1. open[t] \in Seq(Settled)
          BY DEF Kept
        <5>2. DOMAIN open[t] = 1..Len(open[t])
          BY <5>1, LenProperties
        <5> QED BY <4>1, <5>2
      <4>3. \A t \in Tracks : ToSet(open[t]) = {}
        BY <4>2 DEF ToSet
      <4> QED BY <4>3 DEF Leftover, Unclosed
    <3> QED BY <1>4, <1>7, <1>9, <3>7, <3>8 DEF AheadAt
  <2> QED BY <2>5, <2>7, <2>8 DEF Continues
<1> QED BY <1>11, <1>12

(* What the next row finds on its track, before (b) and after (a) it.       *)
Facing(b, a, closing, limit) ==
  /\ b \in Views /\ a \in Views /\ Moves(b, a, Row, closing)
  /\ faults = {} => Neat(b, Row, closing) /\ Leftover = {}
  /\ limit \in Nat /\ Row.source <= limit
  /\ closing => Trailing(At) /\ limit = Row.source + 1
  /\ ~closing => limit = Row.source
  /\ StackMirrors(Opened[Row.track], b.open, b.probed)
  /\ WaitMirrors(pending[Row.track], b.waiting, limit, faults = {})

LEMMA SameMoves ==
  ASSUME NEW row, NEW e, SameEvent(row, e), NEW b, NEW a, NEW closing
  PROVE  /\ Moves(b, a, e, closing) => Moves(b, a, row, closing)
         /\ Neat(b, e, closing) => Neat(b, row, closing)
<1>1. row.kind = e.kind /\ CallOf(row) = CallOf(e)
  BY DEF SameEvent, CallOf
<1> QED BY <1>1 DEF Moves, Neat

LEMMA ClosesTrail ==
  ASSUME Recorded, NEW from, NEW GG, NEW CC, NEW clean,
         Tabled(chunks, rows, from), Run(chunks, GG, CC, clean), At \in DOMAIN rows, At \in Nat,
         \E S : rows \in Seq(S),
         NEW j \in 1..Len(chunks), NEW q \in 1..Len(chunks[j]), Place(from, At, j, q), q > CC[j]
  PROVE  Trailing(At)
<1>1. /\ \A i \in 1..Len(chunks) :
           /\ Len(chunks[i]) \in Nat /\ DOMAIN chunks[i] = 1..Len(chunks[i])
           /\ CC[i] \in Nat
           /\ \A k \in 1..Len(chunks[i]) :
                Passes(GG[i][k - 1], GG[i][k], chunks[i][k], k > CC[i], clean)
      /\ Len(chunks) \in Nat
  BY RunTyped
<1> SUFFICES ASSUME NEW m \in DOMAIN rows, m > At, rows[m].source = rows[At].source
             PROVE  rows[m].kind = "end"
  BY DEF Trailing
<1>2. PICK i, p : Place(from, m, i, p)
  BY DEF Place
<1>3. /\ i \in DOMAIN chunks /\ p \in DOMAIN chunks[i] /\ SameEvent(rows[m], chunks[i][p])
      /\ rows[m].source = i
  BY <1>2 DEF Tabled, Place
<1>4. rows[At].source = j
  BY DEF Tabled, Place
<1>5. i = j
  BY <1>3, <1>4
<1>6. Before(from[At], from[m])
  <2>1. PICK S : rows \in Seq(S)
    OBVIOUS
  <2>2. m \in Nat /\ At < m
    BY <2>1, LenProperties
  <2> QED BY <2>2 DEF Tabled
<1>7. q < p /\ p \in 1..Len(chunks[j])
  <2>1. p \in 1..Len(chunks[j])
    BY <1>1, <1>3, <1>5
  <2>2. j = from[At][1] /\ q = from[At][2] /\ j = from[m][1] /\ p = from[m][2]
    BY <1>2, <1>5 DEF Place
  <2>3. j \in Nat /\ ~(j < j)
    BY <1>1
  <2> QED BY <1>6, <2>1, <2>2, <2>3 DEF Before
<1>8. (p > CC[j]) = TRUE
  BY <1>1, <1>7
<1>9. Passes(GG[j][p - 1], GG[j][p], chunks[j][p], TRUE, clean)
  <2>1. Passes(GG[j][p - 1], GG[j][p], chunks[j][p], p > CC[j], clean)
    BY <1>1, <1>7
  <2> QED BY <1>8, <2>1
<1>10. chunks[j][p].kind = "end"
  BY <1>9 DEF Passes, Moves
<1> QED BY <1>3, <1>5, <1>10 DEF SameEvent

(* How an event at place j, q is passed.                                    *)
LEMMA RowPasses ==
  ASSUME OracleInv, Kept, done < Len(rows),
         NEW from, NEW GG, NEW CC, Traces(from, GG, CC), NEW j, NEW q, AheadAt(from, GG, CC, j, q)
  PROVE  LET b == GG[j][q - 1][Row.track]
             a == GG[j][q][Row.track]
         IN  /\ j \in Nat /\ q \in Nat /\ q > 0 /\ CC[j] \in Nat /\ Row.source = j
             /\ \A u \in Tracks : u # Row.track => GG[j][q][u] = GG[j][q - 1][u]
             /\ \A u \in Tracks : GG[j][q - 1][u] \in Views
             /\ q > CC[j] => Facing(b, a, TRUE, j + 1)
             /\ ~(q > CC[j]) => Facing(b, a, FALSE, j)
<1>1. Recorded /\ Verified(rows, done)
  BY DEF OracleInv
<1>2. PICK S : rows \in Seq(S)
  BY <1>1 DEF Verified, EntriesFit
<1>3. /\ Len(rows) \in Nat /\ DOMAIN rows = 1..Len(rows) /\ done \in Nat
      /\ At = done + 1 /\ At \in DOMAIN rows /\ Row = rows[At] /\ At \in Nat
  BY <1>1, <1>2, LenProperties DEF Verified, At, Row
<1>4. Row.track \in Tracks
  BY <1>1, RowRead
<1>5. PICK clean : clean = (faults = {})
  OBVIOUS
<1>6. Tabled(chunks, rows, from) /\ Run(chunks, GG, CC, clean)
  BY <1>5 DEF Traces
<1>7. /\ Place(from, At, j, q) /\ j \in 1..Len(chunks) /\ q \in 1..Len(chunks[j])
      /\ Mirrored(Opened, pending, GG[j][q - 1], Bound(CC, j, q - 1), clean)
      /\ clean => Leftover = {}
  BY <1>5 DEF AheadAt
<1>8. /\ Len(chunks) \in Nat
      /\ \A i \in 1..Len(chunks) :
           /\ Len(chunks[i]) \in Nat /\ DOMAIN chunks[i] = 1..Len(chunks[i])
           /\ CC[i] \in Nat
           /\ \A k \in 0..Len(chunks[i]) : GG[i][k] \in [Tracks -> Views]
           /\ \A k \in 1..Len(chunks[i]) :
                Passes(GG[i][k - 1], GG[i][k], chunks[i][k], k > CC[i], clean)
  BY <1>1, <1>6, RunTyped
<1>9. j \in Nat /\ q \in Nat /\ q > 0 /\ CC[j] \in Nat
  BY <1>7, <1>8
<1>10. SameEvent(Row, chunks[j][q]) /\ Row.source = j
  BY <1>3, <1>6, <1>7 DEF Tabled, Place
<1> DEFINE t == Row.track
           b == GG[j][q - 1][t]
           a == GG[j][q][t]
           e == chunks[j][q]
<1>11. /\ GG[j][q - 1] \in [Tracks -> Views] /\ GG[j][q] \in [Tracks -> Views]
  <2>1. q - 1 \in 0..Len(chunks[j]) /\ q \in 0..Len(chunks[j])
    BY <1>7, <1>8
  <2> QED BY <1>7, <1>8, <2>1
<1>12. b \in Views /\ a \in Views
  BY <1>4, <1>11
<1>13. e.track = t
  BY <1>10 DEF SameEvent
<1>14. Passes(GG[j][q - 1], GG[j][q], e, q > CC[j], clean)
  BY <1>7, <1>8
<1>15. /\ StackMirrors(Opened[t], b.open, b.probed)
       /\ WaitMirrors(pending[t], b.waiting, Bound(CC, j, q - 1), clean)
  BY <1>4, <1>7 DEF Mirrored
<1>16. \A u \in Tracks : u # t => GG[j][q][u] = GG[j][q - 1][u]
  BY <1>13, <1>14 DEF Passes
<1>17. /\ Bound(CC, j, q - 1) \in Nat /\ Bound(CC, j, q - 1) <= Bound(CC, j, q)
       /\ q > CC[j] => Bound(CC, j, q) = j + 1
       /\ ~(q > CC[j]) => Bound(CC, j, q) = j
  BY <1>9, BoundIs
<1>18. pending[t] \in Seq(Invocations)
  <2>1. pending[t] \in Seq(Settled) /\ Settled \subseteq Invocations
    BY <1>4 DEF Kept, Settled
  <2> QED BY <2>1, SeqMonotonic
<1>19. b.waiting \in Seq(Called)
  BY <1>12 DEF Views
<1> HIDE DEF b, a, e, t
<1>20. PICK waiting, w, c : waiting = pending[t] /\ w = b.waiting /\ c = Bound(CC, j, q - 1)
  OBVIOUS
<1>21. ASSUME NEW d \in Nat, Bound(CC, j, q - 1) <= d
       PROVE  WaitMirrors(pending[t], b.waiting, d, clean)
  <2>1. /\ WaitMirrors(waiting, w, c, clean) /\ waiting \in Seq(Invocations) /\ w \in Seq(Called)
        /\ c \in Nat /\ c <= d
    BY <1>15, <1>17, <1>18, <1>19, <1>20, <1>21
  <2>2. WaitMirrors(waiting, w, d, clean)
    BY <2>1, WaitLater
  <2> QED BY <1>20, <2>2
<1>22. ASSUME q > CC[j] PROVE Facing(b, a, TRUE, j + 1)
  <2>1. (q > CC[j]) = TRUE
    BY <1>22
  <2>2. Passes(GG[j][q - 1], GG[j][q], e, TRUE, clean)
    BY <1>14, <2>1
  <2>3. Moves(b, a, e, TRUE) /\ (clean => Neat(b, e, TRUE))
    BY <1>13, <2>2 DEF Passes, b, a
  <2>4. Moves(b, a, Row, TRUE) /\ (clean => Neat(b, Row, TRUE))
    BY <1>10, <2>3, SameMoves DEF e
  <2>5. Trailing(At)
    BY <1>1, <1>2, <1>3, <1>6, <1>7, <1>22, ClosesTrail
  <2>6. j + 1 \in Nat /\ j <= j + 1 /\ Bound(CC, j, q - 1) <= j + 1
    BY <1>9, <1>17, <1>22
  <2>7. WaitMirrors(pending[t], b.waiting, j + 1, clean)
    BY <1>21, <2>6
  <2> QED BY <1>5, <1>7, <1>10, <1>12, <1>15, <2>4, <2>5, <2>6, <2>7 DEF Facing, t
<1>23. ASSUME ~(q > CC[j]) PROVE Facing(b, a, FALSE, j)
  <2>1. (q > CC[j]) = FALSE
    BY <1>9, <1>23
  <2>2. Passes(GG[j][q - 1], GG[j][q], e, FALSE, clean)
    BY <1>14, <2>1
  <2>3. Moves(b, a, e, FALSE) /\ (clean => Neat(b, e, FALSE))
    BY <1>13, <2>2 DEF Passes, b, a
  <2>4. Moves(b, a, Row, FALSE) /\ (clean => Neat(b, Row, FALSE))
    BY <1>10, <2>3, SameMoves DEF e
  <2>6. j \in Nat /\ j <= j /\ Bound(CC, j, q - 1) <= j
    BY <1>9, <1>17, <1>23
  <2>7. WaitMirrors(pending[t], b.waiting, j, clean)
    BY <1>21, <2>6
  <2> QED BY <1>5, <1>7, <1>10, <1>12, <1>15, <2>4, <2>6, <2>7 DEF Facing, t
<1>24. \A u \in Tracks : GG[j][q - 1][u] \in Views
  BY <1>11
<1> QED BY <1>9, <1>10, <1>16, <1>22, <1>23, <1>24 DEF b, a, t

LEMMA RowFacing ==
  ASSUME OracleInv, Kept, Mirror, Sound, phase = "verify", done < Len(rows)
  PROVE  \E b, a, limit : Facing(b, a, TRUE, limit) \/ Facing(b, a, FALSE, limit)
<1>1. PICK from, GG, CC : Traces(from, GG, CC) /\ Behind(from, GG, CC)
  BY DEF Mirror
<1>2. PICK j, q : AheadAt(from, GG, CC, j, q)
  BY <1>1, RowAhead
<1>3. /\ q > CC[j] => Facing(GG[j][q - 1][Row.track], GG[j][q][Row.track], TRUE, j + 1)
      /\ ~(q > CC[j]) => Facing(GG[j][q - 1][Row.track], GG[j][q][Row.track], FALSE, j)
  BY <1>1, <1>2, RowPasses
<1> QED BY <1>3

(* The mirror is kept if the track of the row is handled as it moves.       *)
LEMMA HandleMirrors ==
  ASSUME OracleInv, Kept, Mirror, phase = "verify", done < Len(rows),
         NEW stack, NEW waiting, NEW x, NEW codes, Handle(stack, waiting, x, codes),
         \A b, a, limit : \A closing \in BOOLEAN :
            Facing(b, a, closing, limit) =>
              /\ StackMirrors(stack, a.open, a.probed)
              /\ WaitMirrors(waiting, a.waiting, limit, faults = {})
  PROVE  Mirror'
<1>1. /\ open' = [Opened EXCEPT ![Row.track] = stack]
      /\ pending' = [pending EXCEPT ![Row.track] = waiting]
      /\ done' = At /\ UNCHANGED <<active, chunks, faults, rows, phase>>
  BY DEF Handle, recording, recorded, indexed
<1> SUFFICES ASSUME Sound'
             PROVE  \E from, GG, CC : Traces(from, GG, CC)' /\ Behind(from, GG, CC)'
  BY DEF Mirror
<1>2. Sound
  BY <1>1 DEF Sound
<1>3. PICK from, GG, CC : Traces(from, GG, CC) /\ Behind(from, GG, CC)
  BY <1>2 DEF Mirror
<1>4. PICK j, q : AheadAt(from, GG, CC, j, q)
  BY <1>3, RowAhead
<1> DEFINE t == Row.track
           b == GG[j][q - 1][t]
           a == GG[j][q][t]
<1>5. /\ j \in Nat /\ q \in Nat /\ q > 0 /\ CC[j] \in Nat /\ Row.source = j
      /\ \A u \in Tracks : u # t => GG[j][q][u] = GG[j][q - 1][u]
      /\ \A u \in Tracks : GG[j][q - 1][u] \in Views
      /\ q > CC[j] => Facing(b, a, TRUE, j + 1)
      /\ ~(q > CC[j]) => Facing(b, a, FALSE, j)
  BY <1>3, <1>4, RowPasses
<1>6. /\ Bound(CC, j, q - 1) \in Nat /\ Bound(CC, j, q) \in Nat
      /\ Bound(CC, j, q - 1) <= Bound(CC, j, q)
      /\ q > CC[j] => Bound(CC, j, q) = j + 1
      /\ ~(q > CC[j]) => Bound(CC, j, q) = j
  <2>1. j \in Nat /\ q \in Nat /\ CC[j] \in Nat /\ q > 0
    BY <1>5
  <2> HIDE DEF t, b, a
  <2>2. /\ Bound(CC, j, q) \in Nat
        /\ q > CC[j] => Bound(CC, j, q) = j + 1
        /\ ~(q > CC[j]) => Bound(CC, j, q) = j
    BY <2>1 DEF Bound
  <2>3. Bound(CC, j, q - 1) \in Nat /\ Bound(CC, j, q - 1) <= Bound(CC, j, q)
    BY <2>1 DEF Bound
  <2> QED BY <2>2, <2>3
<1>7. PICK clean : clean = (faults = {})
  OBVIOUS
<1>8. t \in Tracks /\ done \in Nat
  BY RowRead DEF OracleInv
<1> HIDE DEF b, a
<1>9. /\ StackMirrors(stack, a.open, a.probed)
      /\ WaitMirrors(waiting, a.waiting, Bound(CC, j, q), clean)
  <2>1. CASE q > CC[j]
    <3>1. Facing(b, a, TRUE, j + 1) /\ TRUE \in BOOLEAN
      BY <1>5, <2>1
    <3>2. /\ StackMirrors(stack, a.open, a.probed)
          /\ WaitMirrors(waiting, a.waiting, j + 1, faults = {})
      BY <3>1
    <3> QED BY <1>6, <1>7, <2>1, <3>2
  <2>2. CASE ~(q > CC[j])
    <3>1. Facing(b, a, FALSE, j) /\ FALSE \in BOOLEAN
      BY <1>5, <2>2
    <3>2. /\ StackMirrors(stack, a.open, a.probed)
          /\ WaitMirrors(waiting, a.waiting, j, faults = {})
      BY <3>1
    <3> QED BY <1>6, <1>7, <2>2, <3>2
  <2> QED BY <2>1, <2>2
<1>10. Opened \in [Tracks -> Seq(Settled)] /\ pending \in [Tracks -> Seq(Settled)]
  BY OpenedSettled DEF Kept
<1>11. \A u \in Tracks : /\ open'[u] = IF u = t THEN stack ELSE Opened[u]
                         /\ pending'[u] = IF u = t THEN waiting ELSE pending[u]
  BY <1>1, <1>8, <1>10
<1>12. Mirrored(Opened, pending, GG[j][q - 1], Bound(CC, j, q - 1), clean)
  BY <1>4, <1>7 DEF AheadAt
<1> HIDE DEF t
<1>13. ASSUME NEW u \in Tracks
       PROVE  /\ StackMirrors(open'[u], GG[j][q][u].open, GG[j][q][u].probed)
              /\ WaitMirrors(pending'[u], GG[j][q][u].waiting, Bound(CC, j, q), clean)
  <2>1. CASE u = t
    BY <1>9, <1>11, <2>1 DEF a
  <2>2. CASE u # t
    <3>1. open'[u] = Opened[u] /\ pending'[u] = pending[u] /\ GG[j][q][u] = GG[j][q - 1][u]
      BY <1>5, <1>11, <2>2
    <3>2. /\ StackMirrors(Opened[u], GG[j][q - 1][u].open, GG[j][q - 1][u].probed)
          /\ WaitMirrors(pending[u], GG[j][q - 1][u].waiting, Bound(CC, j, q - 1), clean)
      BY <1>12 DEF Mirrored
    <3>3. pending[u] \in Seq(Invocations)
      <4>1. pending[u] \in Seq(Settled) /\ Settled \subseteq Invocations
        BY <1>10 DEF Settled
      <4> QED BY <4>1, SeqMonotonic
    <3>4. GG[j][q - 1][u].waiting \in Seq(Called)
      <4>1. GG[j][q - 1][u] \in Views
        BY <1>5
      <4> QED BY <4>1 DEF Views
    <3>5. PICK v, w, c, d : /\ v = pending[u] /\ w = GG[j][q - 1][u].waiting
                            /\ c = Bound(CC, j, q - 1) /\ d = Bound(CC, j, q)
      OBVIOUS
    <3>6. /\ WaitMirrors(v, w, c, clean) /\ v \in Seq(Invocations) /\ w \in Seq(Called)
          /\ c \in Nat /\ d \in Nat /\ c <= d
      BY <1>6, <3>2, <3>3, <3>4, <3>5
    <3>7. WaitMirrors(v, w, d, clean)
      BY <3>6, WaitLater
    <3> QED BY <3>1, <3>2, <3>5, <3>7
  <2> QED BY <2>1, <2>2
<1>14. Mirrored(open', pending', GG[j][q], Bound(CC, j, q), clean)
  BY <1>13 DEF Mirrored
<1>15. Traces(from, GG, CC)'
  BY <1>1, <1>3 DEF Traces, Still
<1>16. Behind(from, GG, CC)'
  <2>1. done' # 0 /\ Place(from, done', j, q)
    <3>1. At = done + 1
      BY DEF At
    <3> QED BY <1>1, <1>4, <1>8, <3>1 DEF AheadAt
  <2>2. clean = (faults' = {})
    BY <1>1, <1>7
  <2>3. Mirrored(open', pending', GG[j][q], Bound(CC, j, q), faults' = {})
    BY <1>14, <2>2
  <2> QED BY <2>1, <2>3 DEF Behind
<1> QED BY <1>15, <1>16

LEMMA RowTyped ==
  ASSUME OracleInv, Logged, Kept, done < Len(rows)
  PROVE  /\ Row.track \in Tracks /\ Row.source \in Nat /\ Row.call \in Nat \ {0}
         /\ Opened[Row.track] \in Seq(Invocations) /\ pending[Row.track] \in Seq(Invocations)
         /\ CallOf(Row) \in Called /\ None \in Nat /\ None = 0
<1>1. /\ Row.track \in Tracks /\ Row.source \in Nat /\ Row.call \in Nat \ {0}
      /\ CallOf(Row) \in Called
  BY RowLogged
<1>2. Opened[Row.track] \in Seq(Settled) /\ pending[Row.track] \in Seq(Settled)
  BY <1>1, FlushedSettled
<1>3. Settled \subseteq Invocations
  BY DEF Settled
<1>4. Seq(Settled) \subseteq Seq(Invocations)
  BY <1>3, SeqMonotonic
<1> QED BY <1>1, <1>2, <1>4 DEF None

(* What faces a row of a kind.                                              *)
LEMMA FacingEnter ==
  ASSUME NEW b, NEW a, NEW closing, NEW limit, Facing(b, a, closing, limit), Row.kind = "enter"
  PROVE  /\ b.waiting = <<>> /\ ~b.probed /\ b.open \in Seq(Called)
         /\ a.open = Append(b.open, CallOf(Row)) /\ a.waiting = <<>> /\ a.probed = FALSE
<1>1. b \in Views /\ Moves(b, a, Row, closing)
  BY DEF Facing
<1>2. /\ b.waiting = <<>> /\ ~b.probed
      /\ a = View(Append(b.open, CallOf(Row)), <<>>, FALSE)
  BY <1>1 DEF Moves
<1> QED BY <1>1, <1>2 DEF View, Views

LEMMA FacingReopen ==
  ASSUME NEW b, NEW a, NEW closing, NEW limit, Facing(b, a, closing, limit), Row.kind = "reopen"
  PROVE  /\ ~b.probed /\ b.open \in Seq(Called) /\ b.waiting \in Seq(Called)
         /\ b.waiting # <<>> /\ Last(b.waiting) = CallOf(Row) /\ ~closing
         /\ a.open = Append(b.open, CallOf(Row)) /\ a.waiting = Front(b.waiting)
         /\ a.probed = FALSE
<1>1. b \in Views /\ Moves(b, a, Row, closing)
  BY DEF Facing
<1>2. /\ ~b.probed /\ ~closing /\ b.waiting # <<>> /\ Last(b.waiting) = CallOf(Row)
      /\ a = View(Append(b.open, CallOf(Row)), Front(b.waiting), FALSE)
  BY <1>1 DEF Moves
<1> QED BY <1>1, <1>2 DEF View, Views

LEMMA FacingProbe ==
  ASSUME NEW b, NEW a, NEW closing, NEW limit, Facing(b, a, closing, limit), Row.kind = "probe"
  PROVE  /\ b.open \in Seq(Called) /\ b.open # <<>> /\ Last(b.open) = CallOf(Row)
         /\ b.waiting = <<>> /\ b.probed \in BOOLEAN /\ (faults = {} => ~b.probed)
         /\ a.open = b.open /\ a.waiting = <<>> /\ a.probed = TRUE
<1>1. b \in Views /\ Moves(b, a, Row, closing) /\ (faults = {} => Neat(b, Row, closing))
  BY DEF Facing
<1>2. /\ b.open # <<>> /\ Last(b.open) = CallOf(Row) /\ b.waiting = <<>>
      /\ a = View(b.open, <<>>, TRUE)
  BY <1>1 DEF Moves
<1>3. faults = {} => ~b.probed
  BY <1>1 DEF Neat
<1> QED BY <1>1, <1>2, <1>3 DEF View, Views

LEMMA FacingEnd ==
  ASSUME NEW b, NEW a, NEW closing, NEW limit, Facing(b, a, closing, limit), Row.kind = "end"
  PROVE  /\ b.open \in Seq(Called) /\ b.open # <<>> /\ Last(b.open) = CallOf(Row)
         /\ b.waiting \in Seq(Called) /\ b.probed \in BOOLEAN
         /\ a.open = Front(b.open) /\ a.probed = FALSE
         /\ \/ ~closing /\ b.waiting = <<>> /\ a.waiting = <<>> /\ (faults = {} => b.probed)
            \/ closing /\ ~b.probed /\ a.waiting = Append(b.waiting, CallOf(Row))
<1>1. b \in Views /\ Moves(b, a, Row, closing) /\ (faults = {} => Neat(b, Row, closing))
  BY DEF Facing
<1>2. /\ b.open # <<>> /\ Last(b.open) = CallOf(Row)
      /\ \/ ~closing /\ b.waiting = <<>> /\ a = View(Front(b.open), <<>>, FALSE)
         \/ closing /\ ~b.probed /\ a = View(Front(b.open), Append(b.waiting, CallOf(Row)), FALSE)
  BY <1>1 DEF Moves
<1>3. faults = {} /\ ~closing => b.probed
  BY <1>1 DEF Neat
<1> QED BY <1>1, <1>2, <1>3 DEF View, Views

LEMMA EnterMirrors ==
  ASSUME OracleInv, Logged, Kept, Mirror, VerifyEnter
  PROVE  Mirror'
<1> DEFINE q == Opened[Row.track]
           i == NewInvocation(TRUE)
           s == Append(q, i)
<1>1. /\ phase = "verify" /\ done < Len(rows) /\ Row.kind = "enter"
      /\ Handle(s, <<>>, Flushed, FlushCodes)
  BY DEF VerifyEnter, Verifying
<1>2. q \in Seq(Invocations) /\ CallOf(Row) \in Called
  BY <1>1, RowTyped
<1>3. i \in Invocations /\ i.exit = None /\ CallOf(i) = CallOf(Row) /\ i.real
  BY <1>1, NewSettled DEF Settled
<1>4. ASSUME NEW b, NEW a, NEW limit, NEW closing \in BOOLEAN, Facing(b, a, closing, limit)
      PROVE  /\ StackMirrors(s, a.open, a.probed)
             /\ WaitMirrors(<<>>, a.waiting, limit, faults = {})
  <2>1. /\ b.waiting = <<>> /\ ~b.probed /\ b.open \in Seq(Called)
        /\ a.open = Append(b.open, CallOf(Row)) /\ a.waiting = <<>> /\ a.probed = FALSE
    BY <1>1, <1>4, FacingEnter
  <2>2. PICK p, o, c, clean : /\ p = b.probed /\ o = b.open /\ c = CallOf(Row)
                              /\ clean = (faults = {})
    OBVIOUS
  <2>3. StackMirrors(q, o, p)
    BY <1>4, <2>2 DEF Facing
  <2> HIDE DEF q, i
  <2>4. StackMirrors(Append(q, i), Append(o, c), FALSE)
    <3>1. o \in Seq(Called) /\ c \in Called /\ CallOf(i) = c
      BY <1>2, <1>3, <2>1, <2>2
    <3>2. StackMirrors(q, o, FALSE)
      BY <2>1, <2>2, <2>3 DEF StackMirrors
    <3> QED BY <1>2, <1>3, <3>1, <3>2, StackPushed
  <2>5. <<>> \in Seq({})
    OBVIOUS
  <2>6. WaitMirrors(<<>>, <<>>, limit, clean)
    BY <2>5, WaitNone
  <2> QED BY <2>1, <2>2, <2>4, <2>6
<1> HIDE DEF s
<1> QED BY <1>1, <1>4, HandleMirrors

(* A reopen continues the last call that waits.                             *)
LEMMA ReopenMirrors ==
  ASSUME OracleInv, Logged, Kept, Mirror, VerifyReopen
  PROVE  Mirror'
<1> DEFINE q     == Opened[Row.track]
           w     == pending[Row.track]
           found == {n \in DOMAIN w : Reopenable(w[n])}
           k     == Max(found)
           new   == NewInvocation(FALSE)
           back  == [w[k] EXCEPT !.reopens = @ + 1, !.closedIn = None]
<1>1. /\ phase = "verify" /\ done < Len(rows) /\ Row.kind = "reopen"
      /\ \/ found = {} /\ \E codes : Handle(Append(q, new), w, {}, codes)
         \/ found # {} /\ \E codes : Handle(Append(q, back), RemoveAt(w, k), {}, codes)
  BY DEF VerifyReopen, Verifying
<1>2. /\ Row.track \in Tracks /\ Row.source \in Nat /\ CallOf(Row) \in Called
      /\ q \in Seq(Invocations) /\ w \in Seq(Invocations)
  BY <1>1, RowTyped
<1>3. Row.id = IF identified THEN Row.call ELSE None
  BY <1>1, RowLogged
<1>4. w \in Seq(Settled)
  BY <1>2, FlushedSettled
(* The last that waits is found.                                            *)
<1>5. ASSUME NEW b, NEW a, NEW limit, NEW closing \in BOOLEAN, Facing(b, a, closing, limit)
      PROVE  /\ Len(w) \in found /\ k = Len(w)
             /\ w[Len(w)].real /\ CallOf(w[Len(w)]) = CallOf(Row) /\ w[Len(w)].exit = None
             /\ \E clean : /\ clean = (faults = {})
                           /\ WaitMirrors(Front(w), Front(b.waiting), limit, clean)
  <2>1. b.waiting \in Seq(Called) /\ b.waiting # <<>> /\ Last(b.waiting) = CallOf(Row) /\ ~closing
    BY <1>1, <1>5, FacingReopen
  <2>2. limit = Row.source
    BY <1>5, <2>1 DEF Facing
  <2>3. PICK z, clean : z = b.waiting /\ clean = (faults = {})
    OBVIOUS
  <2>4. WaitMirrors(w, z, limit, clean)
    BY <1>5, <2>3 DEF Facing
  <2> HIDE DEF w, found, k
  <2>5. z \in Seq(Called) /\ z # <<>> /\ Last(z) = CallOf(Row)
    BY <2>1, <2>3
  <2>6. /\ w # <<>> /\ Len(w) \in Nat \ {0} /\ Awaits(w[Len(w)], Last(z), limit)
        /\ WaitMirrors(Front(w), Front(z), limit, clean)
    BY <1>2, <2>4, <2>5, WaitPopped
  <2>7. PICK i : i = w[Len(w)]
    OBVIOUS
  <2>8. i.real /\ CallOf(i) = CallOf(Row) /\ i.exit = None /\ i.closedIn < Row.source
    BY <2>2, <2>5, <2>6, <2>7 DEF Awaits
  <2>9. Len(w) \in DOMAIN w /\ DOMAIN w = 1..Len(w)
    BY <1>2, <2>6, LenProperties
  <2>10. i \in Settled
    BY <1>4, <2>7, <2>9, SeqSettled
  <2>11. i.call = Row.call /\ i.function = Row.function
    BY <2>8 DEF CallOf
  <2>12. i.id = IF identified THEN i.call ELSE None
    BY <2>10 DEF Settled, Right
  <2>13. Matches(i, Row)
    BY <1>3, <2>11, <2>12 DEF Matches
  <2>14. Reopenable(i)
    BY <2>8, <2>13 DEF Reopenable
  <2>15. Len(w) \in found
    BY <2>7, <2>9, <2>14 DEF found
  <2>16. k = Len(w)
    <3>1. found \in SUBSET (1..Len(w)) /\ Len(w) \in Nat
      BY <2>6, <2>9 DEF found
    <3>5. found \in SUBSET (0..Len(w))
      BY <3>1
    <3>2. k \in found /\ \A n \in found : n <= k
      BY <2>15, <3>1, <3>5, LargestIs DEF k
    <3>4. Len(w) <= k /\ k \in 1..Len(w)
      BY <2>15, <3>1, <3>2
    <3> QED BY <3>1, <3>4
  <2> QED BY <2>3, <2>6, <2>7, <2>8, <2>15, <2>16
<1>6. CASE found = {}
  <2> DEFINE s == Append(q, new)
  <2>1. PICK codes : Handle(s, w, {}, codes)
    BY <1>1, <1>6
  <2> HIDE DEF s, w, found, k
  <2>2. \A b, a, limit : \A closing \in BOOLEAN : ~Facing(b, a, closing, limit)
    BY <1>5, <1>6
  <2> QED BY <1>1, <2>1, <2>2, HandleMirrors
<1>7. CASE found # {}
  <2> DEFINE s == Append(q, back)
             v == RemoveAt(w, k)
  <2>1. PICK codes : Handle(s, v, {}, codes)
    BY <1>1, <1>7
  <2>2. ASSUME NEW b, NEW a, NEW limit, NEW closing \in BOOLEAN, Facing(b, a, closing, limit)
        PROVE  /\ StackMirrors(s, a.open, a.probed)
               /\ WaitMirrors(v, a.waiting, limit, faults = {})
    <3>1. /\ Len(w) \in found /\ k = Len(w)
          /\ w[Len(w)].real /\ CallOf(w[Len(w)]) = CallOf(Row) /\ w[Len(w)].exit = None
      BY <1>5, <2>2
    <3>2. PICK clean : /\ clean = (faults = {})
                       /\ WaitMirrors(Front(w), Front(b.waiting), limit, clean)
      BY <1>5, <2>2
    <3>3. /\ ~b.probed /\ b.open \in Seq(Called)
          /\ a.open = Append(b.open, CallOf(Row)) /\ a.waiting = Front(b.waiting)
          /\ a.probed = FALSE
      BY <1>1, <2>2, FacingReopen
    <3>4. Len(w) \in DOMAIN w
      BY <3>1
    <3>5. PICK i : i = w[k]
      OBVIOUS
    <3>6. i \in Invocations /\ i.real /\ CallOf(i) = CallOf(Row) /\ i.exit = None
      BY <1>2, <3>1, <3>4, <3>5, SeqSettled
    <3>7. PICK o, c : o = b.open /\ c = CallOf(Row)
      OBVIOUS
    <3>8. StackMirrors(q, o, FALSE)
      BY <2>2, <3>3, <3>7 DEF Facing, StackMirrors
    <3>9. v = Front(w)
      <4> HIDE DEF w, k
      <4>1. RemoveAt(w, Len(w)) = Front(w)
        BY <1>2, <3>4, LastRemoved
      <4> QED BY <3>1, <4>1
    <3>10. back \in Invocations /\ back.real /\ back.exit = None /\ CallOf(back) = c
      <4> DEFINE e == [i EXCEPT !.reopens = @ + 1, !.closedIn = None]
      <4>1. 0 \in Nat
        OBVIOUS
      <4>2. e \in Invocations /\ e.exit = i.exit /\ e.call = i.call /\ e.function = i.function
            /\ e.real = i.real
        BY <3>6, <4>1, Invoked
      <4> HIDE DEF e
      <4>3. CallOf(e) = c /\ e.real /\ e.exit = None
        BY <3>6, <3>7, <4>2 DEF CallOf
      <4> QED BY <3>5, <4>2, <4>3 DEF e
    <3> HIDE DEF q, w, back, found, k, v
    <3>11. StackMirrors(Append(q, back), Append(o, c), FALSE)
      <4>1. o \in Seq(Called) /\ c \in Called
        BY <1>2, <3>3, <3>7
      <4> QED BY <1>2, <3>8, <3>10, <4>1, StackPushed
    <3> QED BY <3>2, <3>3, <3>7, <3>9, <3>11
  <2> HIDE DEF s, v, found
  <2> QED BY <1>1, <2>1, <2>2, HandleMirrors
<1> QED BY <1>6, <1>7

(* The innermost call is the one whose exit is recorded.                    *)
LEMMA ProbedLast ==
  ASSUME OracleInv, Logged, Kept, done < Len(rows), Row.kind = "probe",
         NEW b, NEW a, NEW closing, NEW limit, Facing(b, a, closing, limit)
  PROVE  LET q == Opened[Row.track]
         IN  /\ Exiting(q) = Len(q) /\ Len(q) \in DOMAIN q /\ Len(q) \in Nat \ {0}
             /\ q[Len(q)].real /\ CallOf(q[Len(q)]) = CallOf(Row)
             /\ q[Len(q)].exit # None <=> b.probed
<1> DEFINE q == Opened[Row.track]
<1>1. b.open \in Seq(Called) /\ b.open # <<>> /\ Last(b.open) = CallOf(Row)
      /\ b.probed \in BOOLEAN
  BY FacingProbe
<1>2. q \in Seq(Invocations)
  BY RowTyped
<1>3. q \in Seq(Settled) /\ Row.id = IF identified THEN Row.call ELSE None
  BY RowLogged, FlushedSettled
<1>4. PICK o, p : o = b.open /\ p = b.probed
  OBVIOUS
<1>5. StackMirrors(q, o, p)
  BY <1>4 DEF Facing
<1> HIDE DEF q
<1>6. /\ q # <<>> /\ Last(q).real /\ CallOf(Last(q)) = Last(o) /\ Last(q) = q[Len(q)]
  <2>1. o \in Seq(Called) /\ o # <<>> /\ p \in BOOLEAN
    BY <1>1, <1>4
  <2> QED BY <1>2, <1>5, <2>1, StackPopped
<1>7. DOMAIN q = 1..Len(q) /\ Len(q) \in Nat /\ Len(q) \in DOMAIN q
  BY <1>2, <1>6, FrontIs
<1>16. q[Len(q)].exit # None <=> p
  <2>1. Len(q) \in Nat \ {0}
    BY <1>7
  <2> QED BY <1>5, <2>1 DEF StackMirrors
<1>8. PICK i : i = q[Len(q)]
  OBVIOUS
<1>9. i \in Settled
  BY <1>3, <1>7, <1>8, SeqSettled
<1>10. CallOf(i) = CallOf(Row)
  BY <1>1, <1>4, <1>6, <1>8
<1>11. i.call = Row.call /\ i.function = Row.function
  BY <1>10 DEF CallOf
<1>12. i.id = IF identified THEN i.call ELSE None
  BY <1>9 DEF Settled, Right
<1>13. Matches(i, Row)
  BY <1>3, <1>11, <1>12 DEF Matches
<1> DEFINE found == {n \in DOMAIN q : Matches(q[n], Row)}
           all   == {0} \cup found
<1>14. Exiting(q) = Max(all)
  BY DEF Exiting
<1>15. Max(all) = Len(q)
  <2>1. Len(q) \in all /\ \A n \in all : n \in Nat /\ n <= Len(q)
    BY <1>7, <1>8, <1>13
  <2> HIDE DEF all
  <2> DEFINE M == CHOOSE x \in all : \A y \in all : x >= y
  <2>2. Len(q) \in all /\ \A y \in all : Len(q) >= y
    BY <1>7, <2>1
  <2>3. M \in all /\ \A y \in all : M >= y
    BY <2>2
  <2>4. M = Len(q)
    <3>1. PICK m, l : m = M /\ l = Len(q)
      OBVIOUS
    <3> HIDE DEF M
    <3>2. m \in Nat /\ l \in Nat /\ m <= l /\ m >= l
      BY <1>7, <2>1, <2>3, <3>1
    <3> QED BY <3>1, <3>2
  <2> QED BY <2>4 DEF Max
<1> QED BY <1>4, <1>6, <1>7, <1>8, <1>10, <1>14, <1>15, <1>16 DEF q

LEMMA ExitProbeMirrors ==
  ASSUME OracleInv, Logged, Kept, Mirror, VerifyExitProbe
  PROVE  Mirror'
<1> DEFINE q == Opened[Row.track]
           n == Exiting(q)
           r == [q EXCEPT ![n].exit = Row.call]
<1>1. phase = "verify" /\ done < Len(rows) /\ Row.kind = "probe"
  BY DEF VerifyExitProbe, Verifying
<1>2. /\ q \in Seq(Invocations) /\ CallOf(Row) \in Called /\ None = 0 /\ Row.call \in Nat \ {0}
  BY <1>1, RowTyped
<1>3. \/ n = 0 /\ \E codes : Handle(q, <<>>, Flushed, codes)
      \/ n # 0 /\ q[n].exit # None /\ \E codes : Handle(q, <<>>, Flushed, codes)
      \/ n # 0 /\ q[n].exit = None /\ \E codes : Handle(r, <<>>, Flushed, codes)
  BY DEF VerifyExitProbe
<1>4. ASSUME NEW limit PROVE WaitMirrors(<<>>, <<>>, limit, faults = {})
  <2>1. PICK clean : clean = (faults = {})
    OBVIOUS
  <2>2. <<>> \in Seq({})
    OBVIOUS
  <2>3. WaitMirrors(<<>>, <<>>, limit, clean)
    BY <2>2, WaitNone
  <2> QED BY <2>1, <2>3
<1>5. ASSUME NEW b, NEW a, NEW limit, NEW closing \in BOOLEAN, Facing(b, a, closing, limit)
      PROVE  /\ n = Len(q) /\ n \in DOMAIN q /\ n # 0
             /\ q[n].real /\ CallOf(q[n]) = CallOf(Row)
             /\ q[n].exit # None <=> b.probed
  <2>1. /\ Exiting(q) = Len(q) /\ Len(q) \in DOMAIN q /\ Len(q) \in Nat \ {0}
        /\ q[Len(q)].real /\ CallOf(q[Len(q)]) = CallOf(Row)
        /\ q[Len(q)].exit # None <=> b.probed
    BY <1>1, <1>5, ProbedLast
  <2> QED BY <2>1
<1>6. CASE n = 0 \/ q[n].exit # None
  <2>1. PICK codes : Handle(q, <<>>, Flushed, codes)
    BY <1>3, <1>6
  <2>2. ASSUME NEW b, NEW a, NEW limit, NEW closing \in BOOLEAN, Facing(b, a, closing, limit)
        PROVE  /\ StackMirrors(q, a.open, a.probed)
               /\ WaitMirrors(<<>>, a.waiting, limit, faults = {})
    <3>1. b.probed = TRUE
      <4>1. b.probed \in BOOLEAN
        BY <1>1, <2>2, FacingProbe
      <4> QED BY <1>5, <1>6, <2>2, <4>1
    <3>2. a.open = b.open /\ a.waiting = <<>> /\ a.probed = TRUE
      BY <1>1, <2>2, FacingProbe
    <3>3. StackMirrors(q, b.open, b.probed)
      BY <2>2 DEF Facing
    <3>4. StackMirrors(q, a.open, TRUE)
      BY <3>1, <3>2, <3>3
    <3> QED BY <1>4, <3>2, <3>4
  <2> HIDE DEF q, n
  <2> QED BY <1>1, <2>1, <2>2, HandleMirrors
<1>7. CASE ~(n = 0 \/ q[n].exit # None)
  <2>1. PICK codes : Handle(r, <<>>, Flushed, codes)
    BY <1>3, <1>7
  <2>2. ASSUME NEW b, NEW a, NEW limit, NEW closing \in BOOLEAN, Facing(b, a, closing, limit)
        PROVE  /\ StackMirrors(r, a.open, a.probed)
               /\ WaitMirrors(<<>>, a.waiting, limit, faults = {})
    <3>1. /\ b.open \in Seq(Called) /\ b.open # <<>> /\ Last(b.open) = CallOf(Row)
          /\ a.open = b.open /\ a.waiting = <<>> /\ a.probed = TRUE
      BY <1>1, <2>2, FacingProbe
    <3>2. /\ n = Len(q) /\ n \in DOMAIN q /\ q[n].real /\ CallOf(q[n]) = CallOf(Row)
      BY <1>5, <2>2
    <3>3. PICK o, p, i, c : o = b.open /\ p = b.probed /\ i = q[n] /\ c = Row.call
      OBVIOUS
    <3>4. StackMirrors(q, o, p)
      BY <2>2, <3>3 DEF Facing
    <3>5. i \in Invocations /\ c \in Nat
      BY <1>2, <3>2, <3>3, SeqSettled
    <3> DEFINE e == [i EXCEPT !.exit = c]
    <3>6. e \in Invocations /\ e.exit = c /\ e.call = i.call /\ e.function = i.function
          /\ e.real = i.real
      BY <3>5, Invoked
    <3>7. r = [q EXCEPT ![Len(q)] = e]
      BY <3>2, <3>3
    <3> HIDE DEF e, r, q, n
    <3>8. e.real /\ e.exit # None /\ CallOf(e) = Last(o)
      BY <1>2, <3>1, <3>2, <3>3, <3>6 DEF CallOf
    <3>9. StackMirrors([q EXCEPT ![Len(q)] = e], o, TRUE)
      <4>1. o \in Seq(Called) /\ o # <<>>
        BY <3>1, <3>3
      <4> QED BY <1>2, <3>4, <3>6, <3>8, <4>1, StackProbed
    <3> QED BY <1>4, <3>1, <3>3, <3>7, <3>9
  <2> HIDE DEF q, n, r
  <2> QED BY <1>1, <2>1, <2>2, HandleMirrors
<1> QED BY <1>6, <1>7

LEMMA SliceEndMirrors ==
  ASSUME OracleInv, Logged, Kept, Mirror, VerifySliceEnd
  PROVE  Mirror'
<1> DEFINE q == Opened[Row.track]
           w == pending[Row.track]
           i == [Last(q) EXCEPT !.closedIn = Row.source]
           j == [i EXCEPT !.closes = @ + 1]
           s == Front(q)
<1>1. phase = "verify" /\ done < Len(rows) /\ Row.kind = "end"
  BY DEF VerifySliceEnd, Verifying
<1>2. \/ q = <<>> /\ \E codes : Handle(q, w, {}, codes)
      \/ q # <<>> /\ ~i.real /\ \E codes : Handle(s, w, {}, codes)
      \/ q # <<>> /\ i.real /\ i.exit # None /\ \E x, codes : Handle(s, w, x, codes)
      \/ q # <<>> /\ i.real /\ i.exit = None /\ ~Trailing(At) /\ \E x, codes : Handle(s, w, x, codes)
      \/ q # <<>> /\ i.real /\ i.exit = None /\ Trailing(At) /\ \E x, codes :
           Handle(s, Append(w, j), x, codes)
  BY DEF VerifySliceEnd
<1>3. /\ q \in Seq(Invocations) /\ w \in Seq(Invocations) /\ CallOf(Row) \in Called
      /\ Row.source \in Nat
  BY <1>1, RowTyped
(* The end finds the call open.                                             *)
<1>4. ASSUME NEW b, NEW a, NEW limit, NEW closing \in BOOLEAN, Facing(b, a, closing, limit)
      PROVE  /\ q # <<>> /\ StackMirrors(s, a.open, a.probed)
             /\ i \in Invocations /\ i.real /\ CallOf(i) = CallOf(Row) /\ i.closedIn = Row.source
             /\ i.exit # None <=> b.probed
  <2>1. /\ b.open \in Seq(Called) /\ b.open # <<>> /\ Last(b.open) = CallOf(Row)
        /\ a.open = Front(b.open) /\ a.probed = FALSE /\ b.probed \in BOOLEAN
    BY <1>1, <1>4, FacingEnd
  <2>2. PICK o, p : o = b.open /\ p = b.probed
    OBVIOUS
  <2>3. StackMirrors(q, o, p)
    BY <1>4, <2>2 DEF Facing
  <2> HIDE DEF q, s, w
  <2>4. /\ q # <<>> /\ Last(q).real /\ CallOf(Last(q)) = Last(o)
        /\ Last(q) \in Invocations /\ Last(q) = q[Len(q)]
        /\ StackMirrors(Front(q), Front(o), FALSE)
    <3>1. o \in Seq(Called) /\ o # <<>> /\ p \in BOOLEAN
      BY <2>1, <2>2
    <3> QED BY <1>3, <2>3, <3>1, StackPopped
  <2>11. Last(q).exit # None <=> p
    <3>1. Len(q) \in Nat \ {0}
      BY <1>3, <2>4, FrontIs
    <3> QED BY <2>3, <2>4, <3>1 DEF StackMirrors
  <2>5. StackMirrors(s, a.open, a.probed)
    BY <2>1, <2>2, <2>4 DEF s
  <2>6. PICK d, n : d = Last(q) /\ n = Row.source
    OBVIOUS
  <2> DEFINE e == [d EXCEPT !.closedIn = n]
  <2>7. d \in Invocations /\ n \in Nat
    BY <1>3, <2>4, <2>6
  <2>8. e \in Invocations /\ e.exit = d.exit /\ e.call = d.call /\ e.function = d.function
        /\ e.real = d.real /\ e.closedIn = n
    BY <2>7, Invoked
  <2>9. i = e
    BY <2>6
  <2> HIDE DEF e, i
  <2>10. CallOf(i) = CallOf(Row) /\ i.real
    BY <2>1, <2>2, <2>4, <2>6, <2>8, <2>9 DEF CallOf
  <2> QED BY <2>2, <2>4, <2>5, <2>6, <2>8, <2>9, <2>10, <2>11
<1>5. ASSUME NEW b, NEW a, NEW limit, NEW closing \in BOOLEAN, Facing(b, a, closing, limit)
      PROVE  /\ \/ ~closing /\ b.waiting = <<>> /\ a.waiting = <<>> /\ (faults = {} => b.probed)
                \/ closing /\ ~b.probed /\ a.waiting = Append(b.waiting, CallOf(Row))
             /\ b.waiting \in Seq(Called)
             /\ closing => Trailing(At) /\ limit = Row.source + 1
             /\ WaitMirrors(w, b.waiting, limit, faults = {})
  BY <1>1, <1>5, FacingEnd DEF Facing
<1> HIDE DEF q, w, i, s
<1>6. ASSUME q # <<>>, i.real, i.exit # None \/ ~Trailing(At), NEW x, NEW codes,
             Handle(s, w, x, codes)
      PROVE  Mirror'
  <2>1. ASSUME NEW b, NEW a, NEW limit, NEW closing \in BOOLEAN, Facing(b, a, closing, limit)
        PROVE  /\ StackMirrors(s, a.open, a.probed)
               /\ WaitMirrors(w, a.waiting, limit, faults = {})
    <3>1. ~closing /\ b.waiting = <<>> /\ a.waiting = <<>>
      BY <1>4, <1>5, <1>6, <2>1
    <3>2. WaitMirrors(w, a.waiting, limit, faults = {})
      BY <1>5, <2>1, <3>1
    <3> QED BY <1>4, <2>1, <3>2
  <2> QED BY <1>1, <1>6, <2>1, HandleMirrors
<1>7. ASSUME q # <<>>, i.real, i.exit = None, Trailing(At), NEW x, NEW codes,
             Handle(s, Append(w, j), x, codes)
      PROVE  Mirror'
  <2> DEFINE v == Append(w, j)
  <2>1. ASSUME NEW b, NEW a, NEW limit, NEW closing \in BOOLEAN, Facing(b, a, closing, limit)
        PROVE  /\ StackMirrors(s, a.open, a.probed)
               /\ WaitMirrors(v, a.waiting, limit, faults = {})
    <3>1. /\ i \in Invocations /\ i.real /\ CallOf(i) = CallOf(Row) /\ i.closedIn = Row.source
          /\ StackMirrors(s, a.open, a.probed) /\ ~b.probed
      BY <1>4, <1>7, <2>1
    <3>2. PICK clean, z, d, c : /\ clean = (faults = {}) /\ z = b.waiting /\ d = i
                                /\ c = CallOf(Row)
      OBVIOUS
    <3>3. WaitMirrors(w, z, limit, clean) /\ z \in Seq(Called) /\ c \in Called
      BY <1>3, <1>5, <2>1, <3>2
    <3> DEFINE e == [d EXCEPT !.closes = @ + 1]
    <3>4. e \in Invocations /\ e.exit = d.exit /\ e.call = d.call /\ e.function = d.function
          /\ e.real = d.real /\ e.closedIn = d.closedIn
      <4>1. 0 \in Nat /\ d \in Invocations
        BY <3>1, <3>2
      <4> QED BY <4>1, Invoked
    <3>5. j = e
      BY <3>2
    <3> HIDE DEF e, j
    <3>6. j \in Invocations /\ j.real /\ j.exit = None /\ CallOf(j) = c
          /\ j.closedIn = Row.source
      BY <1>7, <3>1, <3>2, <3>4, <3>5 DEF CallOf
    <3>7. CASE ~closing
      <4>1. b.waiting = <<>> /\ a.waiting = <<>> /\ clean = FALSE
        BY <1>5, <2>1, <3>1, <3>2, <3>7
      <4>2. v \in Seq(Invocations)
        BY <1>3, <3>6, AppendProperties
      <4>3. WaitMirrors(v, <<>>, limit, clean)
        <5> HIDE DEF v
        <5> QED BY <4>1, <4>2, WaitNone
      <4> QED BY <3>1, <3>2, <4>1, <4>3
    <3>8. CASE closing
      <4>1. limit = Row.source + 1
        BY <2>1, <3>8 DEF Facing
      <4>4. a.waiting = Append(z, c)
        BY <1>5, <2>1, <3>2, <3>8
      <4>2. Awaits(j, c, limit)
        BY <1>3, <3>6, <4>1 DEF Awaits
      <4>3. WaitMirrors(Append(w, j), Append(z, c), limit, clean)
        BY <1>3, <3>3, <3>6, <4>2, WaitPushed
      <4> QED BY <3>1, <3>2, <4>3, <4>4
    <3> QED BY <3>7, <3>8
  <2> HIDE DEF v, j
  <2>2. Handle(s, v, x, codes)
    BY <1>7 DEF v
  <2> QED BY <1>1, <2>1, <2>2, HandleMirrors
<1>8. ASSUME q = <<>> \/ ~i.real, NEW stack, NEW codes, Handle(stack, w, {}, codes)
      PROVE  Mirror'
  <2>1. \A b, a, limit : \A closing \in BOOLEAN : ~Facing(b, a, closing, limit)
    BY <1>4, <1>8
  <2> QED BY <1>1, <1>8, <2>1, HandleMirrors
<1> QED BY <1>2, <1>6, <1>7, <1>8

LEMMA BuildMirrors ==
  ASSUME OracleInv, Faithful, Kept,
         \/ BuildAll \/ \E n \in DOMAIN chunks : BuildWithout(n)
         \/ \E n \in 1..(Len(chunks) - 1) : BuildSwapped(n)
  PROVE  Mirror'
<1> SUFFICES ASSUME Sound'
             PROVE  \E from, GG, CC : Traces(from, GG, CC)' /\ Behind(from, GG, CC)'
  BY DEF Mirror
<1>1. PICK sources, passed, happened :
        /\ Build(sources, passed, happened)
        /\ sources = chunks \/ happened = {"lost"} \/ happened = {"swapped"}
  BY DEF BuildAll, BuildWithout, BuildSwapped
<1>2. /\ phase = "record" /\ rows' = Rows(sources) /\ faults' = faults \cup happened
      /\ UNCHANGED <<active, chunks, done, open, pending>>
  BY <1>1 DEF Build, recorded
<1>3. sources = chunks /\ Sound
  BY <1>1, <1>2 DEF Sound
<1>4. Traced(chunks, active, faults = {}) /\ Traced(chunks, active, faults' = {})
  <2>1. Traced(chunks, active, faults = {})
    BY <1>3 DEF Faithful
  <2>2. Faithful'
    <3>1. UNCHANGED <<active, chunks, identified>> /\ faults \subseteq faults'
      BY <1>1 DEF Build, recorded
    <3> QED BY <3>1, FaultsFaithful
  <2>3. Traced(chunks', active', faults' = {})
    BY <2>2 DEF Faithful
  <2> QED BY <1>2, <2>1, <2>3
<1>5. PICK now : now = (faults' = {})
  OBVIOUS
<1>6. PICK GG, CC : Run(chunks, GG, CC, now) /\ EndOf(chunks, GG) = Still(active)
  BY <1>4, <1>5 DEF Traced, Reached
<1>7. PICK from : Tabled(chunks, rows', from)
  <2>1. PICK S : chunks \in Seq(Seq(S))
    BY DEF OracleInv, Recorded, ChunksFit
  <2>2. \E from : Tabled(chunks, Rows(chunks), from)
    BY <2>1, RowsTabled
  <2> QED BY <1>2, <1>3, <2>2
<1>8. Traces(from, GG, CC)'
  <2>1. Tabled(chunks', rows', from) /\ Run(chunks', GG, CC, faults' = {})
    BY <1>2, <1>5, <1>6, <1>7
  <2>2. EndOf(chunks', GG) = Still(active')
    BY <1>2, <1>6
  <2> QED BY <2>1, <2>2 DEF Traces, Still
<1>9. done' = 0 /\ open' = [t \in Tracks |-> <<>>] /\ pending' = [t \in Tracks |-> <<>>]
  BY <1>2 DEF OracleInv, Kept
<1>10. Behind(from, GG, CC)'
  BY <1>9 DEF Behind
<1> QED BY <1>8, <1>10

(* Where the exits are told apart, the one that exits is the caller.        *)
LEMMA ExitsOwnCall ==
  ASSUME OracleInv, Logged, Kept, Mirror, phase = "verify", done < Len(rows),
         Row.kind = "probe", ~Ambiguous, Exiting(Opened[Row.track]) # 0
  PROVE  Opened[Row.track][Exiting(Opened[Row.track])].call = Row.call
<1> DEFINE q == Opened[Row.track]
           n == Exiting(q)
<1>1. q \in Seq(Settled) /\ Row.call \in Nat \ {0}
  BY RowTyped, FlushedSettled
<1>2. Row.id = IF identified THEN Row.call ELSE None
  BY RowLogged
<1>3. CASE identified
  <2> DEFINE found == {m \in DOMAIN q : Matches(q[m], Row)}
  <2>1. n \in DOMAIN q /\ Matches(q[n], Row)
    <3>1. Len(q) \in Nat /\ DOMAIN q = 1..Len(q)
      BY <1>1, SeqSettled
    <3>2. n = Max({0} \cup found) /\ n # 0
      BY DEF Exiting
    <3>3. n \in {0} \cup found
      <4>1. {0} \cup found \in SUBSET (0..Len(q))
        BY <3>1
      <4> HIDE DEF found, n
      <4> QED BY <3>1, <3>2, <4>1, LargestIs
    <3> QED BY <3>2, <3>3
  <2>2. PICK i : i = q[n]
    OBVIOUS
  <2>3. i \in Settled /\ Matches(i, Row)
    BY <1>1, <2>1, <2>2, SeqSettled
  <2>4. i.id = i.call /\ i.call # 0
    BY <1>3, <2>3 DEF Settled, Right, Invocations
  <2>5. i.id = Row.id
    BY <1>1, <1>2, <1>3, <2>3, <2>4 DEF Matches, None
  <2> QED BY <1>2, <1>3, <2>2, <2>4, <2>5
<1>4. CASE ~identified
  <2>1. Sound
    BY <1>4 DEF Ambiguous, Sound
  <2>2. PICK b, a, closing, limit : Facing(b, a, closing, limit)
    BY <2>1, RowFacing
  <2>3. n = Len(q) /\ CallOf(q[Len(q)]) = CallOf(Row)
    BY <2>2, ProbedLast
  <2> QED BY <2>3 DEF CallOf
<1> QED BY <1>3, <1>4

----------------------------------------------------------------------------
IndexInv == OracleInv /\ Faithful /\ Logged /\ Kept /\ Mirror

LEMMA IndexInit == Init => IndexInv
<1> SUFFICES ASSUME Init PROVE IndexInv
  OBVIOUS
<1>1. OracleInv /\ Faithful
  BY OracleInit, InitFaithful
<1>2. /\ rows = <<>> /\ phase = "record" /\ exported = {}
      /\ open = [t \in Tracks |-> <<>>] /\ pending = [t \in Tracks |-> <<>>]
  BY DEF Init
<1>3. Logged
  BY <1>2 DEF Logged, LoggedIn
<1>4. \A S : [t \in Tracks |-> <<>>] \in [Tracks -> Seq(S)]
  OBVIOUS
<1>5. Kept
  BY <1>2, <1>4 DEF Kept
<1> QED BY <1>1, <1>2, <1>3, <1>5 DEF IndexInv, Mirror

LEMMA RecordingSettles ==
  ASSUME Logged, Kept, phase = "record",
         UNCHANGED <<phase, rows, identified, open, pending, exported>>
  PROVE  Logged' /\ Kept' /\ Mirror'
<1>1. Logged'
  BY DEF Logged
<1>2. Kept'
  BY UnreadSettles
<1> QED BY <1>1, <1>2 DEF Mirror

LEMMA ExitProbeKept ==
  ASSUME OracleInv, Logged, Kept, Mirror, VerifyExitProbe
  PROVE  Kept'
<1>1. phase = "verify" /\ done < Len(rows) /\ Row.kind = "probe"
  BY DEF VerifyExitProbe, Verifying
<1>2. Exiting(Opened[Row.track]) # 0 /\ ~Ambiguous =>
        Opened[Row.track][Exiting(Opened[Row.track])].call = Row.call
  BY <1>1, ExitsOwnCall
<1> QED BY <1>2, ExitProbeSettles

LEMMA IndexStep == ASSUME IndexInv, [Next]_vars PROVE IndexInv'
<1>1. OracleInv /\ Faithful /\ Logged /\ Kept /\ Mirror /\ Recorded
  BY DEF IndexInv, OracleInv
<1>2. OracleInv' /\ Faithful'
  BY <1>1, OracleStep, FaithfulStep
<1> SUFFICES Logged' /\ Kept' /\ Mirror'
  BY <1>2 DEF IndexInv
<1>3. CASE UNCHANGED vars
  <2>1. UNCHANGED <<active, chunks, identified, faults, rows, done, open, pending, exported, phase>>
    BY <1>3 DEF vars, recording, recorded, indexed, verifying
  <2>2. Logged'
    BY <1>1, <2>1 DEF Logged
  <2>3. Settled' = Settled
    BY <2>1 DEF Settled, Right, Ambiguous
  <2>4. Kept'
    BY <1>1, <2>1, <2>3 DEF Kept
  <2>5. Mirror'
    BY <1>1, <2>1 DEF Mirror, Sound, Traces, Behind, Still
  <2> QED BY <2>2, <2>4, <2>5
<1>4. ASSUME \/ \E t \in Tracks, f \in Functions : Enter(t, f)
             \/ \E t \in Tracks : Return(t) \/ ReturnUnprobed(t)
             \/ \E t \in Tracks, f \in {"twice", "unended"} : ReturnMalformed(t, f)
             \/ Drop \/ Rotate \/ Crash
      PROVE  Logged' /\ Kept' /\ Mirror'
  <2>1. phase = "record" /\ UNCHANGED <<phase, rows, identified, open, pending, exported>>
    BY <1>4 DEF Enter, Return, ReturnUnprobed, ReturnMalformed, Drop, Rotate, Crash, indexed,
                verifying
  <2> QED BY <1>1, <2>1, RecordingSettles
<1>5. ASSUME \/ BuildAll \/ \E n \in DOMAIN chunks : BuildWithout(n)
             \/ \E n \in 1..(Len(chunks) - 1) : BuildSwapped(n)
      PROVE  Logged' /\ Kept' /\ Mirror'
  <2>1. Logged' /\ Mirror'
    BY <1>1, <1>5, BuildLogs, BuildMirrors
  <2>2. phase = "record" /\ UNCHANGED <<open, pending, exported>>
    BY <1>5 DEF BuildAll, BuildWithout, BuildSwapped, Build
  <2>3. Kept'
    BY <1>1, <2>2, UnreadSettles
  <2> QED BY <2>1, <2>3
<1>6. ASSUME VerifyEnter \/ VerifyReopen \/ VerifyExitProbe \/ VerifySliceEnd
      PROVE  Logged' /\ Kept' /\ Mirror'
  <2>1. UNCHANGED <<rows, identified>>
    BY <1>6 DEF VerifyEnter, VerifyReopen, VerifyExitProbe, VerifySliceEnd, Handle, recording,
                recorded, indexed
  <2>2. Logged'
    BY <1>1, <2>1 DEF Logged
  <2>3. Kept'
    BY <1>1, <1>6, EnterSettles, ReopenSettles, ExitProbeKept, SliceEndSettles
  <2>4. Mirror'
    BY <1>1, <1>6, EnterMirrors, ReopenMirrors, ExitProbeMirrors, SliceEndMirrors
  <2> QED BY <2>2, <2>3, <2>4
<1>7. ASSUME VerifyFinish PROVE Logged' /\ Kept' /\ Mirror'
  <2>1. UNCHANGED <<rows, identified>> /\ phase' = "verified"
    BY <1>7 DEF VerifyFinish, recording, recorded, indexed
  <2>2. Logged'
    BY <1>1, <2>1 DEF Logged
  <2>3. Kept'
    BY <1>1, <1>7, FinishSettles
  <2> QED BY <2>1, <2>2, <2>3 DEF Mirror
<1> QED BY <1>3, <1>4, <1>5, <1>6, <1>7 DEF Next

LEMMA KnownSettled == ASSUME Kept PROVE PairedRight
<1>1. \A e \in exported : e.invocation \in Settled
  BY DEF Kept
<1>2. ASSUME NEW t \in Tracks PROVE ToSet(open[t]) \subseteq Settled /\ ToSet(pending[t]) \subseteq Settled
  <2>1. open[t] \in Seq(Settled) /\ pending[t] \in Seq(Settled)
    BY DEF Kept
  <2> QED BY <2>1, SeqSettled
<1>3. \A i, k : Export(i, k).invocation = i
  BY DEF Export
<1>4. \A e \in Known : e.invocation \in Settled
  BY <1>1, <1>2, <1>3 DEF Known, Unclosed
<1> QED BY <1>4 DEF PairedRight, Settled, Right

(* An exit is never charged to another call, whatever was missed, lost or   *)
(* out of order, if the events carry call ids; and also without them if the *)
(* slices nest and no chunk is missing or out of place: the exit that       *)
(* verify_trace_index notes for an invocation, by _invocation_matches, is   *)
(* the exit of its own call.                                                *)
THEOREM ExitsAreRight == Spec => []PairedRight
<1>1. Init => IndexInv
  BY IndexInit
<1>2. IndexInv /\ [Next]_vars => IndexInv'
  BY IndexStep
<1>3. IndexInv => PairedRight
  BY KnownSettled DEF IndexInv
<1> QED BY <1>1, <1>2, <1>3, PTL DEF Spec

----------------------------------------------------------------------------
(* A verification without an issue.  As long as there is none, each row      *)
(* does the one thing it is expected to do (Quiet), and what is held is      *)
(* tidy.                                                                     *)
Tidies == {i \in Invocations : i.real /\ i.closes = i.reopens}
Halves == {i \in Invocations : i.real /\ i.exit = None /\ i.closes = i.reopens + 1}
Fair(e) == e.kind = "real_exit" /\ e.invocation \in Tidies /\ e.invocation.exit # None
Tidy ==
  /\ phase = "record" => issues = {} /\ done = 0
  /\ issues = {} => /\ open \in [Tracks -> Seq(Tidies)] /\ pending \in [Tracks -> Seq(Halves)]
                    /\ \A e \in exported : Fair(e)

LEMMA NothingIn ==
  ASSUME NEW S, NEW q \in Seq(S), DOMAIN q = {}
  PROVE  q = <<>>
<1>1. DOMAIN q = 1..Len(q) /\ Len(q) \in Nat
  BY LenProperties
<1>2. SUFFICES ASSUME q # <<>> PROVE FALSE
  OBVIOUS
<1>3. Len(q) # 0
  BY <1>2, EmptySeq
<1>4. 1 \in DOMAIN q
  BY <1>1, <1>3
<1> QED BY <1>4

LEMMA HandleQuiet ==
  ASSUME Tidy, NEW stack, NEW waiting, NEW x, NEW codes, Handle(stack, waiting, x, codes),
         issues' = {}
  PROVE  /\ issues = {} /\ codes = {} /\ ~Regressed /\ done' = done + 1
         /\ AtBoundary => \A t \in Tracks : open[t] = <<>>
         /\ Opened = open
         /\ open' = [open EXCEPT ![Row.track] = stack]
         /\ pending' = [pending EXCEPT ![Row.track] = waiting]
         /\ exported' = exported \cup x
         /\ UNCHANGED <<recording, indexed, phase>>
<1>1. /\ open' = [Opened EXCEPT ![Row.track] = stack]
      /\ pending' = [pending EXCEPT ![Row.track] = waiting]
      /\ exported' = exported \cup Leftover \cup x
      /\ issues' = issues \cup RowIssues \cup UNION {Issue(c) : c \in codes}
      /\ done' = At
      /\ UNCHANGED <<recording, indexed, phase>>
  BY DEF Handle
<1>2. issues = {} /\ RowIssues = {} /\ \A c \in codes : Issue(c) = {}
  BY <1>1
<1>3. codes = {}
  BY <1>2 DEF Issue
<1>4. Leftover = {} /\ ~Regressed
  <2>1. {<<e.kind, At>> : e \in Leftover} = {}
    BY <1>2 DEF RowIssues
  <2>2. Leftover = {}
    BY <2>1
  <2>3. Regressed => Issue("temporal_sequence_non_monotonic") = {}
    BY <1>2 DEF RowIssues
  <2> QED BY <2>2, <2>3 DEF Issue
<1>5. open \in [Tracks -> Seq(Tidies)]
  BY <1>2 DEF Tidy
<1>6. ASSUME AtBoundary, NEW t \in Tracks PROVE open[t] = <<>>
  <2>1. Unclosed = {}
    BY <1>4, <1>6 DEF Leftover
  <2>2. \A i \in ToSet(open[t]) : ~i.real
    BY <2>1 DEF Unclosed
  <2>3. open[t] \in Seq(Tidies)
    BY <1>5
  <2>4. ToSet(open[t]) \subseteq Tidies /\ \A n \in DOMAIN open[t] : open[t][n] \in ToSet(open[t])
    BY <2>3, SeqSettled DEF ToSet
  <2>5. DOMAIN open[t] = {}
    BY <2>2, <2>4 DEF Tidies
  <2> QED BY <2>3, <2>5, NothingIn
<1>7. Opened = open
  BY <1>5, <1>6 DEF Opened
<1> QED BY <1>1, <1>2, <1>3, <1>4, <1>6, <1>7 DEF At

QuietEnter ==
  /\ Row.kind = "enter" /\ pending[Row.track] = <<>>
  /\ open' = [open EXCEPT ![Row.track] = Append(open[Row.track], NewInvocation(TRUE))]
  /\ UNCHANGED <<pending, exported>>
QuietReopen ==
  /\ Row.kind = "reopen" /\ pending[Row.track] # <<>> /\ Matches(Last(pending[Row.track]), Row)
  /\ open' = [open EXCEPT ![Row.track] =
                Append(open[Row.track],
                       [Last(pending[Row.track]) EXCEPT !.reopens = @ + 1, !.closedIn = None])]
  /\ pending' = [pending EXCEPT ![Row.track] = Front(pending[Row.track])]
  /\ UNCHANGED exported
QuietProbe ==
  /\ Row.kind = "probe" /\ pending[Row.track] = <<>> /\ open[Row.track] # <<>>
  /\ Exiting(open[Row.track]) = Len(open[Row.track])
  /\ Last(open[Row.track]).exit = None
  /\ open' = [open EXCEPT ![Row.track] =
                [open[Row.track] EXCEPT ![Len(open[Row.track])] =
                   [Last(open[Row.track]) EXCEPT !.exit = Row.call]]]
  /\ UNCHANGED <<pending, exported>>
QuietExit ==
  /\ Row.kind = "end" /\ open[Row.track] # <<>> /\ Last(open[Row.track]).exit # None
  /\ open' = [open EXCEPT ![Row.track] = Front(open[Row.track])]
  /\ pending' = pending
  /\ exported' = exported \cup {Export([Last(open[Row.track]) EXCEPT !.closedIn = Row.source],
                                       "real_exit")}
QuietClose ==
  /\ Row.kind = "end" /\ open[Row.track] # <<>> /\ Last(open[Row.track]).exit = None
  /\ open' = [open EXCEPT ![Row.track] = Front(open[Row.track])]
  /\ pending' = [pending EXCEPT ![Row.track] =
                   Append(pending[Row.track],
                          [Last(open[Row.track]) EXCEPT !.closedIn = Row.source, !.closes = @ + 1])]
  /\ UNCHANGED exported
Quiet ==
  /\ phase = "verify" /\ done < Len(rows) /\ issues = {} /\ ~Regressed /\ done' = done + 1
  /\ AtBoundary => \A t \in Tracks : open[t] = <<>>
  /\ Opened = open
  /\ UNCHANGED <<recording, indexed, phase>>
  /\ QuietEnter \/ QuietReopen \/ QuietProbe \/ QuietExit \/ QuietClose

LEMMA FlushedNothing ==
  ASSUME Kept, Row.track \in Tracks, FlushCodes = {}
  PROVE  Flushed = {} /\ pending[Row.track] = <<>>
<1>1. Flushed = {}
  BY DEF FlushCodes
<1>2. pending[Row.track] \in Seq(Settled)
  BY FlushedSettled
<1>3. ToSet(pending[Row.track]) = {}
  BY <1>1 DEF Flushed
<1>4. DOMAIN pending[Row.track] = {}
  <2>1. ASSUME NEW n \in DOMAIN pending[Row.track] PROVE FALSE
    <3>1. pending[Row.track][n] \in ToSet(pending[Row.track])
      BY <2>1 DEF ToSet
    <3> QED BY <1>3, <3>1
  <2> QED BY <2>1
<1> QED BY <1>1, <1>2, <1>4, NothingIn

LEMMA EnterQuiet ==
  ASSUME OracleInv, Logged, Kept, Tidy, VerifyEnter, issues' = {}
  PROVE  Quiet
<1>1. /\ phase = "verify" /\ done < Len(rows) /\ Row.kind = "enter"
      /\ Handle(Append(Opened[Row.track], NewInvocation(TRUE)), <<>>, Flushed, FlushCodes)
  BY DEF VerifyEnter, Verifying
<1>2. Row.track \in Tracks
  BY <1>1, RowLogged
<1>3. PICK s, x, codes : /\ s = Append(Opened[Row.track], NewInvocation(TRUE))
                         /\ x = Flushed /\ codes = FlushCodes
  OBVIOUS
<1>4. Handle(s, <<>>, x, codes)
  BY <1>1, <1>3
<1>5. /\ issues = {} /\ codes = {} /\ ~Regressed /\ done' = done + 1
      /\ AtBoundary => \A t \in Tracks : open[t] = <<>>
      /\ Opened = open
      /\ open' = [open EXCEPT ![Row.track] = s]
      /\ pending' = [pending EXCEPT ![Row.track] = <<>>]
      /\ exported' = exported \cup x
      /\ UNCHANGED <<recording, indexed, phase>>
  BY <1>4, HandleQuiet
<1>6. Flushed = {} /\ pending[Row.track] = <<>>
  BY <1>2, <1>3, <1>5, FlushedNothing
<1>7. pending' = pending
  BY <1>2, <1>5, <1>6 DEF Kept
<1>8. QuietEnter
  BY <1>1, <1>3, <1>5, <1>6, <1>7 DEF QuietEnter
<1> QED BY <1>1, <1>5, <1>8 DEF Quiet

LEMMA ReopenQuiet ==
  ASSUME OracleInv, Logged, Kept, Tidy, VerifyReopen, issues' = {}
  PROVE  Quiet
<1> DEFINE w     == pending[Row.track]
           found == {n \in DOMAIN w : Reopenable(w[n])}
           q     == Opened[Row.track]
           i     == [w[Max(found)] EXCEPT !.reopens = @ + 1, !.closedIn = None]
           code  == IF w = <<>> THEN "unexpected_synthetic_reopen" ELSE "synthetic_reopen_mismatch"
           order == IF Max(found) = Len(w) THEN {} ELSE {"synthetic_reopen_order_mismatch"}
<1>1. /\ phase = "verify" /\ done < Len(rows) /\ Row.kind = "reopen"
      /\ \/ found = {} /\ \E s : Handle(s, w, {}, {code})
         \/ found # {} /\ Handle(Append(q, i), RemoveAt(w, Max(found)), {}, order)
  BY DEF VerifyReopen, Verifying
<1>2. Row.track \in Tracks
  BY <1>1, RowLogged
<1>3. w \in Seq(Settled)
  BY <1>2, FlushedSettled
<1>4. DOMAIN w = 1..Len(w) /\ Len(w) \in Nat
  BY <1>3, SeqSettled
<1>5. \A n \in found : n \in DOMAIN w /\ Reopenable(w[n])
  OBVIOUS
<1>6. found \in SUBSET (0..Len(w))
  BY <1>4
<1> HIDE DEF w, found, q, i, code, order
<1>7. ASSUME found = {}, NEW s, Handle(s, w, {}, {code}) PROVE FALSE
  <2>1. PICK codes : codes = {code}
    OBVIOUS
  <2>2. Handle(s, w, {}, codes)
    BY <1>7, <2>1
  <2>3. codes = {}
    BY <2>2, HandleQuiet
  <2> QED BY <2>1, <2>3
<1>8. /\ found # {} /\ Handle(Append(q, i), RemoveAt(w, Max(found)), {}, order)
  BY <1>1, <1>7
<1>9. PICK m : m = Max(found)
  OBVIOUS
<1>10. m \in found
  BY <1>6, <1>8, <1>9, LargestIs, <1>4
<1>11. PICK s, v : s = Append(q, i) /\ v = RemoveAt(w, m)
  OBVIOUS
<1>12. Handle(s, v, {}, order)
  BY <1>8, <1>9, <1>11
<1>13. /\ issues = {} /\ order = {} /\ ~Regressed /\ done' = done + 1
       /\ AtBoundary => \A t \in Tracks : open[t] = <<>>
       /\ Opened = open
       /\ open' = [open EXCEPT ![Row.track] = s]
       /\ pending' = [pending EXCEPT ![Row.track] = v]
       /\ exported' = exported \cup {}
       /\ UNCHANGED <<recording, indexed, phase>>
  BY <1>12, HandleQuiet
<1>14. m = Len(w)
  BY <1>9, <1>13 DEF order
<1>15. m \in DOMAIN w /\ Matches(w[m], Row)
  BY <1>5, <1>10 DEF Reopenable
<1>16. w # <<>> /\ Last(w) = w[m] /\ v = Front(w)
  <2>1. w # <<>>
    BY <1>15
  <2>2. v = Front(w)
    BY <1>3, <1>11, <1>14, <1>15, LastRemoved
  <2> QED BY <1>3, <1>14, <2>1, <2>2, FrontIs
<1>17. QuietReopen
  <2>1. s = Append(open[Row.track], [Last(w) EXCEPT !.reopens = @ + 1, !.closedIn = None])
    BY <1>9, <1>11, <1>13, <1>16 DEF q, i
  <2> QED BY <1>1, <1>13, <1>15, <1>16, <2>1 DEF QuietReopen, w
<1> QED BY <1>1, <1>13, <1>17 DEF Quiet

LEMMA ProbeQuiet ==
  ASSUME OracleInv, Logged, Kept, Tidy, VerifyExitProbe, issues' = {}
  PROVE  Quiet
<1> DEFINE q     == Opened[Row.track]
           n     == Exiting(q)
           order == IF n = Len(q) THEN {} ELSE {"exit_probe_out_of_order"}
           none  == IF q = <<>> THEN "unexpected_exit_probe" ELSE "exit_probe_mismatch"
           orphan == IF q[n].real THEN {} ELSE {"orphan_synthetic_exit"}
           r     == [q EXCEPT ![n].exit = Row.call]
<1>1. /\ phase = "verify" /\ done < Len(rows) /\ Row.kind = "probe"
      /\ \/ Handle(q, <<>>, Flushed, FlushCodes \cup {none})
         \/ Handle(q, <<>>, Flushed, FlushCodes \cup order \cup {"duplicate_exit_probe"})
         \/ /\ n # 0 /\ q[n].exit = None
            /\ Handle(r, <<>>, Flushed, FlushCodes \cup order \cup orphan)
  BY DEF VerifyExitProbe, Verifying
<1>2. Row.track \in Tracks
  BY <1>1, RowLogged
<1>3. q \in Seq(Settled)
  BY <1>2, FlushedSettled
<1>4. r = [q EXCEPT ![n] = [q[n] EXCEPT !.exit = Row.call]]
  OBVIOUS
<1> HIDE DEF q, n, order, none, orphan, r
<1>5. PICK x, first, second, third :
        /\ x = Flushed /\ first = FlushCodes \cup {none}
        /\ second = FlushCodes \cup order \cup {"duplicate_exit_probe"}
        /\ third = FlushCodes \cup order \cup orphan
  OBVIOUS
<1>6. ~Handle(q, <<>>, x, first)
  <2>1. first # {}
    BY <1>5
  <2> QED BY <2>1, HandleQuiet
<1>7. ~Handle(q, <<>>, x, second)
  <2>1. second # {}
    BY <1>5
  <2> QED BY <2>1, HandleQuiet
<1>8. n # 0 /\ q[n].exit = None /\ Handle(r, <<>>, x, third)
  BY <1>1, <1>5, <1>6, <1>7
<1>9. /\ issues = {} /\ third = {} /\ ~Regressed /\ done' = done + 1
      /\ AtBoundary => \A t \in Tracks : open[t] = <<>>
      /\ Opened = open
      /\ open' = [open EXCEPT ![Row.track] = r]
      /\ pending' = [pending EXCEPT ![Row.track] = <<>>]
      /\ exported' = exported \cup x
      /\ UNCHANGED <<recording, indexed, phase>>
  BY <1>8, HandleQuiet
<1>10. FlushCodes = {} /\ order = {}
  BY <1>5, <1>9
<1>11. Flushed = {} /\ pending[Row.track] = <<>>
  BY <1>2, <1>10, FlushedNothing
<1>12. pending' = pending /\ exported' = exported
  BY <1>2, <1>5, <1>9, <1>11 DEF Kept
<1>13. n = Len(q)
  BY <1>10 DEF order
<1>14. q # <<>> /\ Last(q) = q[n] /\ q = open[Row.track]
  <2>1. q # <<>>
    BY <1>8, <1>13
  <2> QED BY <1>3, <1>9, <1>13, <2>1, FrontIs DEF q
<1>15. QuietProbe
  <2>1. Exiting(q) = Len(q)
    BY <1>13 DEF n
  <2>2. r = [q EXCEPT ![Len(q)] = [Last(q) EXCEPT !.exit = Row.call]]
    BY <1>4, <1>13, <1>14
  <2> QED BY <1>1, <1>8, <1>9, <1>11, <1>12, <1>14, <2>1, <2>2 DEF QuietProbe
<1> QED BY <1>1, <1>9, <1>15 DEF Quiet

LEMMA SliceEndQuiet ==
  ASSUME OracleInv, Logged, Kept, Tidy, VerifySliceEnd, issues' = {}
  PROVE  Quiet
<1> DEFINE q == Opened[Row.track]
           w == pending[Row.track]
           i == [Last(q) EXCEPT !.closedIn = Row.source]
           j == [i EXCEPT !.closes = @ + 1]
           s == Front(q)
<1>1. /\ phase = "verify" /\ done < Len(rows) /\ Row.kind = "end"
      /\ \/ Handle(q, w, {}, {"unexpected_slice_end"})
         \/ q # <<>> /\ ~i.real /\ Handle(s, w, {}, {})
         \/ q # <<>> /\ i.exit # None /\ Handle(s, w, {Export(i, "real_exit")}, {})
         \/ q # <<>> /\ i.exit = None /\ Handle(s, Append(w, j), {}, {})
         \/ Handle(s, w, {Export(i, "missing_exit")}, {"missing_exit_probe"})
  BY DEF VerifySliceEnd, Verifying
<1>2. Row.track \in Tracks /\ Row.source \in Nat
  BY <1>1, RowLogged
<1>3. q \in Seq(Settled)
  BY <1>2, FlushedSettled
<1>4. issues = {}
  BY <1>1, HandleQuiet
<1>5. open \in [Tracks -> Seq(Tidies)] /\ pending \in [Tracks -> Seq(Halves)]
  BY <1>4 DEF Tidy
<1>6. q # <<>> => /\ i.real = Last(q).real /\ i.exit = Last(q).exit
                  /\ Last(q) \in Settled
                  /\ j = [Last(q) EXCEPT !.closedIn = Row.source, !.closes = @ + 1]
  <2> SUFFICES ASSUME q # <<>>
               PROVE  /\ i.real = Last(q).real /\ i.exit = Last(q).exit
                      /\ Last(q) \in Settled
                      /\ j = [Last(q) EXCEPT !.closedIn = Row.source, !.closes = @ + 1]
    OBVIOUS
  <2>1. Last(q) = q[Len(q)] /\ Len(q) \in DOMAIN q
    BY <1>3, FrontIs
  <2>2. Last(q) \in Settled
    BY <1>3, <2>1, SeqSettled
  <2>3. PICK a : a = Last(q)
    OBVIOUS
  <2>4. a \in Invocations
    BY <2>2, <2>3 DEF Settled
  <2>5. /\ [a EXCEPT !.closedIn = Row.source].real = a.real
        /\ [a EXCEPT !.closedIn = Row.source].exit = a.exit
    BY <2>4 DEF Invocations
  <2>6. [[a EXCEPT !.closedIn = Row.source] EXCEPT !.closes = @ + 1]
          = [a EXCEPT !.closedIn = Row.source, !.closes = @ + 1]
    OBVIOUS
  <2> QED BY <2>2, <2>3, <2>5, <2>6
<1> HIDE DEF q, w, i, j, s
<1>7. PICK x, y, v : x = {Export(i, "real_exit")} /\ y = {Export(i, "missing_exit")} /\ v = Append(w, j)
  OBVIOUS
<1>8. ~Handle(q, w, {}, {"unexpected_slice_end"}) /\ ~Handle(s, w, y, {"missing_exit_probe"})
  <2>1. PICK a, b : a = {"unexpected_slice_end"} /\ b = {"missing_exit_probe"}
    OBVIOUS
  <2>2. ~Handle(q, w, {}, a) /\ ~Handle(s, w, y, b)
    BY <2>1, HandleQuiet
  <2> QED BY <2>1, <2>2
<1>9. /\ q # <<>>
      /\ \/ ~i.real /\ Handle(s, w, {}, {})
         \/ i.exit # None /\ Handle(s, w, x, {})
         \/ i.exit = None /\ Handle(s, v, {}, {})
  BY <1>1, <1>7, <1>8
<1>10. /\ ~Regressed /\ done' = done + 1
       /\ AtBoundary => \A t \in Tracks : open[t] = <<>>
       /\ Opened = open
       /\ open' = [open EXCEPT ![Row.track] = s]
       /\ UNCHANGED <<recording, indexed, phase>>
       /\ \/ ~i.real
          \/ /\ i.exit # None /\ pending' = [pending EXCEPT ![Row.track] = w]
             /\ exported' = exported \cup x
          \/ /\ i.exit = None /\ pending' = [pending EXCEPT ![Row.track] = v]
             /\ exported' = exported \cup {}
  BY <1>9, HandleQuiet
<1>11. q = open[Row.track] /\ w = pending[Row.track]
  BY <1>10 DEF q, w
<1>12. i.real
  <2>1. q \in Seq(Tidies)
    BY <1>2, <1>5, <1>11
  <2>2. Last(q) = q[Len(q)] /\ Len(q) \in DOMAIN q
    BY <1>3, <1>9, FrontIs
  <2>3. Last(q) \in Tidies
    BY <2>1, <2>2, SeqSettled
  <2> QED BY <1>6, <1>9, <2>3 DEF Tidies
<1>13. [pending EXCEPT ![Row.track] = w] = pending
  BY <1>2, <1>5, <1>11
<1>14. open' = [open EXCEPT ![Row.track] = Front(open[Row.track])]
  BY <1>10, <1>11 DEF s
<1>15. CASE i.exit # None
  <2>1. pending' = pending /\ exported' = exported \cup x
    BY <1>10, <1>12, <1>13, <1>15
  <2>2. QuietExit
    BY <1>1, <1>6, <1>7, <1>9, <1>11, <1>14, <1>15, <2>1 DEF QuietExit, i
  <2> QED BY <1>1, <1>4, <1>10, <2>2 DEF Quiet
<1>16. CASE i.exit = None
  <2>1. pending' = [pending EXCEPT ![Row.track] = v] /\ exported' = exported
    BY <1>10, <1>12, <1>16
  <2>2. QuietClose
    BY <1>1, <1>6, <1>7, <1>9, <1>11, <1>14, <1>16, <2>1 DEF QuietClose
  <2> QED BY <1>1, <1>4, <1>10, <2>2 DEF Quiet
<1> QED BY <1>15, <1>16

LEMMA RowQuiet ==
  ASSUME OracleInv, Logged, Kept, Tidy, issues' = {},
         VerifyEnter \/ VerifyReopen \/ VerifyExitProbe \/ VerifySliceEnd
  PROVE  Quiet
BY EnterQuiet, ReopenQuiet, ProbeQuiet, SliceEndQuiet

LEMMA TidyParts ==
  ASSUME NEW i \in Invocations
  PROVE  /\ \A x \in Nat : [i EXCEPT !.closedIn = x] \in Invocations
         /\ \A x \in Nat : i \in Tidies => /\ [i EXCEPT !.closedIn = x] \in Tidies
                                           /\ [i EXCEPT !.closedIn = x].exit = i.exit
         /\ \A x \in Nat : i \in Tidies => [i EXCEPT !.exit = x] \in Tidies
         /\ \A x \in Nat : i \in Tidies /\ i.exit = None =>
              [i EXCEPT !.closedIn = x, !.closes = @ + 1] \in Halves
         /\ i \in Halves => [i EXCEPT !.reopens = @ + 1, !.closedIn = None] \in Tidies
<1>1. ASSUME NEW x \in Nat PROVE [i EXCEPT !.closedIn = x] \in Invocations
  BY <1>1 DEF Invocations
<1>2. ASSUME NEW x \in Nat, i \in Tidies
      PROVE  [i EXCEPT !.closedIn = x] \in Tidies /\ [i EXCEPT !.closedIn = x].exit = i.exit
  BY <1>2 DEF Invocations, Tidies
<1>3. ASSUME NEW x \in Nat, i \in Tidies PROVE [i EXCEPT !.exit = x] \in Tidies
  BY <1>3 DEF Invocations, Tidies
<1>4. ASSUME NEW x \in Nat, i \in Tidies, i.exit = None
      PROVE  [i EXCEPT !.closedIn = x, !.closes = @ + 1] \in Halves
  <2> DEFINE j == [i EXCEPT !.closedIn = x, !.closes = @ + 1]
  <2>1. /\ j.call = i.call /\ j.function = i.function /\ j.id = i.id /\ j.real = i.real
        /\ j.exit = i.exit /\ j.reopens = i.reopens /\ j.closes = i.closes + 1
        /\ j \in Invocations
    <3> DEFINE e == [i EXCEPT !.closedIn = x]
               f == [e EXCEPT !.closes = @ + 1]
    <3>1. /\ e \in Invocations /\ e.exit = i.exit /\ e.call = i.call /\ e.function = i.function
          /\ e.id = i.id /\ e.real = i.real /\ e.closes = i.closes /\ e.reopens = i.reopens
      BY Invoked
    <3>2. j = f
      OBVIOUS
    <3> HIDE DEF j, e
    <3>3. /\ f \in Invocations /\ f.exit = e.exit /\ f.call = e.call /\ f.function = e.function
          /\ f.id = e.id /\ f.real = e.real /\ f.closes = e.closes + 1 /\ f.reopens = e.reopens
      BY <3>1, Invoked
    <3> HIDE DEF f
    <3> QED BY <3>1, <3>2, <3>3
  <2> HIDE DEF j
  <2>2. j \in Halves
    BY <1>4, <2>1 DEF Tidies, Halves
  <2> QED BY <2>2 DEF j
<1>5. ASSUME i \in Halves PROVE [i EXCEPT !.reopens = @ + 1, !.closedIn = None] \in Tidies
  <2> DEFINE j == [i EXCEPT !.reopens = @ + 1, !.closedIn = None]
  <2>1. j.real = i.real /\ j.reopens = i.reopens + 1 /\ j.closes = i.closes /\ j \in Invocations
    BY Invoked
  <2> HIDE DEF j
  <2>2. j \in Tidies
    BY <1>5, <2>1 DEF Tidies, Halves
  <2> QED BY <2>2 DEF j
<1> QED BY <1>1, <1>2, <1>3, <1>4, <1>5

LEMMA QuietTidy ==
  ASSUME OracleInv, Logged, Kept, Tidy, Quiet
  PROVE  Tidy'
<1>1. /\ phase = "verify" /\ done < Len(rows) /\ issues = {} /\ phase' = "verify"
      /\ QuietEnter \/ QuietReopen \/ QuietProbe \/ QuietExit \/ QuietClose
  BY DEF Quiet
<1>2. /\ Row.track \in Tracks /\ Row.source \in Nat /\ Row.call \in Nat \ {0}
      /\ CallOf(Row) \in Called
  BY <1>1, RowTyped
<1>3. /\ open \in [Tracks -> Seq(Tidies)] /\ pending \in [Tracks -> Seq(Halves)]
      /\ \A e \in exported : Fair(e)
  BY <1>1 DEF Tidy
<1>4. PICK q, w : q = open[Row.track] /\ w = pending[Row.track]
  OBVIOUS
<1>5. q \in Seq(Tidies) /\ w \in Seq(Halves)
  BY <1>2, <1>3, <1>4
<1>6. q # <<>> => Front(q) \in Seq(Tidies) /\ Last(q) \in Tidies /\ Len(q) \in 1..Len(q)
  <2> SUFFICES ASSUME q # <<>>
               PROVE Front(q) \in Seq(Tidies) /\ Last(q) \in Tidies /\ Len(q) \in 1..Len(q)
    OBVIOUS
  <2>1. Front(q) \in Seq(Tidies) /\ Last(q) = q[Len(q)] /\ Len(q) \in DOMAIN q /\ DOMAIN q = 1..Len(q)
    BY <1>5, FrontIs
  <2> QED BY <1>5, <2>1, SeqSettled
<1>7. w # <<>> => Front(w) \in Seq(Halves) /\ Last(w) \in Halves
  <2> SUFFICES ASSUME w # <<>> PROVE Front(w) \in Seq(Halves) /\ Last(w) \in Halves
    OBVIOUS
  <2>1. Front(w) \in Seq(Halves) /\ Last(w) = w[Len(w)] /\ Len(w) \in DOMAIN w
    BY <1>5, FrontIs
  <2> QED BY <1>5, <2>1, SeqSettled
<1>8. CASE QuietEnter
  <2>1. PICK i : i = NewInvocation(TRUE)
    OBVIOUS
  <2>2. i \in Tidies
    <3>1. i.real /\ i.closes = 0 /\ i.reopens = 0
      BY <2>1 DEF NewInvocation
    <3>2. i \in Invocations
      <4>1. Row.kind # "end"
        BY <1>8 DEF QuietEnter
      <4>2. i \in Settled
        BY <1>1, <2>1, <4>1, NewSettled
      <4> QED BY <4>2 DEF Settled
    <3> QED BY <3>1, <3>2 DEF Tidies
  <2>3. PICK s : s = Append(q, i)
    OBVIOUS
  <2>4. s \in Seq(Tidies)
    BY <1>5, <2>2, <2>3, AppendProperties
  <2>5. open' = [open EXCEPT ![Row.track] = s] /\ pending' = pending /\ exported' = exported
    BY <1>4, <1>8, <2>1, <2>3 DEF QuietEnter
  <2> QED BY <1>1, <1>2, <1>3, <2>4, <2>5 DEF Tidy, Fair
<1>9. CASE QuietReopen
  <2>1. PICK i : i = [Last(w) EXCEPT !.reopens = @ + 1, !.closedIn = None]
    OBVIOUS
  <2>2. PICK s, v : s = Append(q, i) /\ v = Front(w)
    OBVIOUS
  <2>3. /\ w # <<>> /\ open' = [open EXCEPT ![Row.track] = s]
        /\ pending' = [pending EXCEPT ![Row.track] = v] /\ exported' = exported
    BY <1>4, <1>9, <2>1, <2>2 DEF QuietReopen
  <2>4. i \in Tidies
    <3>1. PICK j : j = Last(w)
      OBVIOUS
    <3>2. j \in Halves /\ j \in Invocations
      BY <1>7, <2>3, <3>1 DEF Halves
    <3> QED BY <2>1, <3>1, <3>2, TidyParts
  <2>5. s \in Seq(Tidies) /\ v \in Seq(Halves)
    BY <1>5, <1>7, <2>2, <2>3, <2>4, AppendProperties
  <2> QED BY <1>1, <1>2, <1>3, <2>3, <2>5 DEF Tidy, Fair
<1>10. CASE QuietProbe
  <2>1. PICK i : i = [Last(q) EXCEPT !.exit = Row.call]
    OBVIOUS
  <2>2. PICK s : s = [q EXCEPT ![Len(q)] = i]
    OBVIOUS
  <2>3. /\ q # <<>> /\ open' = [open EXCEPT ![Row.track] = s]
        /\ pending' = pending /\ exported' = exported
    BY <1>4, <1>10, <2>1, <2>2 DEF QuietProbe
  <2>4. i \in Tidies
    <3>1. PICK j, c : j = Last(q) /\ c = Row.call
      OBVIOUS
    <3>2. j \in Tidies /\ j \in Invocations /\ c \in Nat
      BY <1>2, <1>6, <2>3, <3>1 DEF Tidies
    <3> QED BY <2>1, <3>1, <3>2, TidyParts
  <2>5. s \in Seq(Tidies)
    BY <1>5, <1>6, <2>2, <2>3, <2>4, ExceptSeq
  <2> QED BY <1>1, <1>2, <1>3, <2>3, <2>5 DEF Tidy, Fair
<1>11. CASE QuietExit
  <2>1. PICK i, s : i = [Last(q) EXCEPT !.closedIn = Row.source] /\ s = Front(q)
    OBVIOUS
  <2>2. /\ q # <<>> /\ open' = [open EXCEPT ![Row.track] = s] /\ Last(q).exit # None
        /\ pending' = pending /\ exported' = exported \cup {Export(i, "real_exit")}
    BY <1>4, <1>11, <2>1 DEF QuietExit
  <2>3. i \in Tidies /\ i.exit # None
    <3>1. PICK j, c : j = Last(q) /\ c = Row.source
      OBVIOUS
    <3>2. j \in Tidies /\ j \in Invocations /\ c \in Nat
      BY <1>2, <1>6, <2>2, <3>1 DEF Tidies
    <3> QED BY <2>1, <2>2, <3>1, <3>2, TidyParts
  <2>4. Fair(Export(i, "real_exit"))
    BY <2>3 DEF Fair, Export
  <2>5. s \in Seq(Tidies)
    BY <1>6, <2>1, <2>2
  <2>6. \A e \in exported' : Fair(e)
    BY <1>3, <2>2, <2>4
  <2> QED BY <1>1, <1>2, <1>3, <2>2, <2>5, <2>6 DEF Tidy, Fair
<1>12. CASE QuietClose
  <2>1. PICK i, s, v : /\ i = [Last(q) EXCEPT !.closedIn = Row.source, !.closes = @ + 1]
                       /\ s = Front(q) /\ v = Append(w, i)
    OBVIOUS
  <2>2. /\ q # <<>> /\ open' = [open EXCEPT ![Row.track] = s] /\ Last(q).exit = None
        /\ pending' = [pending EXCEPT ![Row.track] = v] /\ exported' = exported
    BY <1>4, <1>12, <2>1 DEF QuietClose
  <2>3. i \in Halves
    <3>1. PICK j, c : j = Last(q) /\ c = Row.source
      OBVIOUS
    <3>2. j \in Tidies /\ j \in Invocations /\ c \in Nat
      BY <1>2, <1>6, <2>2, <3>1 DEF Tidies
    <3> QED BY <2>1, <2>2, <3>1, <3>2, TidyParts
  <2>4. s \in Seq(Tidies) /\ v \in Seq(Halves)
    BY <1>5, <1>6, <2>1, <2>2, <2>3, AppendProperties
  <2> QED BY <1>1, <1>2, <1>3, <2>2, <2>4 DEF Tidy, Fair
<1> QED BY <1>1, <1>8, <1>9, <1>10, <1>11, <1>12

LEMMA FinishTidy ==
  ASSUME Kept, Tidy, VerifyFinish
  PROVE  /\ Tidy'
         /\ issues' = {} => /\ exported' = exported /\ issues = {}
                            /\ \A t \in Tracks : open[t] = <<>> /\ pending[t] = <<>>
<1> DEFINE empty == [t \in Tracks |-> <<>>]
<1>1. /\ open' = empty /\ pending' = empty /\ phase' = "verified"
      /\ exported' = exported \cup FinalPending \cup FinalOpen
      /\ issues' = issues \cup {<<CodeOf(e.kind), At>> : e \in FinalPending \cup FinalOpen}
  BY DEF VerifyFinish
<1>2. ASSUME issues' = {}
      PROVE  /\ issues = {} /\ exported' = exported /\ FinalPending = {} /\ FinalOpen = {}
  <2>1. issues = {} /\ {<<CodeOf(e.kind), At>> : e \in FinalPending \cup FinalOpen} = {}
    BY <1>1, <1>2
  <2>2. FinalPending \cup FinalOpen = {}
    BY <2>1
  <2> QED BY <1>1, <2>1, <2>2
<1>3. empty \in [Tracks -> Seq(Tidies)] /\ empty \in [Tracks -> Seq(Halves)]
  OBVIOUS
<1>4. Tidy'
  BY <1>1, <1>2, <1>3 DEF Tidy, Fair
<1>5. ASSUME issues' = {}, NEW t \in Tracks PROVE open[t] = <<>> /\ pending[t] = <<>>
  <2>1. open[t] \in Seq(Tidies) /\ pending[t] \in Seq(Halves)
    BY <1>2, <1>5 DEF Tidy
  <2>2. Unclosed = {} /\ UNION {ToSet(pending[u]) : u \in Tracks} = {}
    BY <1>2, <1>5 DEF FinalPending, FinalOpen
  <2>3. ASSUME NEW n \in DOMAIN open[t] PROVE FALSE
    <3>1. open[t][n] \in ToSet(open[t]) /\ open[t][n] \in Tidies
      BY <2>1, <2>3, SeqSettled DEF ToSet
    <3> QED BY <2>2, <3>1 DEF Unclosed, Tidies
  <2>4. ASSUME NEW n \in DOMAIN pending[t] PROVE FALSE
    <3>1. pending[t][n] \in ToSet(pending[t])
      BY <2>4 DEF ToSet
    <3> QED BY <2>2, <3>1
  <2> QED BY <2>1, <2>3, <2>4, NothingIn
<1> QED BY <1>2, <1>4, <1>5

LEMMA BuildTidy ==
  ASSUME Kept, Tidy,
         \/ BuildAll \/ \E n \in DOMAIN chunks : BuildWithout(n)
         \/ \E n \in 1..(Len(chunks) - 1) : BuildSwapped(n)
  PROVE  Tidy'
<1>1. /\ phase = "record" /\ phase' = "verify" /\ UNCHANGED <<done, open, pending, exported>>
  BY DEF BuildAll, BuildWithout, BuildSwapped, Build
<1> QED BY <1>1 DEF Tidy, Fair

LEMMA TidyStep ==
  ASSUME IndexInv, Tidy, [Next]_vars
  PROVE  Tidy'
<1>1. OracleInv /\ Logged /\ Kept
  BY DEF IndexInv
<1>2. CASE UNCHANGED vars
  BY <1>2 DEF vars, verifying, Tidy, Fair
<1>3. CASE \/ \E t \in Tracks, f \in Functions : Enter(t, f)
           \/ \E t \in Tracks : Return(t) \/ ReturnUnprobed(t)
           \/ \E t \in Tracks, f \in {"twice", "unended"} : ReturnMalformed(t, f)
           \/ Drop \/ Rotate \/ Crash
  <2>1. UNCHANGED <<verifying, phase>>
    BY <1>3 DEF Enter, Return, ReturnUnprobed, ReturnMalformed, Drop, Rotate, Crash
  <2> QED BY <2>1 DEF verifying, Tidy, Fair
<1>4. CASE \/ BuildAll \/ \E n \in DOMAIN chunks : BuildWithout(n)
           \/ \E n \in 1..(Len(chunks) - 1) : BuildSwapped(n)
  BY <1>1, <1>4, BuildTidy
<1>5. CASE VerifyEnter \/ VerifyReopen \/ VerifyExitProbe \/ VerifySliceEnd
  <2>1. CASE issues' = {}
    BY <1>1, <1>5, <2>1, RowQuiet, QuietTidy
  <2>2. CASE issues' # {}
    <3>1. phase' = phase /\ phase = "verify"
      BY <1>5 DEF VerifyEnter, VerifyReopen, VerifyExitProbe, VerifySliceEnd, Verifying, Handle
    <3> QED BY <2>2, <3>1 DEF Tidy
  <2> QED BY <2>1, <2>2
<1>6. CASE VerifyFinish
  BY <1>1, <1>6, FinishTidy
<1> QED BY <1>2, <1>3, <1>4, <1>5, <1>6 DEF Next

----------------------------------------------------------------------------
(* What each action of the recorder adds to the chunks.                      *)
LEMMA EnterEvents ==
  ASSUME Recorded, NEW t \in Tracks, NEW f \in Functions, Enter(t, f)
  PROVE  \E e : /\ Extended(chunks', chunks, <<e>>)
                /\ e.kind = "enter" /\ e.track = t /\ e.call = calls + 1
                /\ e.sequence = SequenceNow + 1
<1> DEFINE c == [call |-> calls + 1, function |-> f]
           e == Event("enter", t, c, 1)
<1>1. Record(<<e>>) /\ calls' = calls + 1
  BY DEF Enter
<1>2. e.kind = "enter" /\ e.track = t /\ e.call = calls + 1 /\ e.sequence = SequenceNow + 1
  BY DEF Event
<1> HIDE DEF e
<1>3. PICK ev : ev = <<e>>
  OBVIOUS
<1>4. ev \in Seq({e})
  BY <1>3
<1>5. Extended(chunks', chunks, ev)
  BY <1>1, <1>3, <1>4, RecordExtends
<1> QED BY <1>2, <1>3, <1>5

(* A call that returns: at most two exit probes and the end of its slice.    *)
Malformed == {"missed", "twice", "unended"}
Returned(ev, t, c, f) ==
  /\ Len(ev) \in 1..3 /\ \E E : ev \in Seq(E)
  /\ \A k \in 1..Len(ev) :
       /\ ev[k].track = t /\ ev[k].call = c /\ ev[k].kind \in {"probe", "end"}
       /\ ev[k].kind = "end" <=> k = Len(ev) /\ f # "unended"
       /\ ev[k].sequence = IF ev[k].kind = "end" THEN None ELSE SequenceNow + k
  /\ f = "missed" => Len(ev) = 1
  /\ f = "twice" => Len(ev) = 3

LEMMA ReturnEvents ==
  ASSUME Recorded, NEW t \in Tracks,
         \/ Return(t) \/ ReturnUnprobed(t)
         \/ \E f \in {"twice", "unended"} : ReturnMalformed(t, f)
  PROVE  /\ active[t] # <<>> /\ active' = [active EXCEPT ![t] = Front(active[t])]
         /\ calls' = calls /\ identified' = identified /\ phase = "record"
         /\ UNCHANGED <<indexed, verifying, phase>>
         /\ \E ev, f : /\ Extended(chunks', chunks, ev) /\ Returned(ev, t, Last(active[t]).call, f)
                       /\ \/ f = "none" /\ faults' = faults
                          \/ f \in Malformed /\ faults' = faults \cup {f}
<1> DEFINE c    == Last(active[t])
           p(k) == Event("probe", t, c, k)
           e(k) == Event("end", t, c, k)
<1>1. \A k : /\ p(k).track = t /\ p(k).call = c.call /\ p(k).kind = "probe"
             /\ p(k).sequence = SequenceNow + k
             /\ e(k).track = t /\ e(k).call = c.call /\ e(k).kind = "end"
             /\ e(k).sequence = None
  BY DEF Event
<1>2. /\ active[t] # <<>> /\ active' = [active EXCEPT ![t] = Front(active[t])]
      /\ calls' = calls /\ identified' = identified /\ phase = "record"
      /\ UNCHANGED <<indexed, verifying, phase>>
  BY DEF Return, ReturnUnprobed, ReturnMalformed
<1>3. PICK z, f :
        /\ Record(z)
        /\ \/ f = "none" /\ faults' = faults /\ z = <<p(1), e(2)>>
           \/ f = "missed" /\ faults' = faults \cup {f} /\ z = <<e(1)>>
           \/ f = "twice" /\ faults' = faults \cup {f} /\ z = <<p(1), p(2), e(3)>>
           \/ f = "unended" /\ faults' = faults \cup {f} /\ z = <<p(1)>>
  BY DEF Return, ReturnUnprobed, ReturnMalformed, Fault
<1> HIDE DEF p, e
<1>4. Returned(z, t, c.call, f)
  <2>0. PICK d, now : d = c.call /\ now = SequenceNow
    OBVIOUS
  <2> HIDE DEF c
  <2>1. CASE f = "none"
    <3>1. z = <<p(1), e(2)>> /\ Len(z) = 2
      BY <1>3, <2>1
    <3>2. z \in Seq({p(1), e(2)}) /\ z[1] = p(1) /\ z[2] = e(2)
      BY <3>1
    <3>3. \A k \in 1..2 : k = 1 \/ k = 2
      OBVIOUS
    <3>4. /\ z[1].track = t /\ z[1].call = d /\ z[1].kind = "probe" /\ z[1].sequence = now + 1
          /\ z[2].track = t /\ z[2].call = d /\ z[2].kind = "end" /\ z[2].sequence = None
      BY <1>1, <2>0, <3>2
    <3>5. \A k \in 1..Len(z) :
            /\ z[k].track = t /\ z[k].call = d /\ z[k].kind \in {"probe", "end"}
            /\ z[k].kind = "end" <=> k = Len(z) /\ f # "unended"
            /\ z[k].sequence = IF z[k].kind = "end" THEN None ELSE now + k
      BY <2>1, <3>1, <3>3, <3>4
    <3>6. \E E : z \in Seq(E)
      BY <3>2
    <3>7. Len(z) \in 1..3 /\ (f = "missed" => Len(z) = 1) /\ (f = "twice" => Len(z) = 3)
      BY <2>1, <3>1
    <3>8. Returned(z, t, d, f)
      BY <2>0, <3>5, <3>6, <3>7 DEF Returned
    <3> QED BY <2>0, <3>8
  <2>2. CASE f = "missed"
    <3>1. z = <<e(1)>> /\ Len(z) = 1
      BY <1>3, <2>2
    <3>2. z \in Seq({e(1)}) /\ z[1] = e(1)
      BY <3>1
    <3>3. \A k \in 1..1 : k = 1
      OBVIOUS
    <3>4. /\ z[1].track = t /\ z[1].call = d /\ z[1].kind = "end" /\ z[1].sequence = None
      BY <1>1, <2>0, <3>2
    <3>5. \A k \in 1..Len(z) :
            /\ z[k].track = t /\ z[k].call = d /\ z[k].kind \in {"probe", "end"}
            /\ z[k].kind = "end" <=> k = Len(z) /\ f # "unended"
            /\ z[k].sequence = IF z[k].kind = "end" THEN None ELSE now + k
      BY <2>2, <3>1, <3>3, <3>4
    <3>6. \E E : z \in Seq(E)
      BY <3>2
    <3>7. Len(z) \in 1..3 /\ (f = "missed" => Len(z) = 1) /\ (f = "twice" => Len(z) = 3)
      BY <2>2, <3>1
    <3>8. Returned(z, t, d, f)
      BY <2>0, <3>5, <3>6, <3>7 DEF Returned
    <3> QED BY <2>0, <3>8
  <2>3. CASE f = "twice"
    <3>1. z = <<p(1), p(2), e(3)>> /\ Len(z) = 3
      BY <1>3, <2>3
    <3>2. z \in Seq({p(1), p(2), e(3)}) /\ z[1] = p(1) /\ z[2] = p(2) /\ z[3] = e(3)
      BY <3>1
    <3>3. \A k \in 1..3 : k = 1 \/ k = 2 \/ k = 3
      OBVIOUS
    <3>4. /\ z[1].track = t /\ z[1].call = d /\ z[1].kind = "probe" /\ z[1].sequence = now + 1
          /\ z[2].track = t /\ z[2].call = d /\ z[2].kind = "probe" /\ z[2].sequence = now + 2
          /\ z[3].track = t /\ z[3].call = d /\ z[3].kind = "end" /\ z[3].sequence = None
      BY <1>1, <2>0, <3>2
    <3>5. \A k \in 1..Len(z) :
            /\ z[k].track = t /\ z[k].call = d /\ z[k].kind \in {"probe", "end"}
            /\ z[k].kind = "end" <=> k = Len(z) /\ f # "unended"
            /\ z[k].sequence = IF z[k].kind = "end" THEN None ELSE now + k
      BY <2>3, <3>1, <3>3, <3>4
    <3>6. \E E : z \in Seq(E)
      BY <3>2
    <3>7. Len(z) \in 1..3 /\ (f = "missed" => Len(z) = 1) /\ (f = "twice" => Len(z) = 3)
      BY <2>3, <3>1
    <3>8. Returned(z, t, d, f)
      BY <2>0, <3>5, <3>6, <3>7 DEF Returned
    <3> QED BY <2>0, <3>8
  <2>4. CASE f = "unended"
    <3>1. z = <<p(1)>> /\ Len(z) = 1
      BY <1>3, <2>4
    <3>2. z \in Seq({p(1)}) /\ z[1] = p(1)
      BY <3>1
    <3>3. \A k \in 1..1 : k = 1
      OBVIOUS
    <3>4. /\ z[1].track = t /\ z[1].call = d /\ z[1].kind = "probe" /\ z[1].sequence = now + 1
      BY <1>1, <2>0, <3>2
    <3>5. \A k \in 1..Len(z) :
            /\ z[k].track = t /\ z[k].call = d /\ z[k].kind \in {"probe", "end"}
            /\ z[k].kind = "end" <=> k = Len(z) /\ f # "unended"
            /\ z[k].sequence = IF z[k].kind = "end" THEN None ELSE now + k
      BY <2>4, <3>1, <3>3, <3>4
    <3>6. \E E : z \in Seq(E)
      BY <3>2
    <3>7. Len(z) \in 1..3 /\ (f = "missed" => Len(z) = 1) /\ (f = "twice" => Len(z) = 3)
      BY <2>4, <3>1
    <3>8. Returned(z, t, d, f)
      BY <2>0, <3>5, <3>6, <3>7 DEF Returned
    <3> QED BY <2>0, <3>8
  <2> QED BY <1>3, <2>1, <2>2, <2>3, <2>4
<1>5. Extended(chunks', chunks, z)
  <2>1. PICK E : z \in Seq(E)
    BY <1>4 DEF Returned
  <2> QED BY <1>3, <2>1, RecordExtends
<1>6. \/ f = "none" /\ faults' = faults
      \/ f \in Malformed /\ faults' = faults \cup {f}
  BY <1>3 DEF Malformed
<1> QED BY <1>2, <1>4, <1>5, <1>6

(* A boundary closes what is open in one chunk and reopens it in the next.   *)
Turns(closed, closes, reopened, K, J) ==
  /\ Len(closes) \in Nat /\ Len(reopened) \in Nat
  /\ Extended(closed, chunks, closes) /\ Added(chunks', closed, reopened)
  /\ \E D : closed \in Seq(Seq(D))
  /\ \E E : closes \in Seq(E)
  /\ Bordering(closes, active, "end", K) /\ Bordering(reopened, active, "reopen", J)
  /\ \A m \in 1..Len(closes) : closes[m].sequence = None
  /\ \A m \in 1..Len(reopened) : reopened[m].sequence = SequenceNow + Len(closes) + m

LEMMA RotateEvents ==
  ASSUME Recorded, Noted, Rotate
  PROVE  /\ \E closed, closes, reopened, K, J : Turns(closed, closes, reopened, K, J)
         /\ UNCHANGED <<active, calls, identified, faults, indexed, verifying, phase>>
         /\ phase = "record"
<1>1. Sized(chunks) /\ \E S : chunks \in Seq(Seq(S))
  BY ChunksSized
<1>2. PICK S : chunks \in Seq(Seq(S))
  BY <1>1
<1> DEFINE N      == Len(chunks)
           tracks == SetToSeq(Tracks)
           closes == Closes(tracks)
           opened == Reopens(tracks)
           reopened == [m \in DOMAIN opened |->
                          [opened[m] EXCEPT !.sequence = SequenceNow + Len(closes) + m]]
           closed == [chunks EXCEPT ![Len(chunks)] = @ \o closes]
<1>3. Stacks(active)
  BY DEF Recorded
<1>4. /\ chunks' = Append(Front(chunks) \o <<Last(chunks) \o closes>>, reopened)
      /\ UNCHANGED <<active, calls, identified, faults, indexed, verifying, phase>>
      /\ phase = "record"
  BY DEF Rotate
<1>5. PICK E : closes \in Seq(E)
  BY ClosesBordered
<1>6. PICK K : Bordering(closes, active, "end", K)
  BY ClosesBordered
<1>7. PICK F : opened \in Seq(F)
  BY ReopensBordered
<1>8. PICK J : Bordering(opened, active, "reopen", J)
  BY ReopensBordered
<1>9. /\ Len(closes) \in Nat /\ Len(opened) \in Nat /\ N \in Nat /\ N > 0
      /\ DOMAIN opened = 1..Len(opened) /\ DOMAIN closes = 1..Len(closes)
  BY <1>1, <1>5, <1>7, LenProperties DEF Sized
<1>10. \A m \in DOMAIN closes : closes[m].sequence = None
  BY <1>3, ClosesAre
<1>11. \A m \in DOMAIN opened :
         \E t \in Tracks : \E c, k : opened[m] = Event("reopen", t, c, k)
  BY <1>3, ReopensAre
<1>12. /\ DOMAIN reopened = DOMAIN opened /\ reopened = [m \in DOMAIN opened |-> reopened[m]]
       /\ \A m \in DOMAIN opened :
            reopened[m] = [opened[m] EXCEPT !.sequence = SequenceNow + Len(closes) + m]
  OBVIOUS
<1> HIDE DEF closes, opened, reopened
<1>13. \A m \in DOMAIN opened :
         /\ reopened[m].kind = opened[m].kind /\ reopened[m].track = opened[m].track
         /\ reopened[m].call = opened[m].call /\ reopened[m].function = opened[m].function
         /\ reopened[m].id = opened[m].id /\ reopened[m].sequence = SequenceNow + Len(closes) + m
  <2> TAKE m \in DOMAIN opened
  <2>1. PICK t \in Tracks : \E c, k : opened[m] = Event("reopen", t, c, k)
    BY <1>11
  <2>2. PICK c, k : opened[m] = Event("reopen", t, c, k)
    BY <2>1
  <2>3. PICK q : q = SequenceNow + Len(closes) + m
    OBVIOUS
  <2>4. reopened[m] = [opened[m] EXCEPT !.sequence = q]
    BY <1>12, <2>3
  <2>5. /\ reopened[m].kind = opened[m].kind /\ reopened[m].track = opened[m].track
        /\ reopened[m].call = opened[m].call /\ reopened[m].function = opened[m].function
        /\ reopened[m].id = opened[m].id /\ reopened[m].sequence = q
    BY <2>2, <2>4 DEF Event
  <2> QED BY <2>3, <2>5
<1>14. PICK G : reopened \in Seq(G) /\ Len(reopened) = Len(opened)
  <2> DEFINE G == {reopened[m] : m \in DOMAIN opened}
  <2>1. \A m \in DOMAIN opened : reopened[m] \in G
    OBVIOUS
  <2> HIDE DEF G
  <2>2. reopened \in [1..Len(opened) -> G]
    BY <1>9, <1>12, <2>1
  <2> QED BY <1>9, <2>2, FunctionIsSeq
<1>15. Bordering(reopened, active, "reopen", J)
  <2>1. \A m \in 1..Len(reopened) : Border(active, J[m - 1], J[m], reopened[m], "reopen")
    <3> TAKE m \in 1..Len(reopened)
    <3>1. m \in DOMAIN opened /\ m \in 1..Len(opened)
      BY <1>9, <1>14
    <3>2. Border(active, J[m - 1], J[m], opened[m], "reopen")
      BY <1>8, <3>1 DEF Bordering
    <3> QED BY <1>13, <3>1, <3>2, BorderSame
  <2> QED BY <1>8, <1>14, <2>1 DEF Bordering
<1>16. chunks' = Append(closed, reopened) /\ \E D : closed \in Seq(Seq(D))
  BY <1>2, <1>4, <1>5, <1>9, LastGrown
<1>17. Extended(closed, chunks, closes)
  BY <1>2, <1>5, <1>9, LastExtended
<1> HIDE DEF closed
<1>18. Added(chunks', closed, reopened)
  BY <1>14, <1>16, ChunkAppended
<1>19. Turns(closed, closes, reopened, K, J)
  BY <1>5, <1>6, <1>9, <1>10, <1>13, <1>14, <1>15, <1>16, <1>17, <1>18 DEF Turns
<1> QED BY <1>4, <1>19

----------------------------------------------------------------------------
(* What a missed or a doubled exit leaves in the recording: a call that was  *)
(* entered, is over and has no exit, and a call that has two.                *)
In(cs, kind, c) ==
  \E i \in 1..Len(cs) : \E p \in 1..Len(cs[i]) : cs[i][p].kind = kind /\ cs[i][p].call = c
Among(ev, kind, c) == \E k \in 1..Len(ev) : ev[k].kind = kind /\ ev[k].call = c
Gains(ds, cs, ev) == \A kind, c : In(ds, kind, c) <=> In(cs, kind, c) \/ Among(ev, kind, c)
Doubled(cs) ==
  \E i \in 1..Len(cs) : \E p, q \in 1..Len(cs[i]) :
    /\ p < q /\ cs[i][p].kind = "probe" /\ cs[i][q].kind = "probe"
    /\ cs[i][p].call = cs[i][q].call

LEMMA InExtended ==
  ASSUME NEW cs, NEW ds, NEW ev, Sized(cs), Len(ev) \in Nat, Extended(ds, cs, ev)
  PROVE  /\ Sized(ds)
         /\ Gains(ds, cs, ev)
         /\ Doubled(cs) => Doubled(ds)
         /\ (\E c : \E a, b \in 1..Len(ev) : /\ a < b /\ ev[a].kind = "probe" /\ ev[b].kind = "probe"
                                             /\ ev[a].call = c /\ ev[b].call = c) => Doubled(ds)
<1> DEFINE N == Len(cs)
<1>1. N \in Nat /\ N > 0 /\ N \in 1..N /\ \A i \in 1..N : Len(cs[i]) \in Nat
  BY DEF Sized
<1>2. /\ Len(ds) = N /\ \A i \in 1..N : i # N => ds[i] = cs[i]
      /\ Len(ds[N]) = Len(cs[N]) + Len(ev)
      /\ \A k \in 1..Len(cs[N]) : ds[N][k] = cs[N][k]
      /\ \A k \in 1..Len(ev) : ds[N][Len(cs[N]) + k] = ev[k]
  BY DEF Extended
<1> HIDE DEF N
<1>3. Sized(ds)
  <2>1. \A i \in 1..N : Len(ds[i]) \in Nat
    <3> TAKE i \in 1..N
    <3>1. CASE i = N
      BY <1>1, <1>2, <3>1
    <3>2. CASE i # N
      BY <1>1, <1>2, <3>2
    <3> QED BY <3>1, <3>2
  <2> QED BY <1>1, <1>2, <2>1 DEF Sized
<1>4. \A i \in 1..N : \A p \in 1..Len(cs[i]) : p \in 1..Len(ds[i]) /\ ds[i][p] = cs[i][p]
  <2> TAKE i \in 1..N
  <2> TAKE p \in 1..Len(cs[i])
  <2>1. CASE i = N
    BY <1>1, <1>2, <2>1
  <2>2. CASE i # N
    BY <1>1, <1>2, <2>2
  <2> QED BY <2>1, <2>2
<1>5. \A k \in 1..Len(ev) : Len(cs[N]) + k \in 1..Len(ds[N]) /\ ds[N][Len(cs[N]) + k] = ev[k]
  <2> TAKE k \in 1..Len(ev)
  <2>1. Len(cs[N]) \in Nat
    BY <1>1
  <2> QED BY <1>2, <2>1
<1>6. \A i \in 1..N : \A p \in 1..Len(ds[i]) :
        \/ p \in 1..Len(cs[i]) /\ ds[i][p] = cs[i][p]
        \/ \E k \in 1..Len(ev) : ds[i][p] = ev[k]
  <2> TAKE i \in 1..N
  <2> TAKE p \in 1..Len(ds[i])
  <2>1. CASE i = N /\ p > Len(cs[N])
    <3>1. PICK l : l = Len(cs[N])
      OBVIOUS
    <3>2. l \in Nat /\ p \in Nat /\ p <= l + Len(ev) /\ p > l
      BY <1>1, <1>2, <2>1, <3>1
    <3>3. p - l \in 1..Len(ev) /\ l + (p - l) = p
      BY <3>2
    <3> QED BY <1>2, <2>1, <3>1, <3>3
  <2>2. CASE i = N /\ ~(p > Len(cs[N]))
    <3>1. p \in 1..Len(cs[N])
      BY <1>1, <1>2, <2>2
    <3> QED BY <1>2, <2>2, <3>1
  <2>3. CASE i # N
    BY <1>2, <2>3
  <2> QED BY <2>1, <2>2, <2>3
<1>7. \A kind, c : In(ds, kind, c) <=> In(cs, kind, c) \/ Among(ev, kind, c)
  <2> TAKE kind, c
  <2>1. ASSUME In(ds, kind, c) PROVE In(cs, kind, c) \/ Among(ev, kind, c)
    <3>1. PICK i \in 1..N : \E p \in 1..Len(ds[i]) : ds[i][p].kind = kind /\ ds[i][p].call = c
      BY <1>2, <2>1 DEF In
    <3>2. PICK p \in 1..Len(ds[i]) : ds[i][p].kind = kind /\ ds[i][p].call = c
      BY <3>1
    <3>3. CASE p \in 1..Len(cs[i]) /\ ds[i][p] = cs[i][p]
      BY <3>2, <3>3 DEF In, N
    <3>4. CASE \E k \in 1..Len(ev) : ds[i][p] = ev[k]
      BY <3>2, <3>4 DEF Among
    <3> QED BY <1>6, <3>3, <3>4
  <2>2. ASSUME In(cs, kind, c) PROVE In(ds, kind, c)
    <3>1. PICK i \in 1..N : \E p \in 1..Len(cs[i]) : cs[i][p].kind = kind /\ cs[i][p].call = c
      BY <2>2 DEF In, N
    <3>2. PICK p \in 1..Len(cs[i]) : cs[i][p].kind = kind /\ cs[i][p].call = c
      BY <3>1
    <3> QED BY <1>2, <1>4, <3>2 DEF In
  <2>3. ASSUME Among(ev, kind, c) PROVE In(ds, kind, c)
    <3>1. PICK k \in 1..Len(ev) : ev[k].kind = kind /\ ev[k].call = c
      BY <2>3 DEF Among
    <3> QED BY <1>1, <1>2, <1>5, <3>1 DEF In
  <2> QED BY <2>1, <2>2, <2>3
<1>8. ASSUME Doubled(cs) PROVE Doubled(ds)
  <2>1. PICK i \in 1..N : \E p, q \in 1..Len(cs[i]) :
          /\ p < q /\ cs[i][p].kind = "probe" /\ cs[i][q].kind = "probe"
          /\ cs[i][p].call = cs[i][q].call
    BY <1>8 DEF Doubled, N
  <2>2. PICK p \in 1..Len(cs[i]), q \in 1..Len(cs[i]) :
          /\ p < q /\ cs[i][p].kind = "probe" /\ cs[i][q].kind = "probe"
          /\ cs[i][p].call = cs[i][q].call
    BY <2>1
  <2>3. /\ p \in 1..Len(ds[i]) /\ ds[i][p] = cs[i][p]
        /\ q \in 1..Len(ds[i]) /\ ds[i][q] = cs[i][q]
    BY <1>4
  <2> QED BY <1>2, <2>2, <2>3 DEF Doubled
<1>9. ASSUME NEW c, NEW a \in 1..Len(ev), NEW b \in 1..Len(ev),
             a < b, ev[a].kind = "probe", ev[b].kind = "probe", ev[a].call = c, ev[b].call = c
      PROVE  Doubled(ds)
  <2>1. PICK p, q : p = Len(cs[N]) + a /\ q = Len(cs[N]) + b
    OBVIOUS
  <2>2. /\ p \in 1..Len(ds[N]) /\ ds[N][p] = ev[a]
        /\ q \in 1..Len(ds[N]) /\ ds[N][q] = ev[b]
    BY <1>5, <2>1
  <2>3. p < q
    <3>1. PICK l : l = Len(cs[N])
      OBVIOUS
    <3>2. l \in Nat /\ a \in Nat /\ b \in Nat /\ a < b
      BY <1>1, <1>9, <3>1
    <3>3. p = l + a /\ q = l + b
      BY <2>1, <3>1
    <3> QED BY <3>2, <3>3
  <2>4. /\ N \in 1..Len(ds) /\ ds[N][p].kind = "probe" /\ ds[N][q].kind = "probe"
        /\ ds[N][p].call = ds[N][q].call
    BY <1>1, <1>2, <1>9, <2>2
  <2> QED BY <2>2, <2>3, <2>4 DEF Doubled
<1> QED BY <1>3, <1>7, <1>8, <1>9 DEF Gains

LEMMA InAdded ==
  ASSUME NEW cs, NEW ds, NEW ev, Sized(cs), Len(ev) \in Nat, Added(ds, cs, ev)
  PROVE  /\ Sized(ds)
         /\ Gains(ds, cs, ev)
         /\ Doubled(cs) => Doubled(ds)
<1> DEFINE N == Len(cs)
<1>1. N \in Nat /\ N > 0 /\ \A i \in 1..N : Len(cs[i]) \in Nat
  BY DEF Sized
<1>2. Len(ds) = N + 1 /\ ds[N + 1] = ev /\ \A i \in 1..N : ds[i] = cs[i]
  BY DEF Added
<1> HIDE DEF N
<1>3. \A i \in 1..Len(ds) : i \in 1..N \/ i = N + 1
  BY <1>1, <1>2
<1>4. (\A i \in 1..N : i \in 1..Len(ds)) /\ N + 1 \in 1..Len(ds)
  BY <1>1, <1>2
<1>5. Sized(ds)
  BY <1>1, <1>2, <1>3 DEF Sized
<1>6. \A kind, c : In(ds, kind, c) <=> In(cs, kind, c) \/ Among(ev, kind, c)
  <2> TAKE kind, c
  <2>1. ASSUME In(ds, kind, c) PROVE In(cs, kind, c) \/ Among(ev, kind, c)
    <3>1. PICK i \in 1..Len(ds) : \E p \in 1..Len(ds[i]) : ds[i][p].kind = kind /\ ds[i][p].call = c
      BY <2>1 DEF In
    <3>2. CASE i \in 1..N
      BY <1>2, <3>1, <3>2 DEF In, N
    <3>3. CASE i = N + 1
      BY <1>2, <3>1, <3>3 DEF Among
    <3> QED BY <1>3, <3>2, <3>3
  <2>2. ASSUME In(cs, kind, c) PROVE In(ds, kind, c)
    BY <1>2, <1>4, <2>2 DEF In, N
  <2>3. ASSUME Among(ev, kind, c) PROVE In(ds, kind, c)
    BY <1>2, <1>4, <2>3 DEF In, Among
  <2> QED BY <2>1, <2>2, <2>3
<1>7. Doubled(cs) => Doubled(ds)
  BY <1>2, <1>4 DEF Doubled, N
<1> QED BY <1>5, <1>6, <1>7 DEF Gains

Different(act) ==
  \A t, u \in Tracks : \A n \in 1..Len(act[t]) : \A m \in 1..Len(act[u]) :
    act[t][n].call = act[u][m].call => t = u /\ n = m
Going(act, cs, k) ==
  /\ Different(act)
  /\ \A t \in Tracks : \A n \in 1..Len(act[t]) :
       In(cs, "enter", act[t][n].call) /\ ~In(cs, "probe", act[t][n].call)
  /\ \A c : In(cs, "enter", c) \/ In(cs, "probe", c) => c \in 1..k
Over(act, c) == \A t \in Tracks : \A n \in 1..Len(act[t]) : act[t][n].call # c
Unseen(cs, act) == \E c : In(cs, "enter", c) /\ ~In(cs, "probe", c) /\ Over(act, c)

Enters(ev, n) == \A kind, c : Among(ev, kind, c) <=> kind = "enter" /\ c = n

Pushed(now, act, t, z) == now = [act EXCEPT ![t] = Append(act[t], z)]

LEMMA GoingEnter ==
  ASSUME NEW act \in [Tracks -> Seq(Called)], NEW cs, NEW ds, NEW k \in Nat, NEW ev,
         Going(act, cs, k), Gains(ds, cs, ev), Enters(ev, k + 1),
         NEW t \in Tracks, NEW z \in Called, z.call = k + 1,
         NEW now, Pushed(now, act, t, z)
  PROVE  Going(now, ds, k + 1) /\ (Unseen(cs, act) => Unseen(ds, now))
<1>1. \A u \in Tracks : act[u] \in Seq(Called) /\ Len(act[u]) \in Nat
  <2> TAKE u \in Tracks
  <2>1. act[u] \in Seq(Called)
    OBVIOUS
  <2> QED BY <2>1, LenProperties
<1>2. PICK l : l = Len(act[t]) + 1
  OBVIOUS
<1>3. /\ Len(now[t]) = l /\ now[t][l] = z /\ l \in Nat
      /\ \A n \in 1..l : n = l \/ (n \in 1..Len(act[t]) /\ now[t][n] = act[t][n])
  <2>1. now[t] = Append(act[t], z)
    BY DEF Pushed
  <2> HIDE DEF Called
  <2> QED BY <1>1, <1>2, <2>1, AppendProperties
<1>4. \A u \in Tracks : u # t => now[u] = act[u]
  BY DEF Pushed
<1>5. \A u \in Tracks : \A n \in 1..Len(now[u]) :
        \/ u = t /\ n = l /\ now[u][n].call = k + 1
        \/ n \in 1..Len(act[u]) /\ now[u][n] = act[u][n]
  BY <1>3, <1>4
<1>6. \A u \in Tracks : \A n \in 1..Len(act[u]) : act[u][n].call \in 1..k
  BY DEF Going
<1>7. ASSUME NEW u \in Tracks, NEW v \in Tracks, NEW n \in 1..Len(now[u]), NEW m \in 1..Len(now[v]),
             now[u][n].call = now[v][m].call
      PROVE  u = v /\ n = m
  <2>1. CASE n \in 1..Len(act[u]) /\ now[u][n] = act[u][n] /\ m \in 1..Len(act[v]) /\ now[v][m] = act[v][m]
    <3>1. /\ n \in 1..Len(act[u]) /\ m \in 1..Len(act[v])
          /\ act[u][n].call = act[v][m].call
      BY <1>7, <2>1
    <3> QED BY <3>1 DEF Going, Different
  <2>2. CASE u = t /\ n = l /\ now[u][n].call = k + 1 /\ v = t /\ m = l
    BY <2>2
  <2>3. ASSUME now[u][n].call = k + 1, now[v][m].call \in 1..k PROVE FALSE
    BY <1>7, <2>3
  <2>4. ASSUME now[v][m].call = k + 1, now[u][n].call \in 1..k PROVE FALSE
    BY <1>7, <2>4
  <2>5. \/ u = t /\ n = l /\ now[u][n].call = k + 1
        \/ n \in 1..Len(act[u]) /\ now[u][n] = act[u][n] /\ now[u][n].call \in 1..k
    BY <1>5, <1>6
  <2>6. \/ v = t /\ m = l /\ now[v][m].call = k + 1
        \/ m \in 1..Len(act[v]) /\ now[v][m] = act[v][m] /\ now[v][m].call \in 1..k
    BY <1>5, <1>6
  <2> QED BY <2>1, <2>2, <2>3, <2>4, <2>5, <2>6
<1>8. ASSUME NEW u \in Tracks, NEW n \in 1..Len(now[u])
      PROVE  In(ds, "enter", now[u][n].call) /\ ~In(ds, "probe", now[u][n].call)
  <2>1. CASE now[u][n].call = k + 1
    <3>1. ~In(cs, "probe", k + 1)
      BY DEF Going
    <3> QED BY <2>1, <3>1 DEF Gains, Enters
  <2>2. CASE n \in 1..Len(act[u]) /\ now[u][n] = act[u][n]
    <3>1. /\ In(cs, "enter", now[u][n].call) /\ ~In(cs, "probe", now[u][n].call)
      BY <2>2 DEF Going
    <3> QED BY <3>1 DEF Gains, Enters
  <2> QED BY <1>5, <2>1, <2>2
<1>9. ASSUME NEW c, In(ds, "enter", c) \/ In(ds, "probe", c) PROVE c \in 1..(k + 1)
  <2>1. c = k + 1 \/ c \in 1..k
    BY <1>9 DEF Going, Gains, Enters
  <2> QED BY <2>1
<1>10. ASSUME Unseen(cs, act) PROVE Unseen(ds, now)
  <2>1. PICK c : In(cs, "enter", c) /\ ~In(cs, "probe", c) /\ Over(act, c)
    BY <1>10 DEF Unseen
  <2>2. c \in 1..k
    BY <2>1 DEF Going
  <2>3. In(ds, "enter", c) /\ ~In(ds, "probe", c)
    BY <2>1, <2>2 DEF Gains, Enters
  <2>4. Over(now, c)
    <3>1. c # k + 1
      BY <2>2
    <3>2. \A u \in Tracks : \A n \in 1..Len(act[u]) : act[u][n].call # c
      BY <2>1 DEF Over
    <3> QED BY <1>5, <3>1, <3>2 DEF Over
  <2> QED BY <2>3, <2>4 DEF Unseen
<1> QED BY <1>7, <1>8, <1>9, <1>10 DEF Going, Different

LEMMA GoingKept ==
  ASSUME NEW act \in [Tracks -> Seq(Called)], NEW cs, NEW ds, NEW k \in Nat, NEW ev,
         Going(act, cs, k), Gains(ds, cs, ev),
         NEW now,
         \A u \in Tracks : /\ Len(now[u]) \in 0..Len(act[u])
                           /\ \A n \in 1..Len(now[u]) : now[u][n] = act[u][n],
         \A c : ~Among(ev, "enter", c),
         \A c : Among(ev, "probe", c) => ~Over(act, c) /\ Over(now, c)
  PROVE  Going(now, ds, k) /\ (Unseen(cs, act) => Unseen(ds, now))
<1>1. \A u \in Tracks : \A n \in 1..Len(now[u]) : n \in 1..Len(act[u]) /\ now[u][n] = act[u][n]
  <2> TAKE u \in Tracks
  <2>1. act[u] \in Seq(Called)
    OBVIOUS
  <2>2. Len(act[u]) \in Nat
    BY <2>1, LenProperties
  <2> QED BY <2>2
<1>2. ASSUME NEW u \in Tracks, NEW v \in Tracks, NEW n \in 1..Len(now[u]), NEW m \in 1..Len(now[v]),
             now[u][n].call = now[v][m].call
      PROVE  u = v /\ n = m
  <2>1. /\ n \in 1..Len(act[u]) /\ m \in 1..Len(act[v])
        /\ act[u][n].call = act[v][m].call
    BY <1>1, <1>2
  <2> QED BY <2>1 DEF Going, Different
<1>3. ASSUME NEW u \in Tracks, NEW n \in 1..Len(now[u])
      PROVE  In(ds, "enter", now[u][n].call) /\ ~In(ds, "probe", now[u][n].call)
  <2>1. In(cs, "enter", now[u][n].call) /\ ~In(cs, "probe", now[u][n].call)
    BY <1>1 DEF Going
  <2>2. ~Over(now, now[u][n].call)
    BY DEF Over
  <2> QED BY <2>1, <2>2 DEF Gains
<1>4. ASSUME NEW c, In(ds, "enter", c) \/ In(ds, "probe", c) PROVE c \in 1..k
  <2>1. ASSUME ~Over(act, c) PROVE c \in 1..k
    <3>1. PICK u \in Tracks : \E n \in 1..Len(act[u]) : act[u][n].call = c
      BY <2>1 DEF Over
    <3> QED BY <3>1 DEF Going
  <2>2. In(cs, "enter", c) \/ In(cs, "probe", c) \/ ~Over(act, c)
    BY <1>4 DEF Gains
  <2> QED BY <2>1, <2>2 DEF Going
<1>5. ASSUME Unseen(cs, act) PROVE Unseen(ds, now)
  <2>1. PICK c : In(cs, "enter", c) /\ ~In(cs, "probe", c) /\ Over(act, c)
    BY <1>5 DEF Unseen
  <2>2. Over(now, c)
    BY <1>1, <2>1 DEF Over
  <2> QED BY <2>1, <2>2 DEF Unseen, Gains
<1> QED BY <1>2, <1>3, <1>4, <1>5 DEF Going, Different

----------------------------------------------------------------------------
Happening == Malformed \cup {"dropped", "crash"}
Witnessed ==
  /\ faults \subseteq Happening \cup {"lost", "swapped"}
  /\ phase = "record" => faults \subseteq Happening
  /\ "dropped" \notin faults =>
       /\ Going(active, chunks, calls)
       /\ "missed" \in faults => Unseen(chunks, active)
       /\ "twice" \in faults => Doubled(chunks)

LEMMA EnterWitnessed ==
  ASSUME Recorded, Noted, Witnessed, NEW t \in Tracks, NEW f \in Functions, Enter(t, f)
  PROVE  Witnessed'
<1> DEFINE z == [call |-> calls + 1, function |-> f]
<1>1. /\ calls' = calls + 1 /\ faults' = faults /\ phase' = phase /\ issues' = issues
      /\ active' = [active EXCEPT ![t] = Append(active[t], z)]
  BY DEF Enter, verifying
<1>2. z \in Called /\ z.call = calls + 1 /\ calls \in Nat
  <2>1. calls \in Nat
    BY DEF Recorded
  <2> QED BY <2>1 DEF Called
<1>3. active \in [Tracks -> Seq(Called)] /\ Sized(chunks)
  BY ChunksSized DEF Noted
<1> HIDE DEF z
<1>4. PICK e : Extended(chunks', chunks, <<e>>) /\ e.kind = "enter" /\ e.call = calls + 1
  BY EnterEvents
<1>5. PICK ev : ev = <<e>>
  OBVIOUS
<1>6. Len(ev) = 1 /\ ev[1] = e /\ \A k \in 1..1 : k = 1
  BY <1>5
<1>7. Enters(ev, calls + 1)
  BY <1>4, <1>6 DEF Among, Enters
<1>8. PICK ds, now, k : ds = chunks' /\ now = active' /\ k = calls
  OBVIOUS
<1>9. Extended(ds, chunks, ev) /\ Len(ev) \in Nat
  BY <1>4, <1>5, <1>6, <1>8
<1>10. /\ Gains(ds, chunks, ev)
       /\ Doubled(chunks) => Doubled(ds)
  BY <1>3, <1>9, InExtended
<1>11. ASSUME "dropped" \notin faults
       PROVE  Going(now, ds, k + 1) /\ (Unseen(chunks, active) => Unseen(ds, now))
  <2>1. Going(active, chunks, k)
    BY <1>8, <1>11 DEF Witnessed
  <2>2. Pushed(now, active, t, z) /\ k \in Nat /\ z.call = k + 1 /\ z \in Called
    BY <1>1, <1>2, <1>8 DEF Pushed
  <2>3. Enters(ev, k + 1)
    BY <1>7, <1>8
  <2>4. PICK cs : cs = chunks
    OBVIOUS
  <2>5. Going(active, cs, k) /\ Gains(ds, cs, ev) /\ active \in [Tracks -> Seq(Called)]
    BY <1>3, <1>10, <2>1, <2>4
  <2>6. Going(now, ds, k + 1) /\ (Unseen(cs, active) => Unseen(ds, now))
    BY <2>2, <2>3, <2>5, GoingEnter
  <2> QED BY <2>4, <2>6
<1>12. Going(active', chunks', calls') <=> Going(now, ds, k + 1)
  BY <1>1, <1>8
<1> QED BY <1>1, <1>8, <1>10, <1>11, <1>12 DEF Witnessed

Popped(act, t, now) == act[t] # <<>> /\ now = [act EXCEPT ![t] = Front(act[t])]

LEMMA PoppedIs ==
  ASSUME NEW act \in [Tracks -> Seq(Called)], NEW t \in Tracks, NEW now, Popped(act, t, now)
  PROVE  /\ \A u \in Tracks : /\ Len(now[u]) \in 0..Len(act[u])
                              /\ \A n \in 1..Len(now[u]) : now[u][n] = act[u][n]
         /\ \E n \in 1..Len(act[t]) : act[t][n].call = Last(act[t]).call
         /\ Different(act) => Over(now, Last(act[t]).call)
<1>1. PICK q, c : q = act[t] /\ c = Last(q).call
  OBVIOUS
<1>2. q \in Seq(Called) /\ q # <<>>
  BY <1>1 DEF Popped
<1>3. /\ Len(Front(q)) = Len(q) - 1 /\ Len(q) \in Nat /\ Len(q) \in 1..Len(q)
      /\ \A n \in 1..(Len(q) - 1) : Front(q)[n] = q[n]
      /\ q[Len(q)].call = c
  <2>1. Len(q) \in Nat /\ Len(q) # 0
    BY <1>2, LenProperties, EmptySeq
  <2>2. Last(q) = q[Len(q)]
    BY DEF Last
  <2> QED BY <1>1, <1>2, <2>1, <2>2, FrontIs
<1>4. \A u \in Tracks : /\ Len(now[u]) \in 0..Len(act[u]) /\ Len(act[u]) \in Nat
                        /\ \A n \in 1..Len(now[u]) : now[u][n] = act[u][n]
  <2> TAKE u \in Tracks
  <2>1. CASE u = t
    <3>1. now[u] = Front(q) /\ act[u] = q
      BY <1>1, <2>1 DEF Popped
    <3> QED BY <1>3, <3>1
  <2>2. CASE u # t
    <3>1. now[u] = act[u] /\ act[u] \in Seq(Called)
      BY <2>2 DEF Popped
    <3>2. Len(act[u]) \in Nat
      BY <3>1, LenProperties
    <3> QED BY <3>1, <3>2
  <2> QED BY <2>1, <2>2
<1>5. ASSUME Different(act) PROVE Over(now, c)
  <2>1. \A u \in Tracks : \A n \in 1..Len(act[u]) : act[u][n].call = c => u = t /\ n = Len(q)
    <3>1. act[t][Len(q)].call = c /\ Len(q) \in 1..Len(act[t])
      BY <1>1, <1>3
    <3> QED BY <1>5, <3>1 DEF Different
  <2>2. \A u \in Tracks : \A n \in 1..Len(now[u]) :
          n \in 1..Len(act[u]) /\ now[u][n] = act[u][n] /\ (u = t => n # Len(q))
    <3> TAKE u \in Tracks
    <3>1. u = t => Len(now[u]) = Len(q) - 1
      BY <1>1, <1>3 DEF Popped
    <3> QED BY <1>3, <1>4, <3>1
  <2>3. ASSUME NEW u \in Tracks, NEW n \in 1..Len(now[u]), now[u][n].call = c PROVE FALSE
    <3>1. n \in 1..Len(act[u]) /\ act[u][n].call = c /\ (u = t => n # Len(q))
      BY <2>2, <2>3
    <3> QED BY <2>1, <3>1
  <2> QED BY <2>3 DEF Over
<1>6. \E n \in 1..Len(act[t]) : act[t][n].call = c
  BY <1>1, <1>3
<1> QED BY <1>1, <1>4, <1>5, <1>6

LEMMA ReturnWitnessed ==
  ASSUME Recorded, Noted, Witnessed, NEW t \in Tracks,
         \/ Return(t) \/ ReturnUnprobed(t)
         \/ \E f \in {"twice", "unended"} : ReturnMalformed(t, f)
  PROVE  Witnessed'
<1>1. /\ active[t] # <<>> /\ active' = [active EXCEPT ![t] = Front(active[t])]
      /\ calls' = calls /\ phase' = phase /\ phase = "record" /\ issues' = issues
  BY ReturnEvents DEF verifying
<1>2. PICK ev, f : /\ Extended(chunks', chunks, ev) /\ Returned(ev, t, Last(active[t]).call, f)
                   /\ \/ f = "none" /\ faults' = faults
                      \/ f \in Malformed /\ faults' = faults \cup {f}
  BY ReturnEvents
<1>3. active \in [Tracks -> Seq(Called)] /\ Sized(chunks) /\ calls \in Nat
  BY ChunksSized DEF Noted, Recorded
<1>4. PICK c, ds, now : c = Last(active[t]).call /\ ds = chunks' /\ now = active'
  OBVIOUS
<1>5. Popped(active, t, now)
  BY <1>1, <1>4 DEF Popped
<1>shown. /\ \A u \in Tracks : /\ Len(now[u]) \in 0..Len(active[u])
                               /\ \A n \in 1..Len(now[u]) : now[u][n] = active[u][n]
          /\ \E n \in 1..Len(active[t]) : active[t][n].call = Last(active[t]).call
          /\ Different(active) => Over(now, Last(active[t]).call)
  <2>1. active \in [Tracks -> Seq(Called)] /\ t \in Tracks
    BY <1>3
  <2> QED BY ONLY <1>5, <2>1, PoppedIs
<1>6. \A u \in Tracks : /\ Len(now[u]) \in 0..Len(active[u])
                        /\ \A n \in 1..Len(now[u]) : now[u][n] = active[u][n]
  BY <1>shown
<1>7. \E n \in 1..Len(active[t]) : active[t][n].call = c
  BY <1>4, <1>shown
<1>8. /\ Len(ev) \in 1..3 /\ \A k \in 1..Len(ev) : ev[k].call = c /\ ev[k].kind \in {"probe", "end"}
      /\ f = "missed" => Len(ev) = 1 /\ ev[1].kind = "end"
      /\ f = "twice" => /\ Len(ev) = 3 /\ ev[1].kind = "probe" /\ ev[2].kind = "probe"
  <2>1. Returned(ev, t, c, f)
    BY <1>2, <1>4
  <2>2. Len(ev) = 3 => 1 \in 1..Len(ev) /\ 2 \in 1..Len(ev)
    OBVIOUS
  <2>3. Len(ev) = 1 => 1 \in 1..Len(ev)
    OBVIOUS
  <2> QED BY <2>1, <2>2, <2>3 DEF Returned
<1>9. (\A d : ~Among(ev, "enter", d)) /\ \A d : Among(ev, "probe", d) => d = c
  BY <1>8 DEF Among
<1>10. Extended(ds, chunks, ev) /\ Len(ev) \in Nat
  BY <1>2, <1>4, <1>8
<1>11. /\ Gains(ds, chunks, ev)
       /\ Doubled(chunks) => Doubled(ds)
       /\ (\E d : \E a, b \in 1..Len(ev) : /\ a < b /\ ev[a].kind = "probe" /\ ev[b].kind = "probe"
                                            /\ ev[a].call = d /\ ev[b].call = d) => Doubled(ds)
  BY <1>3, <1>10, InExtended
<1>12. ~Over(active, c)
  BY <1>7 DEF Over
<1>13. ASSUME Going(active, chunks, calls) PROVE Over(now, c)
  <2>1. Different(active)
    BY <1>13 DEF Going
  <2> QED BY <1>4, <1>shown, <2>1
<1>14. ASSUME Going(active, chunks, calls)
       PROVE  /\ Going(now, ds, calls) /\ (Unseen(chunks, active) => Unseen(ds, now))
              /\ f = "missed" => Unseen(ds, now)
  <2>1. \A d : Among(ev, "probe", d) => ~Over(active, d) /\ Over(now, d)
    BY <1>9, <1>12, <1>13, <1>14
  <2>2. Going(now, ds, calls) /\ (Unseen(chunks, active) => Unseen(ds, now))
    BY <1>3, <1>6, <1>9, <1>11, <1>14, <2>1, GoingKept
  <2>3. ASSUME f = "missed" PROVE Unseen(ds, now)
    <3>1. In(chunks, "enter", c) /\ ~In(chunks, "probe", c)
      BY <1>7, <1>14 DEF Going
    <3>2. ~Among(ev, "probe", c)
      <4>1. \A k \in 1..1 : k = 1
        OBVIOUS
      <4> QED BY <1>8, <2>3, <4>1 DEF Among
    <3> QED BY <1>11, <1>13, <1>14, <3>1, <3>2 DEF Unseen, Gains
  <2> QED BY <2>2, <2>3
<1>15. f = "twice" => Doubled(ds)
  <2> SUFFICES ASSUME f = "twice" PROVE Doubled(ds)
    OBVIOUS
  <2>1. /\ 1 \in 1..Len(ev) /\ 2 \in 1..Len(ev) /\ 1 < 2
        /\ ev[1].kind = "probe" /\ ev[2].kind = "probe" /\ ev[1].call = c /\ ev[2].call = c
    BY <1>8
  <2> QED BY <1>11, <2>1
<1>16. faults' \subseteq Happening
  BY <1>1, <1>2 DEF Witnessed, Happening
<1>17. ASSUME "dropped" \notin faults'
       PROVE  /\ Going(now, ds, calls) /\ ("missed" \in faults' => Unseen(ds, now))
              /\ ("twice" \in faults' => Doubled(ds))
  <2>1. "dropped" \notin faults
    BY <1>2, <1>17
  <2>2. /\ Going(active, chunks, calls) /\ ("missed" \in faults => Unseen(chunks, active))
        /\ ("twice" \in faults => Doubled(chunks))
    BY <2>1 DEF Witnessed
  <2>3. ("missed" \in faults' => "missed" \in faults \/ f = "missed")
        /\ ("twice" \in faults' => "twice" \in faults \/ f = "twice")
    BY <1>2
  <2> QED BY <1>11, <1>14, <1>15, <2>2, <2>3
<1> QED BY <1>1, <1>4, <1>16, <1>17 DEF Witnessed

LEMMA RotateWitnessed ==
  ASSUME Recorded, Noted, Witnessed, Rotate
  PROVE  Witnessed'
<1>1. PICK closed, closes, reopened, K, J : Turns(closed, closes, reopened, K, J)
  BY RotateEvents
<1>2. /\ active' = active /\ calls' = calls /\ faults' = faults /\ issues' = issues
      /\ phase' = phase /\ phase = "record"
  BY RotateEvents DEF verifying
<1>3. /\ Len(closes) \in Nat /\ Len(reopened) \in Nat
      /\ Extended(closed, chunks, closes) /\ Added(chunks', closed, reopened)
      /\ \A m \in 1..Len(closes) : Border(active, K[m - 1], K[m], closes[m], "end")
      /\ \A m \in 1..Len(reopened) : Border(active, J[m - 1], J[m], reopened[m], "reopen")
  BY <1>1 DEF Turns, Bordering
<1>4. /\ \A m \in 1..Len(closes) : closes[m].kind = "end"
      /\ \A m \in 1..Len(reopened) : reopened[m].kind = "reopen"
  BY <1>3 DEF Border
<1>5. /\ \A c : ~Among(closes, "enter", c) /\ ~Among(closes, "probe", c)
      /\ \A c : ~Among(reopened, "enter", c) /\ ~Among(reopened, "probe", c)
  BY <1>4 DEF Among
<1>6. PICK ds : ds = chunks'
  OBVIOUS
<1>7. Sized(chunks)
  BY ChunksSized
<1>8. Sized(closed) /\ Gains(closed, chunks, closes) /\ (Doubled(chunks) => Doubled(closed))
  BY <1>3, <1>7, InExtended
<1>9. Gains(ds, closed, reopened) /\ (Doubled(closed) => Doubled(ds))
  BY <1>3, <1>6, <1>8, InAdded
<1>10. active \in [Tracks -> Seq(Called)] /\ calls \in Nat
  BY DEF Noted, Recorded
<1>11. \A u \in Tracks : /\ Len(active[u]) \in 0..Len(active[u])
                         /\ \A n \in 1..Len(active[u]) : active[u][n] = active[u][n]
  <2> TAKE u \in Tracks
  <2>1. active[u] \in Seq(Called)
    BY <1>10
  <2>2. Len(active[u]) \in Nat
    BY <2>1, LenProperties
  <2> QED BY <2>2
<1>12. ASSUME Going(active, chunks, calls)
       PROVE  Going(active, ds, calls) /\ (Unseen(chunks, active) => Unseen(ds, active))
  <2>1. Going(active, closed, calls) /\ (Unseen(chunks, active) => Unseen(closed, active))
    BY <1>5, <1>8, <1>10, <1>11, <1>12, GoingKept
  <2>2. Going(active, ds, calls) /\ (Unseen(closed, active) => Unseen(ds, active))
    BY <1>5, <1>9, <1>10, <1>11, <2>1, GoingKept
  <2> QED BY <2>1, <2>2
<1> QED BY <1>2, <1>6, <1>8, <1>9, <1>12 DEF Witnessed

LEMMA CrashWitnessed ==
  ASSUME Recorded, Noted, Witnessed, Crash
  PROVE  Witnessed'
<1>1. /\ active' = [u \in Tracks |-> <<>>] /\ chunks' = Append(chunks, <<>>) /\ calls' = calls
      /\ faults' = faults \cup {"crash"} /\ issues' = issues /\ phase' = phase /\ phase = "record"
  BY DEF Crash, Fault, verifying
<1>2. Sized(chunks)
  BY ChunksSized
<1>3. PICK ds, now, ev : ds = chunks' /\ now = active' /\ ev = <<>>
  OBVIOUS
<1>4. Added(ds, chunks, ev) /\ Len(ev) = 0
  <2>1. PICK S : chunks \in Seq(Seq(S))
    BY ChunksSized
  <2>2. ev \in Seq({})
    BY <1>3
  <2>3. Added(Append(chunks, ev), chunks, ev)
    BY <2>1, <2>2, ChunkAppended
  <2> QED BY <1>1, <1>3, <2>3
<1>5. (\A c : ~Among(ev, "enter", c)) /\ \A c : ~Among(ev, "probe", c)
  BY <1>4 DEF Among
<1>6. Gains(ds, chunks, ev) /\ (Doubled(chunks) => Doubled(ds))
  BY <1>2, <1>4, InAdded
<1>7. active \in [Tracks -> Seq(Called)] /\ calls \in Nat
  BY DEF Noted, Recorded
<1>8. \A u \in Tracks : /\ Len(now[u]) \in 0..Len(active[u])
                        /\ \A n \in 1..Len(now[u]) : now[u][n] = active[u][n]
  <2> TAKE u \in Tracks
  <2>1. active[u] \in Seq(Called)
    BY <1>7
  <2>2. Len(active[u]) \in Nat
    BY <2>1, LenProperties
  <2>3. now[u] = <<>>
    BY <1>1, <1>3
  <2>4. Len(now[u]) = 0
    BY <2>3
  <2> QED BY <2>2, <2>4
<1>9. ASSUME Going(active, chunks, calls)
      PROVE  Going(now, ds, calls) /\ (Unseen(chunks, active) => Unseen(ds, now))
  BY <1>5, <1>6, <1>7, <1>8, <1>9, GoingKept
<1>10. faults' \subseteq Happening
  BY <1>1 DEF Witnessed, Happening
<1>11. /\ "dropped" \in faults' <=> "dropped" \in faults
       /\ "missed" \in faults' <=> "missed" \in faults
       /\ "twice" \in faults' <=> "twice" \in faults
  BY <1>1
<1>12. ASSUME "dropped" \notin faults'
       PROVE  /\ Going(active', chunks', calls')
              /\ "missed" \in faults' => Unseen(chunks', active')
              /\ "twice" \in faults' => Doubled(chunks')
  <2>1. /\ Going(active, chunks, calls)
        /\ "missed" \in faults => Unseen(chunks, active)
        /\ "twice" \in faults => Doubled(chunks)
    BY <1>11, <1>12 DEF Witnessed
  <2>2. calls' = calls
    BY <1>1
  <2> QED BY <1>3, <1>6, <1>9, <1>11, <2>1, <2>2
<1> QED BY <1>1, <1>10, <1>12 DEF Witnessed

(* What happens to the chunks once they are passed on.                       *)
LEMMA PassedWitnessed ==
  ASSUME Witnessed, UNCHANGED recorded, faults' = faults,
         phase # "record", phase' # "record"
  PROVE  Witnessed'
<1>1. active' = active /\ chunks' = chunks /\ calls' = calls
  BY DEF recorded
<1> QED BY <1>1 DEF Witnessed

LEMMA BuildWitnessed ==
  ASSUME Witnessed, Tidy,
         \/ BuildAll \/ \E n \in DOMAIN chunks : BuildWithout(n)
         \/ \E n \in 1..(Len(chunks) - 1) : BuildSwapped(n)
  PROVE  Witnessed'
<1>1. PICK happened \in {{}, {"lost"}, {"swapped"}} :
        /\ phase = "record" /\ phase' = "verify" /\ faults' = faults \cup happened
        /\ UNCHANGED recorded
  BY DEF BuildAll, BuildWithout, BuildSwapped, Build
<1>2. active' = active /\ chunks' = chunks /\ calls' = calls
  BY <1>1 DEF recorded
<1>3. /\ "dropped" \in faults' <=> "dropped" \in faults
      /\ "missed" \in faults' <=> "missed" \in faults
      /\ "twice" \in faults' <=> "twice" \in faults
  BY <1>1
<1>4. faults' \subseteq Happening \cup {"lost", "swapped"}
  BY <1>1 DEF Witnessed
<1> QED BY <1>1, <1>2, <1>3, <1>4 DEF Witnessed

LEMMA WitnessedStep ==
  ASSUME Recorded, Noted, Tidy, Witnessed, [Next]_vars
  PROVE  Witnessed'
<1>1. CASE UNCHANGED vars
  BY <1>1 DEF vars, recording, recorded, verifying, Witnessed
<1>2. CASE \E t \in Tracks, f \in Functions : Enter(t, f)
  BY <1>2, EnterWitnessed
<1>3. CASE \/ \E t \in Tracks : Return(t) \/ ReturnUnprobed(t)
           \/ \E t \in Tracks, f \in {"twice", "unended"} : ReturnMalformed(t, f)
  BY <1>3, ReturnWitnessed
<1>4. CASE Drop
  <2>1. phase' = phase /\ phase = "record" /\ faults' = faults \cup {"dropped"}
    BY <1>4 DEF Drop, Fault
  <2>2. faults' \subseteq Happening
    BY <2>1 DEF Witnessed, Happening
  <2> QED BY <2>1, <2>2 DEF Witnessed
<1>5. CASE Rotate
  BY <1>5, RotateWitnessed
<1>6. CASE Crash
  BY <1>6, CrashWitnessed
<1>7. CASE \/ BuildAll \/ \E n \in DOMAIN chunks : BuildWithout(n)
           \/ \E n \in 1..(Len(chunks) - 1) : BuildSwapped(n)
  BY <1>7, BuildWitnessed
<1>8. CASE VerifyEnter \/ VerifyReopen \/ VerifyExitProbe \/ VerifySliceEnd
  <2>1. /\ UNCHANGED recorded /\ faults' = faults
        /\ phase = "verify" /\ phase' = "verify"
    BY <1>8 DEF VerifyEnter, VerifyReopen, VerifyExitProbe, VerifySliceEnd, Verifying, Handle,
                recording
  <2> QED BY <2>1, PassedWitnessed
<1>9. CASE VerifyFinish
  <2>1. /\ UNCHANGED recorded /\ faults' = faults
        /\ phase = "verify" /\ phase' = "verified"
    BY <1>9 DEF VerifyFinish, recording
  <2> QED BY <2>1, PassedWitnessed
<1> QED BY <1>1, <1>2, <1>3, <1>4, <1>5, <1>6, <1>7, <1>8, <1>9 DEF Next

----------------------------------------------------------------------------
(* A drop that a later packet announced is told by a chunk, and reported     *)
(* when the index is built, unless a chunk is lost.                          *)
Heard ==
  /\ unsaid \in {"no", "next", "never"}
  /\ announced \subseteq DOMAIN chunks
  /\ "dropped" \notin faults => unsaid = "no" /\ announced = {}
  /\ phase = "record" => "lost" \notin faults
  /\ "dropped" \in faults /\ unsaid = "no" =>
       /\ announced # {}
       /\ phase # "record" /\ "lost" \notin faults => issues # {}

(* A step of the recorder that drops nothing.                                *)
LEMMA RecordedHeard ==
  ASSUME Heard, phase = "record", phase' = "record", DOMAIN chunks \subseteq (DOMAIN chunks)',
         \/ Announce
         \/ announced' = announced /\ unsaid' = unsaid
         \/ announced' = announced /\ unsaid' = IF unsaid = "next" THEN "never" ELSE unsaid,
         Len(chunks) \in DOMAIN chunks, "dropped" \in faults' <=> "dropped" \in faults,
         "lost" \in faults' => "lost" \in faults
  PROVE  Heard'
<1>1. PICK n, D : n = Len(chunks) /\ D = DOMAIN chunks
  OBVIOUS
<1>2. CASE Announce
  <2>1. /\ unsaid' = IF unsaid = "next" THEN "no" ELSE unsaid
        /\ announced' = IF unsaid = "next" THEN announced \cup {n} ELSE announced
    BY <1>1, <1>2 DEF Announce
  <2>2. announced \subseteq D /\ n \in D
    BY <1>1 DEF Heard
  <2>3. announced' \subseteq D
    BY <2>1, <2>2
  <2>4. announced' \subseteq (DOMAIN chunks)'
    BY <1>1, <2>3
  <2>5. /\ unsaid' \in {"no", "next", "never"}
        /\ "dropped" \notin faults' => unsaid' = "no" /\ announced' = {}
        /\ "dropped" \in faults' /\ unsaid' = "no" => announced' # {}
    BY <2>1 DEF Heard
  <2> QED BY <2>4, <2>5 DEF Heard
<1>3. CASE \/ announced' = announced /\ unsaid' = unsaid
           \/ announced' = announced /\ unsaid' = IF unsaid = "next" THEN "never" ELSE unsaid
  <2>1. /\ unsaid' \in {"no", "next", "never"}
        /\ "dropped" \notin faults' => unsaid' = "no" /\ announced' = {}
        /\ "dropped" \in faults' /\ unsaid' = "no" => announced' # {}
    BY <1>3 DEF Heard
  <2> QED BY <1>3, <2>1 DEF Heard
<1> QED BY <1>2, <1>3

LEMMA HeardStep ==
  ASSUME Recorded, Heard, [Next]_vars
  PROVE  Heard'
<1>0. PICK S : chunks \in Seq(S) /\ Len(chunks) \in Nat \ {0} /\ DOMAIN chunks = 1..Len(chunks)
  BY LenProperties DEF Recorded, ChunksFit
<1>00. Len(chunks) \in DOMAIN chunks
  BY <1>0
<1>1. CASE UNCHANGED vars
  BY <1>1 DEF vars, recording, recorded, verifying, Heard
<1>2. CASE \/ \E t \in Tracks, f \in Functions : Enter(t, f)
           \/ \E t \in Tracks : Return(t) \/ ReturnUnprobed(t)
           \/ \E t \in Tracks, f \in {"twice", "unended"} : ReturnMalformed(t, f)
  <2>1. PICK events : Record(events)
    BY <1>2 DEF Enter, Return, ReturnUnprobed, ReturnMalformed
  <2>2. Announce /\ DOMAIN chunks' = DOMAIN chunks
    BY <2>1 DEF Record
  <2>3. /\ phase = "record" /\ phase' = "record"
        /\ "dropped" \in faults' <=> "dropped" \in faults
        /\ "lost" \in faults' => "lost" \in faults
    BY <1>2 DEF Enter, Return, ReturnUnprobed, ReturnMalformed, Fault
  <2> QED BY <1>00, <2>2, <2>3, RecordedHeard
<1>3. CASE Drop
  <2>1. /\ phase = "record" /\ phase' = "record" /\ faults' = faults \cup {"dropped"}
        /\ DOMAIN chunks' = DOMAIN chunks /\ announced' = announced /\ unsaid' = "next"
    BY <1>3 DEF Drop, Fault
  <2> QED BY <2>1 DEF Heard
<1>4. CASE Rotate
  <2>1. /\ phase = "record" /\ phase' = "record" /\ faults' = faults
        /\ Announce \/ (announced' = announced /\ unsaid' = unsaid)
    BY <1>4 DEF Rotate
  <2>2. DOMAIN chunks \subseteq (DOMAIN chunks)'
    <3>1. PICK last, new : chunks' = Append(Front(chunks) \o <<last>>, new)
      BY <1>4 DEF Rotate
    <3>2. Front(chunks) \in Seq(S) /\ Len(Front(chunks)) = Len(chunks) - 1
      <4>1. chunks \in Seq(S) /\ chunks # <<>>
        BY <1>0
      <4> QED BY <4>1, FrontIs
    <3>3. PICK front : front = Front(chunks)
      OBVIOUS
    <3>4. Len(chunks') = Len(chunks) + 1 /\ DOMAIN chunks' = 1..(Len(chunks) + 1)
      BY <1>0, <3>1, <3>2, <3>3
    <3> QED BY <1>0, <3>4
  <2> QED BY <1>00, <2>1, <2>2, RecordedHeard
<1>5. CASE Crash
  <2>1. /\ phase = "record" /\ phase' = "record" /\ faults' = faults \cup {"crash"}
        /\ announced' = announced /\ unsaid' = IF unsaid = "next" THEN "never" ELSE unsaid
        /\ chunks' = Append(chunks, <<>>)
    BY <1>5 DEF Crash, Fault
  <2>2. DOMAIN chunks \subseteq (DOMAIN chunks)'
    BY <1>0, <2>1
  <2>3. /\ "dropped" \in faults' <=> "dropped" \in faults
        /\ "lost" \in faults' => "lost" \in faults
    BY <2>1
  <2> QED BY <1>00, <2>1, <2>2, <2>3, RecordedHeard
<1>6. CASE \/ BuildAll \/ \E n \in DOMAIN chunks : BuildWithout(n)
           \/ \E n \in 1..(Len(chunks) - 1) : BuildSwapped(n)
  <2>1. PICK sources, passed, happened :
          /\ Build(sources, passed, happened) /\ happened \in {{}, {"lost"}, {"swapped"}}
          /\ happened = {"lost"} \/ passed = DOMAIN chunks
    BY <1>6 DEF BuildAll, BuildWithout, BuildSwapped
  <2>2. /\ phase = "record" /\ phase' = "verify" /\ faults' = faults \cup happened
        /\ issues' = {<<"packet_loss", 0>> : n \in announced \cap passed}
        /\ chunks' = chunks /\ unsaid' = unsaid /\ announced' = announced
    BY <2>1 DEF Build, recorded
  <2>3. "dropped" \in faults' <=> "dropped" \in faults
    BY <2>1, <2>2
  <2>4. ASSUME "dropped" \in faults', unsaid' = "no", "lost" \notin faults' PROVE issues' # {}
    <3>1. announced # {} /\ announced \subseteq DOMAIN chunks /\ passed = DOMAIN chunks
      BY <2>1, <2>2, <2>3, <2>4 DEF Heard
    <3>2. PICK n \in announced : n \in announced \cap passed
      BY <3>1
    <3>3. <<"packet_loss", 0>> \in issues'
      BY <2>2, <3>2
    <3> QED BY <3>3
  <2> QED BY <2>2, <2>3, <2>4 DEF Heard
<1>7. CASE VerifyEnter \/ VerifyReopen \/ VerifyExitProbe \/ VerifySliceEnd \/ VerifyFinish
  <2>1. /\ issues \subseteq issues' /\ UNCHANGED recorded /\ faults' = faults
        /\ phase = "verify" /\ phase' # "record"
    BY <1>7 DEF VerifyEnter, VerifyReopen, VerifyExitProbe, VerifySliceEnd, VerifyFinish,
                Verifying, Handle, recording
  <2> QED BY <2>1 DEF Heard, recorded
<1> QED BY <1>1, <1>2, <1>3, <1>4, <1>5, <1>6, <1>7 DEF Next

----------------------------------------------------------------------------
(* What a slice without an end leaves in the recording.  In a chunk every    *)
(* end is of a call that is opened there, by its entry or by a reopen, and   *)
(* no call ends twice; so a call that is opened there, is over and has no    *)
(* end is one opening more than there are ends.                              *)
OpensAt(E, t, c) ==
  \E p \in 1..Len(E) : E[p].kind \in {"enter", "reopen"} /\ E[p].track = t /\ E[p].call = c
EndsAt(E, c) == \E p \in 1..Len(E) : E[p].kind = "end" /\ E[p].call = c
EndsOnce(E) ==
  \A p, q \in 1..Len(E) : E[p].kind = "end" /\ E[q].kind = "end" /\ E[p].call = E[q].call => p = q
EndsOpened(E) ==
  \A p \in 1..Len(E) : E[p].kind = "end" => OpensAt(E, E[p].track, E[p].call)
CallsTo(E, k) == \A p \in 1..Len(E) : E[p].call \in 1..k
Nested(E, k) == EndsOnce(E) /\ EndsOpened(E) /\ CallsTo(E, k)
OpenIn(E, act) ==
  \A t \in Tracks : \A n \in 1..Len(act[t]) :
     OpensAt(E, t, act[t][n].call) /\ ~EndsAt(E, act[t][n].call)
Chunked(cs, act, k) == (\A i \in 1..Len(cs) : Nested(cs[i], k)) /\ OpenIn(cs[Len(cs)], act)
Lacks(E, t, c) == OpensAt(E, t, c) /\ ~EndsAt(E, c)
Unended(cs, act) ==
  \E i \in 1..Len(cs) : \E t \in Tracks : \E c :
     Lacks(cs[i], t, c) /\ (i = Len(cs) => Over(act, c))

(* A chunk goes on.                                                          *)
Joined(F, E, ev) ==
  /\ Len(F) = Len(E) + Len(ev) /\ \A k \in 1..Len(E) : F[k] = E[k]
  /\ \A k \in 1..Len(ev) : F[Len(E) + k] = ev[k]
(* Which of its calls the new events end.                                    *)
Ending(ev, act, now) ==
  \A k \in 1..Len(ev) : ev[k].kind = "end" =>
     /\ \E n \in 1..Len(act[ev[k].track]) : act[ev[k].track][n].call = ev[k].call
     /\ ev[k].track \in Tracks /\ Over(now, ev[k].call)

LEMMA JoinedIs ==
  ASSUME NEW E, NEW ev, NEW F, Len(E) \in Nat, Len(ev) \in Nat, Joined(F, E, ev)
  PROVE  /\ \A k \in 1..Len(E) : k \in 1..Len(F) /\ F[k] = E[k]
         /\ \A k \in 1..Len(ev) : Len(E) + k \in 1..Len(F) /\ F[Len(E) + k] = ev[k]
         /\ \A p \in 1..Len(F) :
              \/ p \in 1..Len(E) /\ F[p] = E[p]
              \/ \E k \in 1..Len(ev) : p = Len(E) + k /\ F[p] = ev[k]
<1>1. PICK l, m : l = Len(E) /\ m = Len(ev)
  OBVIOUS
<1>2. l \in Nat /\ m \in Nat /\ Len(F) = l + m
  BY <1>1 DEF Joined
<1>3. \A k \in 1..l : k \in 1..(l + m)
  BY <1>2
<1>4. \A k \in 1..m : l + k \in 1..(l + m)
  BY <1>2
<1>5. \A p \in 1..(l + m) : p \in 1..l \/ (p - l \in 1..m /\ p = l + (p - l))
  BY <1>2
<1>6. ASSUME NEW p \in 1..Len(F)
      PROVE  \/ p \in 1..Len(E) /\ F[p] = E[p]
             \/ \E k \in 1..Len(ev) : p = Len(E) + k /\ F[p] = ev[k]
  <2>1. p \in 1..l \/ (p - l \in 1..m /\ p = l + (p - l))
    BY <1>2, <1>5
  <2>2. CASE p \in 1..l
    BY <1>1, <2>2 DEF Joined
  <2>3. CASE p - l \in 1..m /\ p = l + (p - l)
    <3>1. PICK k : k = p - l
      OBVIOUS
    <3>2. k \in 1..m /\ p = l + k
      BY <2>3, <3>1
    <3>3. F[l + k] = ev[k]
      BY <1>1, <3>2 DEF Joined
    <3> QED BY <1>1, <3>2, <3>3
  <2> QED BY <2>1, <2>2, <2>3
<1> QED BY <1>1, <1>2, <1>3, <1>4, <1>6 DEF Joined

LEMMA NestedJoined ==
  ASSUME NEW E, NEW ev, NEW F, Len(E) \in Nat, Len(ev) \in Nat, Joined(F, E, ev),
         NEW k \in Nat, NEW l \in Nat, k <= l, Nested(E, k), CallsTo(ev, l),
         NEW act, NEW now, OpenIn(E, act), EndsOnce(ev), Ending(ev, act, now)
  PROVE  /\ Nested(F, l)
         /\ \A t, c : OpensAt(F, t, c) <=> OpensAt(E, t, c) \/ OpensAt(ev, t, c)
         /\ \A c : EndsAt(F, c) <=> EndsAt(E, c) \/ EndsAt(ev, c)
<1>1. \A p \in 1..Len(E) : p \in 1..Len(F) /\ F[p] = E[p]
  BY JoinedIs
<1>2. \A p \in 1..Len(ev) : Len(E) + p \in 1..Len(F) /\ F[Len(E) + p] = ev[p]
  BY JoinedIs
<1>3. \A p \in 1..Len(F) : \/ p \in 1..Len(E) /\ F[p] = E[p]
                           \/ \E m \in 1..Len(ev) : p = Len(E) + m /\ F[p] = ev[m]
  BY JoinedIs
<1>4. \A t, c : OpensAt(F, t, c) <=> OpensAt(E, t, c) \/ OpensAt(ev, t, c)
  <2> TAKE t, c
  <2>1. ASSUME OpensAt(F, t, c) PROVE OpensAt(E, t, c) \/ OpensAt(ev, t, c)
    <3>1. PICK p \in 1..Len(F) :
            F[p].kind \in {"enter", "reopen"} /\ F[p].track = t /\ F[p].call = c
      BY <2>1 DEF OpensAt
    <3>2. CASE p \in 1..Len(E) /\ F[p] = E[p]
      BY <3>1, <3>2 DEF OpensAt
    <3>3. CASE \E m \in 1..Len(ev) : p = Len(E) + m /\ F[p] = ev[m]
      BY <3>1, <3>3 DEF OpensAt
    <3> QED BY <1>3, <3>2, <3>3
  <2>2. ASSUME OpensAt(E, t, c) PROVE OpensAt(F, t, c)
    BY <1>1, <2>2 DEF OpensAt
  <2>3. ASSUME OpensAt(ev, t, c) PROVE OpensAt(F, t, c)
    <3>1. PICK m \in 1..Len(ev) :
            ev[m].kind \in {"enter", "reopen"} /\ ev[m].track = t /\ ev[m].call = c
      BY <2>3 DEF OpensAt
    <3>2. PICK p : p = Len(E) + m
      OBVIOUS
    <3>3. p \in 1..Len(F) /\ F[p] = ev[m]
      BY <1>2, <3>2
    <3> QED BY <3>1, <3>3 DEF OpensAt
  <2> QED BY <2>1, <2>2, <2>3
<1>5. \A c : EndsAt(F, c) <=> EndsAt(E, c) \/ EndsAt(ev, c)
  <2> TAKE c
  <2>1. ASSUME EndsAt(F, c) PROVE EndsAt(E, c) \/ EndsAt(ev, c)
    <3>1. PICK p \in 1..Len(F) : F[p].kind = "end" /\ F[p].call = c
      BY <2>1 DEF EndsAt
    <3>2. CASE p \in 1..Len(E) /\ F[p] = E[p]
      BY <3>1, <3>2 DEF EndsAt
    <3>3. CASE \E m \in 1..Len(ev) : p = Len(E) + m /\ F[p] = ev[m]
      BY <3>1, <3>3 DEF EndsAt
    <3> QED BY <1>3, <3>2, <3>3
  <2>2. ASSUME EndsAt(E, c) PROVE EndsAt(F, c)
    BY <1>1, <2>2 DEF EndsAt
  <2>3. ASSUME EndsAt(ev, c) PROVE EndsAt(F, c)
    <3>1. PICK m \in 1..Len(ev) : ev[m].kind = "end" /\ ev[m].call = c
      BY <2>3 DEF EndsAt
    <3>2. PICK p : p = Len(E) + m
      OBVIOUS
    <3>3. p \in 1..Len(F) /\ F[p] = ev[m]
      BY <1>2, <3>2
    <3> QED BY <3>1, <3>3 DEF EndsAt
  <2> QED BY <2>1, <2>2, <2>3
<1>6. \A m \in 1..Len(ev) : ev[m].kind = "end" =>
        OpensAt(E, ev[m].track, ev[m].call) /\ ~EndsAt(E, ev[m].call)
  BY DEF Ending, OpenIn
<1>7. EndsOpened(F)
  <2> SUFFICES ASSUME NEW p \in 1..Len(F), F[p].kind = "end"
               PROVE  OpensAt(F, F[p].track, F[p].call)
    BY DEF EndsOpened
  <2>1. CASE p \in 1..Len(E) /\ F[p] = E[p]
    <3>1. OpensAt(E, E[p].track, E[p].call)
      BY <2>1 DEF Nested, EndsOpened
    <3> QED BY <1>4, <2>1, <3>1
  <2>2. CASE \E m \in 1..Len(ev) : p = Len(E) + m /\ F[p] = ev[m]
    BY <1>4, <1>6, <2>2
  <2> QED BY <1>3, <2>1, <2>2
<1>8. EndsOnce(F)
  <2> SUFFICES ASSUME NEW p \in 1..Len(F), NEW q \in 1..Len(F), F[p].kind = "end",
                      F[q].kind = "end", F[p].call = F[q].call
               PROVE  p = q
    BY DEF EndsOnce
  <2>1. CASE p \in 1..Len(E) /\ F[p] = E[p] /\ q \in 1..Len(E) /\ F[q] = E[q]
    BY <2>1 DEF Nested, EndsOnce
  <2>2. ASSUME NEW a \in 1..Len(E), NEW m \in 1..Len(ev), E[a].kind = "end", ev[m].kind = "end",
               E[a].call = ev[m].call
        PROVE  FALSE
    <3>1. EndsAt(E, ev[m].call)
      BY <2>2 DEF EndsAt
    <3> QED BY <1>6, <2>2, <3>1
  <2>3. CASE /\ \E m \in 1..Len(ev) : p = Len(E) + m /\ F[p] = ev[m]
             /\ \E m \in 1..Len(ev) : q = Len(E) + m /\ F[q] = ev[m]
    <3>1. PICK a \in 1..Len(ev) : p = Len(E) + a /\ F[p] = ev[a]
      BY <2>3
    <3>2. PICK b \in 1..Len(ev) : q = Len(E) + b /\ F[q] = ev[b]
      BY <2>3
    <3>3. a = b
      BY <3>1, <3>2 DEF EndsOnce
    <3> QED BY <3>1, <3>2, <3>3
  <2> QED BY <1>3, <2>1, <2>2, <2>3
<1>9. CallsTo(F, l)
  <2> SUFFICES ASSUME NEW p \in 1..Len(F) PROVE F[p].call \in 1..l
    BY DEF CallsTo
  <2>1. CASE p \in 1..Len(E) /\ F[p] = E[p]
    <3>1. E[p].call \in 1..k
      BY <2>1 DEF Nested, CallsTo
    <3> QED BY <2>1, <3>1
  <2>2. CASE \E m \in 1..Len(ev) : p = Len(E) + m /\ F[p] = ev[m]
    BY <2>2 DEF CallsTo
  <2> QED BY <1>3, <2>1, <2>2
<1> QED BY <1>4, <1>5, <1>7, <1>8, <1>9 DEF Nested

Staying(ev, act, now, k) ==
  \A t \in Tracks : \A n \in 1..Len(now[t]) :
     \/ \E m \in 1..Len(act[t]) : now[t][n].call = act[t][m].call
     \/ OpensAt(ev, t, now[t][n].call) /\ now[t][n].call \notin 1..k

LEMMA ChunkedExtended ==
  ASSUME NEW cs, NEW ds, NEW ev, Sized(cs), Len(ev) \in Nat, Extended(ds, cs, ev),
         NEW k \in Nat, NEW l \in Nat, k <= l, NEW act, NEW now, Chunked(cs, act, k),
         CallsTo(ev, l), EndsOnce(ev), Ending(ev, act, now), Staying(ev, act, now, k)
  PROVE  /\ Chunked(ds, now, l) /\ (Unended(cs, act) => Unended(ds, now))
         /\ \A t, c : Lacks(cs[Len(cs)], t, c) /\ ~EndsAt(ev, c) => Lacks(ds[Len(ds)], t, c)
<1>1. PICK N, E, F : N = Len(cs) /\ E = cs[N] /\ F = ds[N]
  OBVIOUS
<1>2. N \in Nat /\ N > 0 /\ Len(E) \in Nat /\ N \in 1..N
  BY <1>1 DEF Sized
<1>3. Len(ds) = N /\ (\A i \in 1..N : i # N => ds[i] = cs[i]) /\ Joined(F, E, ev)
  BY <1>1 DEF Extended, Joined
<1>4. Nested(E, k) /\ OpenIn(E, act)
  BY <1>1, <1>2 DEF Chunked
<1>5. /\ Nested(F, l)
      /\ \A t, c : OpensAt(F, t, c) <=> OpensAt(E, t, c) \/ OpensAt(ev, t, c)
      /\ \A c : EndsAt(F, c) <=> EndsAt(E, c) \/ EndsAt(ev, c)
  BY <1>2, <1>3, <1>4, NestedJoined
<1>6. \A i \in 1..N : Nested(ds[i], l)
  <2> TAKE i \in 1..N
  <2>1. CASE i = N
    BY <1>1, <1>5, <2>1
  <2>2. CASE i # N
    <3>1. Nested(cs[i], k)
      BY <1>1 DEF Chunked
    <3>2. Nested(ds[i], k)
      BY <1>3, <2>2, <3>1
    <3> QED BY <3>2 DEF Nested, CallsTo
  <2> QED BY <2>1, <2>2
<1>7. \A t, c : OpensAt(E, t, c) => c \in 1..k
  BY <1>4 DEF Nested, CallsTo, OpensAt
<1>8. \A c : EndsAt(E, c) => c \in 1..k
  BY <1>4 DEF Nested, CallsTo, EndsAt
<1>9. \A c : EndsAt(ev, c) => Over(now, c) /\ ~Over(act, c)
  <2> SUFFICES ASSUME NEW c, EndsAt(ev, c) PROVE Over(now, c) /\ ~Over(act, c)
    OBVIOUS
  <2>1. PICK m \in 1..Len(ev) : ev[m].kind = "end" /\ ev[m].call = c
    BY DEF EndsAt
  <2> QED BY <2>1 DEF Ending, Over
<1>10. OpenIn(F, now)
  <2> SUFFICES ASSUME NEW t \in Tracks, NEW n \in 1..Len(now[t])
               PROVE  OpensAt(F, t, now[t][n].call) /\ ~EndsAt(F, now[t][n].call)
    BY DEF OpenIn
  <2>1. PICK c : c = now[t][n].call
    OBVIOUS
  <2>2. ~EndsAt(ev, c)
    BY <1>9, <2>1 DEF Over
  <2>3. CASE \E m \in 1..Len(act[t]) : now[t][n].call = act[t][m].call
    <3>1. OpensAt(E, t, c) /\ ~EndsAt(E, c)
      BY <1>4, <2>1, <2>3 DEF OpenIn
    <3> QED BY <1>5, <2>1, <2>2, <3>1
  <2>4. CASE OpensAt(ev, t, now[t][n].call) /\ now[t][n].call \notin 1..k
    BY <1>5, <1>8, <2>1, <2>2, <2>4
  <2> QED BY <2>3, <2>4 DEF Staying
<1>11. ASSUME Unended(cs, act) PROVE Unended(ds, now)
  <2>1. PICK i \in 1..N : \E t \in Tracks : \E c :
          Lacks(cs[i], t, c) /\ (i = N => Over(act, c))
    BY <1>1, <1>11 DEF Unended
  <2>2. PICK t \in Tracks : \E c : Lacks(cs[i], t, c) /\ (i = N => Over(act, c))
    BY <2>1
  <2>3. PICK c : Lacks(cs[i], t, c) /\ (i = N => Over(act, c))
    BY <2>2
  <2>4. CASE i # N
    <3>1. Lacks(ds[i], t, c)
      BY <1>3, <2>3, <2>4
    <3> QED BY <1>3, <2>4, <3>1 DEF Unended
  <2>5. CASE i = N
    <3>1. OpensAt(E, t, c) /\ ~EndsAt(E, c) /\ Over(act, c)
      BY <1>1, <2>3, <2>5 DEF Lacks
    <3>2. Lacks(F, t, c)
      BY <1>5, <1>9, <3>1 DEF Lacks
    <3>3. c \in 1..k
      BY <1>7, <3>1
    <3>4. Over(now, c)
      <4> SUFFICES ASSUME NEW u \in Tracks, NEW n \in 1..Len(now[u]) PROVE now[u][n].call # c
        BY DEF Over
      <4> QED BY <3>1, <3>3 DEF Staying, Over
    <3> QED BY <1>1, <1>2, <1>3, <3>2, <3>4 DEF Unended
  <2> QED BY <2>4, <2>5
<1>12. \A t, c : Lacks(E, t, c) /\ ~EndsAt(ev, c) => Lacks(F, t, c)
  BY <1>5 DEF Lacks
<1> QED BY <1>1, <1>3, <1>6, <1>10, <1>11, <1>12 DEF Chunked

Opening(ev, act) ==
  /\ \A m \in 1..Len(ev) : ev[m].kind # "end"
  /\ \A t \in Tracks : \A n \in 1..Len(act[t]) : OpensAt(ev, t, act[t][n].call)

LEMMA ChunkedAdded ==
  ASSUME NEW cs, NEW ds, NEW ev, Sized(cs), Len(ev) \in Nat, Added(ds, cs, ev),
         NEW k \in Nat, NEW act, NEW now, \A i \in 1..Len(cs) : Nested(cs[i], k),
         CallsTo(ev, k), Opening(ev, now)
  PROVE  Chunked(ds, now, k) /\ (Unended(cs, act) => Unended(ds, now))
<1>1. PICK N : N = Len(cs)
  OBVIOUS
<1>2. /\ N \in Nat /\ Len(ds) = N + 1 /\ ds[N + 1] = ev /\ \A i \in 1..N : ds[i] = cs[i]
  BY <1>1 DEF Sized, Added
<1>3. /\ \A i \in 1..(N + 1) : i \in 1..N \/ i = N + 1
      /\ \A i \in 1..N : i \in 1..(N + 1) /\ i # N + 1
  BY <1>2
<1>4. Nested(ev, k) /\ \A c : ~EndsAt(ev, c)
  BY DEF Nested, EndsOnce, EndsOpened, EndsAt, Opening
<1>5. \A i \in 1..(N + 1) : Nested(ds[i], k)
  <2> TAKE i \in 1..(N + 1)
  <2>1. CASE i \in 1..N
    <3>1. Nested(cs[i], k)
      BY <1>1, <2>1
    <3> QED BY <1>2, <2>1, <3>1
  <2>2. CASE i = N + 1
    BY <1>2, <1>4, <2>2
  <2> QED BY <1>3, <2>1, <2>2
<1>6. OpenIn(ev, now)
  BY <1>4 DEF OpenIn, Opening
<1>7. ASSUME Unended(cs, act) PROVE Unended(ds, now)
  <2>1. PICK i \in 1..N : \E t \in Tracks : \E c : Lacks(cs[i], t, c)
    BY <1>1, <1>7 DEF Unended
  <2>2. i \in 1..Len(ds) /\ i # Len(ds) /\ ds[i] = cs[i]
    BY <1>2, <1>3
  <2> QED BY <2>1, <2>2 DEF Unended
<1> QED BY <1>2, <1>5, <1>6, <1>7 DEF Chunked

----------------------------------------------------------------------------
(* The events of a boundary: each call that is open, and once.               *)
LEMMA Descends ==
  ASSUME NEW n \in Nat, NEW f, \A m \in 0..n : f[m] \in Nat,
         \A m \in 1..n : f[m] <= f[m - 1],
         NEW a \in 0..n, NEW b \in 0..n, a <= b
  PROVE  f[b] <= f[a]
<1> SUFFICES ASSUME ~(f[b] <= f[a]) PROVE FALSE
  OBVIOUS
<1>1. PICK S : S = {m \in 0..n : a <= m /\ ~(f[m] <= f[a])}
  OBVIOUS
<1>2. S \in SUBSET Nat /\ S # {}
  BY <1>1
<1>3. PICK m \in S : \A j \in S : m <= j
  BY <1>2, Least
<1>4. m \in 0..n /\ a <= m /\ ~(f[m] <= f[a]) /\ m # a
  BY <1>1
<1>5. m - 1 \in 0..n /\ a <= m - 1 /\ m \in 1..n /\ ~(m <= m - 1)
  BY <1>4
<1>6. f[m - 1] <= f[a]
  BY <1>1, <1>3, <1>5
<1>7. f[m] <= f[m - 1] /\ f[m] \in Nat /\ f[m - 1] \in Nat /\ f[a] \in Nat
  BY <1>4, <1>5
<1> QED BY <1>4, <1>6, <1>7

LEMMA ClosesOnce ==
  ASSUME NEW act \in [Tracks -> Seq(Called)], Different(act), NEW ev, Len(ev) \in Nat, NEW K,
         Bordering(ev, act, "end", K)
  PROVE  EndsOnce(ev)
<1> SUFFICES ASSUME NEW p \in 1..Len(ev), NEW q \in 1..Len(ev), ev[p].call = ev[q].call, p < q
             PROVE  FALSE
  BY DEF EndsOnce
<1>1. /\ \A m \in 0..Len(ev) : \A u \in Tracks : K[m][u] \in 0..Len(act[u])
      /\ \A m \in 1..Len(ev) : Border(act, K[m - 1], K[m], ev[m], "end")
  BY DEF Bordering, Bordered
<1>2. \A u \in Tracks : Len(act[u]) \in Nat
  <2> TAKE u \in Tracks
  <2>1. act[u] \in Seq(Called)
    OBVIOUS
  <2> QED BY <2>1, LenProperties
<1> DEFINE Closed(m) == \E u \in Tracks : \E k \in 1..Len(act[u]) :
                          ev[m].call = act[u][k].call /\ K[m - 1][u] = k /\ K[m][u] = k - 1
<1>12. ASSUME NEW m \in 1..Len(ev) PROVE Closed(m)
  <2>1. Border(act, K[m - 1], K[m], ev[m], "end")
    BY <1>1
  <2>2. PICK u \in Tracks : \E k \in 1..Len(act[u]) :
          CallOf(ev[m]) = act[u][k] /\ K[m - 1][u] = k /\ K[m][u] = k - 1
    BY <2>1 DEF Border
  <2>3. PICK k \in 1..Len(act[u]) :
          CallOf(ev[m]) = act[u][k] /\ K[m - 1][u] = k /\ K[m][u] = k - 1
    BY <2>2
  <2>4. CallOf(ev[m]).call = ev[m].call
    BY DEF CallOf
  <2> QED BY <2>3, <2>4
<1>13. Closed(p) /\ Closed(q)
  BY <1>12
<1>14. PICK t \in Tracks : \E k \in 1..Len(act[t]) :
         ev[p].call = act[t][k].call /\ K[p - 1][t] = k /\ K[p][t] = k - 1
  BY <1>13
<1>3. PICK k \in 1..Len(act[t]) :
        ev[p].call = act[t][k].call /\ K[p - 1][t] = k /\ K[p][t] = k - 1
  BY <1>14
<1>15. PICK u \in Tracks : \E j \in 1..Len(act[u]) :
         ev[q].call = act[u][j].call /\ K[q - 1][u] = j /\ K[q][u] = j - 1
  BY <1>13
<1>4. PICK j \in 1..Len(act[u]) :
        ev[q].call = act[u][j].call /\ K[q - 1][u] = j /\ K[q][u] = j - 1
  BY <1>15
<1>5. u = t /\ j = k
  <2>1. act[u][j].call = act[t][k].call
    BY <1>3, <1>4
  <2> QED BY <2>1 DEF Different
<1>6. PICK f : f = [m \in 0..Len(ev) |-> K[m][t]]
  OBVIOUS
<1>7. \A m \in 0..Len(ev) : f[m] \in Nat
  <2> TAKE m \in 0..Len(ev)
  <2>1. K[m][t] \in 0..Len(act[t]) /\ Len(act[t]) \in Nat
    BY <1>1, <1>2
  <2> QED BY <1>6, <2>1
<1>8. \A m \in 1..Len(ev) : f[m] <= f[m - 1]
  <2> TAKE m \in 1..Len(ev)
  <2>1. m - 1 \in 0..Len(ev) /\ m \in 0..Len(ev)
    OBVIOUS
  <2>7. Border(act, K[m - 1], K[m], ev[m], "end")
    BY <1>1
  <2>6. PICK v \in Tracks : \E i \in 1..Len(act[v]) :
          /\ K[m - 1][v] = i /\ K[m][v] = i - 1
          /\ \A w \in Tracks : w # v => K[m - 1][w] = K[m][w]
    BY <2>7 DEF Border
  <2>2. PICK i \in 1..Len(act[v]) :
          /\ K[m - 1][v] = i /\ K[m][v] = i - 1
          /\ \A w \in Tracks : w # v => K[m - 1][w] = K[m][w]
    BY <2>6
  <2>3. f[m] = K[m][t] /\ f[m - 1] = K[m - 1][t] /\ f[m] \in Nat /\ f[m - 1] \in Nat
    BY <1>6, <1>7, <2>1
  <2>4. CASE v = t
    <3>1. f[m - 1] = i /\ f[m] = i - 1
      BY <2>2, <2>3, <2>4
    <3>2. i \in Nat
      BY <1>2
    <3> QED BY <3>1, <3>2
  <2>5. CASE v # t
    BY <2>2, <2>3, <2>5
  <2> QED BY <2>4, <2>5
<1>9. p \in 0..Len(ev) /\ q - 1 \in 0..Len(ev) /\ p <= q - 1
  OBVIOUS
<1>10. f[q - 1] <= f[p]
  BY <1>7, <1>8, <1>9, Descends
<1>11. f[q - 1] = k /\ f[p] = k - 1 /\ k \in Nat
  BY <1>2, <1>3, <1>4, <1>5, <1>6, <1>9
<1> QED BY <1>10, <1>11

LEMMA ReopensEach ==
  ASSUME NEW act \in [Tracks -> Seq(Called)], NEW ev, Len(ev) \in Nat, NEW K,
         Bordering(ev, act, "reopen", K), NEW t \in Tracks, NEW n \in 1..Len(act[t])
  PROVE  OpensAt(ev, t, act[t][n].call)
<1>1. /\ \A m \in 0..Len(ev) : K[m][t] \in 0..Len(act[t])
      /\ \A m \in 1..Len(ev) : Border(act, K[m - 1], K[m], ev[m], "reopen")
      /\ K[0][t] = 0 /\ K[Len(ev)][t] = Len(act[t])
  BY DEF Bordering, Bordered
<1>2. Len(act[t]) \in Nat
  <2>1. act[t] \in Seq(Called)
    OBVIOUS
  <2> QED BY <2>1, LenProperties
<1>3. PICK S : S = {m \in 0..Len(ev) : n <= K[m][t]}
  OBVIOUS
<1>4. S \in SUBSET Nat /\ Len(ev) \in S
  BY <1>1, <1>2, <1>3
<1>5. PICK m \in S : \A j \in S : m <= j
  BY <1>4, Least
<1>6. m \in 0..Len(ev) /\ n <= K[m][t] /\ m # 0
  BY <1>1, <1>2, <1>3
<1>7. m \in 1..Len(ev) /\ m - 1 \in 0..Len(ev) /\ ~(m <= m - 1)
  BY <1>6
<1>8. ~(n <= K[m - 1][t])
  BY <1>3, <1>5, <1>7
<1>12. Border(act, K[m - 1], K[m], ev[m], "reopen")
  BY <1>1, <1>7
<1>13. PICK u \in Tracks : \E k \in 1..Len(act[u]) :
         /\ ev[m].kind = "reopen" /\ ev[m].track = u /\ CallOf(ev[m]) = act[u][k]
         /\ K[m - 1][u] = k - 1 /\ K[m][u] = k
         /\ \A v \in Tracks : v # u => K[m - 1][v] = K[m][v]
  BY <1>12 DEF Border
<1>14. PICK k \in 1..Len(act[u]) :
         /\ ev[m].kind = "reopen" /\ ev[m].track = u /\ CallOf(ev[m]) = act[u][k]
         /\ K[m - 1][u] = k - 1 /\ K[m][u] = k
         /\ \A v \in Tracks : v # u => K[m - 1][v] = K[m][v]
  BY <1>13
<1>15. CallOf(ev[m]).call = ev[m].call
  BY DEF CallOf
<1>9. /\ ev[m].kind = "reopen" /\ ev[m].track = u /\ ev[m].call = act[u][k].call
      /\ K[m - 1][u] = k - 1 /\ K[m][u] = k
      /\ \A v \in Tracks : v # u => K[m - 1][v] = K[m][v]
  BY <1>14, <1>15
<1>10. u = t
  BY <1>6, <1>8, <1>9
<1>11. k = n
  BY <1>2, <1>6, <1>8, <1>9, <1>10
<1> QED BY <1>7, <1>9, <1>10, <1>11 DEF OpensAt

Endings ==
  "dropped" \notin faults =>
    /\ Chunked(chunks, active, calls)
    /\ "unended" \in faults => Unended(chunks, active)

LEMMA CallsHeld ==
  ASSUME NEW cs, NEW act, NEW k, Sized(cs), Chunked(cs, act, k), NEW t \in Tracks,
         NEW n \in 1..Len(act[t])
  PROVE  act[t][n].call \in 1..k
<1>1. Len(cs) \in 1..Len(cs)
  BY DEF Sized
<1>2. OpensAt(cs[Len(cs)], t, act[t][n].call) /\ CallsTo(cs[Len(cs)], k)
  BY <1>1 DEF Chunked, OpenIn, Nested
<1> QED BY <1>2 DEF OpensAt, CallsTo

LEMMA EnterEndings ==
  ASSUME Recorded, Noted, Endings, NEW t \in Tracks, NEW f \in Functions, Enter(t, f)
  PROVE  Endings'
<1> DEFINE z == [call |-> calls + 1, function |-> f]
<1>1. /\ calls' = calls + 1 /\ faults' = faults
      /\ active' = [active EXCEPT ![t] = Append(active[t], z)]
  BY DEF Enter
<1>2. calls \in Nat /\ active \in [Tracks -> Seq(Called)] /\ Sized(chunks)
  BY ChunksSized DEF Recorded, Noted
<1>3. z \in Called /\ z.call = calls + 1
  BY <1>2 DEF Called
<1> HIDE DEF z
<1>4. PICK e : /\ Extended(chunks', chunks, <<e>>) /\ e.kind = "enter" /\ e.track = t
               /\ e.call = calls + 1
  BY EnterEvents
<1>5. PICK ev, ds, cs, act, now, k :
        ev = <<e>> /\ ds = chunks' /\ cs = chunks /\ act = active /\ now = active' /\ k = calls
  OBVIOUS
<1>6. Len(ev) = 1 /\ ev[1] = e /\ \A m \in 1..1 : m = 1
  BY <1>5
<1>7. SUFFICES ASSUME "dropped" \notin faults, Chunked(cs, act, k)
               PROVE  Chunked(ds, now, k + 1) /\ (Unended(cs, act) => Unended(ds, now))
  <2>1. Endings' <=> ("dropped" \notin faults =>
                        /\ Chunked(ds, now, k + 1)
                        /\ "unended" \in faults => Unended(ds, now))
    BY <1>1, <1>5 DEF Endings
  <2>2. "dropped" \notin faults => Chunked(cs, act, k) /\ ("unended" \in faults => Unended(cs, act))
    BY <1>5 DEF Endings
  <2> QED BY <2>1, <2>2
<1>8. OpensAt(ev, t, k + 1)
  <2>1. 1 \in 1..Len(ev) /\ ev[1].kind \in {"enter", "reopen"} /\ ev[1].track = t
        /\ ev[1].call = k + 1
    BY <1>4, <1>5, <1>6
  <2> QED BY <2>1 DEF OpensAt
<1>9. k \in Nat /\ k + 1 \in Nat /\ k <= k + 1 /\ k + 1 \notin 1..k /\ k + 1 \in 1..(k + 1)
  BY <1>2, <1>5
<1>10. CallsTo(ev, k + 1) /\ EndsOnce(ev) /\ Ending(ev, act, now)
  BY <1>4, <1>5, <1>6, <1>9 DEF CallsTo, EndsOnce, Ending
<1>11. Staying(ev, act, now, k)
  <2> SUFFICES ASSUME NEW u \in Tracks, NEW n \in 1..Len(now[u])
               PROVE  \/ \E m \in 1..Len(act[u]) : now[u][n].call = act[u][m].call
                      \/ OpensAt(ev, u, now[u][n].call) /\ now[u][n].call \notin 1..k
    BY DEF Staying
  <2>1. CASE u # t
    <3>1. now[u] = act[u]
      BY <1>1, <1>2, <1>5, <2>1
    <3> QED BY <3>1
  <2>2. CASE u = t
    <3>1. now[t] = Append(act[t], z) /\ act[t] \in Seq(Called)
      BY <1>1, <1>2, <1>5
    <3>2. PICK l : l = Len(act[t])
      OBVIOUS
    <3>3. /\ l \in Nat /\ Len(now[t]) = l + 1 /\ now[t][l + 1] = z
          /\ \A m \in 1..l : now[t][m] = act[t][m]
      <4> HIDE DEF Called
      <4> QED BY <1>3, <3>1, <3>2, AppendProperties, LenProperties
    <3>4. n \in 1..l \/ n = l + 1
      BY <2>2, <3>3
    <3> QED BY <1>3, <1>5, <1>8, <1>9, <2>2, <3>2, <3>3, <3>4
  <2> QED BY <2>1, <2>2
<1>12. Sized(cs) /\ Len(ev) \in Nat /\ Extended(ds, cs, ev)
  BY <1>2, <1>4, <1>5, <1>6
<1> QED BY <1>7, <1>9, <1>10, <1>11, <1>12, ChunkedExtended

LEMMA ReturnEndings ==
  ASSUME Recorded, Noted, Witnessed, Endings, NEW t \in Tracks,
         \/ Return(t) \/ ReturnUnprobed(t)
         \/ \E f \in {"twice", "unended"} : ReturnMalformed(t, f)
  PROVE  Endings'
<1>1. /\ active[t] # <<>> /\ active' = [active EXCEPT ![t] = Front(active[t])]
      /\ calls' = calls
  BY ReturnEvents
<1>2. PICK ev, f : /\ Extended(chunks', chunks, ev) /\ Returned(ev, t, Last(active[t]).call, f)
                   /\ \/ f = "none" /\ faults' = faults
                      \/ f \in Malformed /\ faults' = faults \cup {f}
  BY ReturnEvents
<1>3. active \in [Tracks -> Seq(Called)] /\ Sized(chunks) /\ calls \in Nat
  BY ChunksSized DEF Noted, Recorded
<1>4. PICK c, ds, now, cs, act, k :
        /\ c = Last(active[t]).call /\ ds = chunks' /\ now = active' /\ cs = chunks
        /\ act = active /\ k = calls
  OBVIOUS
<1>5. Popped(act, t, now) /\ act \in [Tracks -> Seq(Called)]
  BY <1>1, <1>3, <1>4 DEF Popped
<1>shown. /\ \A u \in Tracks : /\ Len(now[u]) \in 0..Len(act[u])
                               /\ \A n \in 1..Len(now[u]) : now[u][n] = act[u][n]
          /\ \E n \in 1..Len(act[t]) : act[t][n].call = Last(act[t]).call
          /\ Different(act) => Over(now, Last(act[t]).call)
  <2>1. t \in Tracks
    OBVIOUS
  <2> QED BY ONLY <1>5, <2>1, PoppedIs
<1>6. /\ \A u \in Tracks : /\ Len(now[u]) \in 0..Len(act[u])
                           /\ \A n \in 1..Len(now[u]) : now[u][n] = act[u][n]
      /\ \E n \in 1..Len(act[t]) : act[t][n].call = c
  BY <1>4, <1>shown
<1>7. /\ Len(ev) \in 1..3
      /\ \A m \in 1..Len(ev) : /\ ev[m].call = c /\ ev[m].track = t
                               /\ ev[m].kind = "end" <=> m = Len(ev) /\ f # "unended"
  BY <1>2, <1>4 DEF Returned
<1>8. "dropped" \in faults' <=> "dropped" \in faults
  BY <1>2 DEF Malformed
<1>9. SUFFICES ASSUME "dropped" \notin faults, Chunked(cs, act, k)
               PROVE  /\ Chunked(ds, now, k) /\ (Unended(cs, act) => Unended(ds, now))
                      /\ f = "unended" => Unended(ds, now)
  <2>1. Endings' <=> ("dropped" \notin faults' =>
                        /\ Chunked(ds, now, k)
                        /\ "unended" \in faults' => Unended(ds, now))
    BY <1>1, <1>4 DEF Endings
  <2>2. "dropped" \notin faults => Chunked(cs, act, k) /\ ("unended" \in faults => Unended(cs, act))
    BY <1>4 DEF Endings
  <2>3. "unended" \in faults' => "unended" \in faults \/ f = "unended"
    BY <1>2
  <2> QED BY <1>8, <2>1, <2>2, <2>3
<1>10. Over(now, c)
  <2>1. Different(act)
    BY <1>4, <1>9 DEF Witnessed, Going
  <2> QED BY <1>4, <1>shown, <2>1
<1>11. Sized(cs) /\ Len(ev) \in Nat /\ Extended(ds, cs, ev) /\ k \in Nat /\ k <= k
  BY <1>2, <1>3, <1>4, <1>7
<1>12. c \in 1..k
  <2>1. PICK n \in 1..Len(act[t]) : act[t][n].call = c
    BY <1>6
  <2> QED BY <1>9, <1>11, <2>1, CallsHeld
<1>13. CallsTo(ev, k) /\ EndsOnce(ev) /\ Ending(ev, act, now)
  BY <1>6, <1>7, <1>10, <1>12 DEF CallsTo, EndsOnce, Ending
<1>14. Staying(ev, act, now, k)
  <2>1. \A u \in Tracks : \A n \in 1..Len(now[u]) : n \in 1..Len(act[u]) /\ now[u][n] = act[u][n]
    <3> TAKE u \in Tracks
    <3>1. act[u] \in Seq(Called)
      BY <1>5
    <3>2. Len(act[u]) \in Nat
      BY <3>1, LenProperties
    <3> QED BY <1>6, <3>2
  <2> QED BY <2>1 DEF Staying
<1>15. /\ Chunked(ds, now, k) /\ (Unended(cs, act) => Unended(ds, now))
       /\ \A u, d : Lacks(cs[Len(cs)], u, d) /\ ~EndsAt(ev, d) => Lacks(ds[Len(ds)], u, d)
  BY <1>9, <1>11, <1>13, <1>14, ChunkedExtended
<1>16. ASSUME f = "unended" PROVE Unended(ds, now)
  <2>1. PICK n \in 1..Len(act[t]) : act[t][n].call = c
    BY <1>6
  <2>2. Lacks(cs[Len(cs)], t, c)
    BY <1>9, <2>1 DEF Chunked, OpenIn, Lacks
  <2>3. ~EndsAt(ev, c)
    BY <1>7, <1>16 DEF EndsAt
  <2>4. Lacks(ds[Len(ds)], t, c)
    BY <1>15, <2>2, <2>3
  <2>5. Len(ds) \in 1..Len(ds)
    BY <1>11 DEF Extended, Sized
  <2> QED BY <1>10, <2>4, <2>5 DEF Unended
<1> QED BY <1>15, <1>16

LEMMA RotateEndings ==
  ASSUME Recorded, Noted, Witnessed, Endings, Rotate
  PROVE  Endings'
<1>1. PICK closed, closes, reopened, K, J : Turns(closed, closes, reopened, K, J)
  BY RotateEvents
<1>2. active' = active /\ calls' = calls /\ faults' = faults
  BY RotateEvents
<1>3. PICK ds, cs, act, none, k :
        ds = chunks' /\ cs = chunks /\ act = active /\ none = [u \in Tracks |-> <<>>] /\ k = calls
  OBVIOUS
<1>4. /\ Len(closes) \in Nat /\ Len(reopened) \in Nat
      /\ Extended(closed, cs, closes) /\ Added(ds, closed, reopened)
      /\ Bordering(closes, act, "end", K) /\ Bordering(reopened, act, "reopen", J)
  BY <1>1, <1>3 DEF Turns
<1>5. act \in [Tracks -> Seq(Called)] /\ Sized(cs) /\ k \in Nat /\ k <= k
  BY <1>3, ChunksSized DEF Noted, Recorded
<1>6. Sized(closed)
  BY <1>4, <1>5, InExtended
<1>7. SUFFICES ASSUME "dropped" \notin faults, Chunked(cs, act, k)
               PROVE  Chunked(ds, act, k) /\ (Unended(cs, act) => Unended(ds, act))
  BY <1>2, <1>3 DEF Endings
<1>8. Different(act)
  BY <1>3, <1>7 DEF Witnessed, Going
<1>9. \A m \in 1..Len(closes) :
        /\ closes[m].kind = "end" /\ closes[m].track \in Tracks
        /\ \E n \in 1..Len(act[closes[m].track]) : act[closes[m].track][n].call = closes[m].call
  <2> TAKE m \in 1..Len(closes)
  <2>1. Border(act, K[m - 1], K[m], closes[m], "end")
    BY <1>4 DEF Bordering
  <2>2. PICK u \in Tracks : \E n \in 1..Len(act[u]) :
          closes[m].kind = "end" /\ closes[m].track = u /\ CallOf(closes[m]) = act[u][n]
    BY <2>1 DEF Border
  <2>3. CallOf(closes[m]).call = closes[m].call
    BY DEF CallOf
  <2> QED BY <2>2, <2>3
<1>10. \A m \in 1..Len(reopened) :
        /\ reopened[m].kind = "reopen" /\ reopened[m].track \in Tracks
        /\ \E n \in 1..Len(act[reopened[m].track]) :
             act[reopened[m].track][n].call = reopened[m].call
  <2> TAKE m \in 1..Len(reopened)
  <2>1. Border(act, J[m - 1], J[m], reopened[m], "reopen")
    BY <1>4 DEF Bordering
  <2>2. PICK u \in Tracks : \E n \in 1..Len(act[u]) :
          reopened[m].kind = "reopen" /\ reopened[m].track = u /\ CallOf(reopened[m]) = act[u][n]
    BY <2>1 DEF Border
  <2>3. CallOf(reopened[m]).call = reopened[m].call
    BY DEF CallOf
  <2> QED BY <2>2, <2>3
<1>11. EndsOnce(closes)
  BY <1>4, <1>5, <1>8, ClosesOnce
<1>12. \A u \in Tracks : Len(none[u]) = 0
  BY <1>3
<1>13. Ending(closes, act, none) /\ Staying(closes, act, none, k)
  BY <1>9, <1>12 DEF Ending, Staying, Over
<1>14. CallsTo(closes, k)
  <2> SUFFICES ASSUME NEW m \in 1..Len(closes) PROVE closes[m].call \in 1..k
    BY DEF CallsTo
  <2>1. PICK n \in 1..Len(act[closes[m].track]) : act[closes[m].track][n].call = closes[m].call
    BY <1>9
  <2> QED BY <1>5, <1>7, <1>9, <2>1, CallsHeld
<1>15. CallsTo(reopened, k)
  <2> SUFFICES ASSUME NEW m \in 1..Len(reopened) PROVE reopened[m].call \in 1..k
    BY DEF CallsTo
  <2>1. PICK n \in 1..Len(act[reopened[m].track]) :
          act[reopened[m].track][n].call = reopened[m].call
    BY <1>10
  <2> QED BY <1>5, <1>7, <1>10, <2>1, CallsHeld
<1>16. Chunked(closed, none, k) /\ (Unended(cs, act) => Unended(closed, none))
  BY <1>4, <1>5, <1>7, <1>11, <1>13, <1>14, ChunkedExtended
<1>17. \A u \in Tracks : \A n \in 1..Len(act[u]) : OpensAt(reopened, u, act[u][n].call)
  BY <1>4, <1>5, ReopensEach
<1>18. (\A i \in 1..Len(closed) : Nested(closed[i], k)) /\ Opening(reopened, act)
  BY <1>10, <1>16, <1>17 DEF Chunked, Opening
<1>19. Chunked(ds, act, k) /\ (Unended(closed, none) => Unended(ds, act))
  BY <1>4, <1>5, <1>6, <1>15, <1>18, ChunkedAdded
<1> QED BY <1>16, <1>19

LEMMA CrashEndings ==
  ASSUME Recorded, Noted, Endings, Crash
  PROVE  Endings'
<1>1. /\ active' = [u \in Tracks |-> <<>>] /\ chunks' = Append(chunks, <<>>) /\ calls' = calls
      /\ faults' = faults \cup {"crash"}
  BY DEF Crash, Fault
<1>2. PICK ds, cs, act, now, k, ev :
        /\ ds = chunks' /\ cs = chunks /\ act = active /\ now = active' /\ k = calls
        /\ ev = <<>>
  OBVIOUS
<1>3. Sized(cs) /\ k \in Nat
  BY <1>2, ChunksSized DEF Recorded
<1>4. Added(ds, cs, ev) /\ Len(ev) = 0
  <2>1. PICK S : chunks \in Seq(Seq(S))
    BY ChunksSized
  <2>2. ev \in Seq({})
    BY <1>2
  <2>3. Added(Append(chunks, ev), chunks, ev)
    BY <2>1, <2>2, ChunkAppended
  <2> QED BY <1>1, <1>2, <2>3
<1>5. "dropped" \in faults' <=> "dropped" \in faults
  BY <1>1
<1>6. "unended" \in faults' <=> "unended" \in faults
  BY <1>1
<1>7. SUFFICES ASSUME "dropped" \notin faults, Chunked(cs, act, k)
               PROVE  Chunked(ds, now, k) /\ (Unended(cs, act) => Unended(ds, now))
  BY <1>1, <1>2, <1>5, <1>6 DEF Endings
<1>8. \A u \in Tracks : Len(now[u]) = 0
  BY <1>1, <1>2
<1>9. CallsTo(ev, k) /\ Opening(ev, now)
  BY <1>4, <1>8 DEF CallsTo, Opening
<1>10. \A i \in 1..Len(cs) : Nested(cs[i], k)
  BY <1>7 DEF Chunked
<1>11. Len(ev) \in Nat /\ Added(ds, cs, ev)
  BY <1>4
<1> QED BY <1>3, <1>9, <1>10, <1>11, ChunkedAdded

LEMMA EndingsStep ==
  ASSUME Recorded, Noted, Witnessed, Endings, [Next]_vars
  PROVE  Endings'
<1>1. CASE UNCHANGED vars
  BY <1>1 DEF vars, recording, recorded, Endings
<1>2. CASE \E t \in Tracks, f \in Functions : Enter(t, f)
  BY <1>2, EnterEndings
<1>3. CASE \/ \E t \in Tracks : Return(t) \/ ReturnUnprobed(t)
           \/ \E t \in Tracks, f \in {"twice", "unended"} : ReturnMalformed(t, f)
  BY <1>3, ReturnEndings
<1>4. CASE Drop
  <2>1. faults' = faults \cup {"dropped"}
    BY <1>4 DEF Drop, Fault
  <2> QED BY <2>1 DEF Endings
<1>5. CASE Rotate
  BY <1>5, RotateEndings
<1>6. CASE Crash
  BY <1>6, CrashEndings
<1>7. CASE \/ BuildAll \/ \E n \in DOMAIN chunks : BuildWithout(n)
           \/ \E n \in 1..(Len(chunks) - 1) : BuildSwapped(n)
  <2>1. PICK happened \in {{}, {"lost"}, {"swapped"}} :
          faults' = faults \cup happened /\ UNCHANGED recorded
    BY <1>7 DEF BuildAll, BuildWithout, BuildSwapped, Build
  <2>2. ("dropped" \in faults' <=> "dropped" \in faults)
        /\ ("unended" \in faults' <=> "unended" \in faults)
    BY <2>1
  <2> QED BY <2>1, <2>2 DEF Endings, recorded
<1>8. CASE VerifyEnter \/ VerifyReopen \/ VerifyExitProbe \/ VerifySliceEnd \/ VerifyFinish
  <2>1. UNCHANGED recorded /\ faults' = faults
    BY <1>8 DEF VerifyEnter, VerifyReopen, VerifyExitProbe, VerifySliceEnd, VerifyFinish, Handle,
                recording
  <2> QED BY <2>1 DEF Endings, recorded
<1> QED BY <1>1, <1>2, <1>3, <1>4, <1>5, <1>6, <1>7, <1>8 DEF Next

----------------------------------------------------------------------------
(* What is recorded is read, unless a chunk is lost.                         *)
Reordered(cs, ds) ==
  /\ \A i \in 1..Len(ds) : \E j \in 1..Len(cs) : cs[j] = ds[i]
  /\ \A j \in 1..Len(cs) : \E i \in 1..Len(ds) : cs[j] = ds[i]
Tables(cs, from) ==
  Tabled(cs, rows, from) /\ Reordered(cs, chunks) /\ \E S : cs \in Seq(Seq(S))
Passed == phase # "record" /\ "lost" \notin faults => \E cs, from : Tables(cs, from)

LEMMA SwappedReordered ==
  ASSUME NEW S, NEW cs \in Seq(Seq(S)), NEW n \in 1..(Len(cs) - 1)
  PROVE  LET ds == [cs EXCEPT ![n] = cs[n + 1], ![n + 1] = cs[n]]
         IN  Reordered(ds, cs) /\ ds \in Seq(Seq(S))
<1>1. PICK N, ds, m : /\ N = Len(cs) /\ ds = [cs EXCEPT ![n] = cs[n + 1], ![n + 1] = cs[n]]
                      /\ m = n + 1
  OBVIOUS
<1>2. N \in Nat /\ DOMAIN cs = 1..N /\ \A i \in 1..N : cs[i] \in Seq(S)
  BY <1>1, ChunksTyped
<1>3. n \in 1..N /\ m \in 1..N /\ n # m
  BY <1>1, <1>2
<1>4. /\ ds[n] = cs[m] /\ ds[m] = cs[n] /\ \A i \in 1..N : i # n /\ i # m => ds[i] = cs[i]
      /\ DOMAIN ds = 1..N /\ ds = [i \in 1..N |-> ds[i]]
  BY <1>1, <1>2, <1>3
<1>5. \A i \in 1..N : ds[i] \in Seq(S)
  <2> TAKE i \in 1..N
  <2>1. i = n \/ i = m \/ (i # n /\ i # m)
    OBVIOUS
  <2> QED BY <1>2, <1>3, <1>4, <2>1
<1>6. ds \in [1..N -> Seq(S)]
  BY <1>4, <1>5
<1>7. ds \in Seq(Seq(S)) /\ Len(ds) = N
  BY <1>2, <1>6, FunctionIsSeq
<1>8. \A i \in 1..N : \E j \in 1..N : ds[j] = cs[i]
  <2> TAKE i \in 1..N
  <2>1. CASE i = n
    BY <1>3, <1>4, <2>1
  <2>2. CASE i = m
    BY <1>3, <1>4, <2>2
  <2>3. CASE i # n /\ i # m
    BY <1>4, <2>3
  <2> QED BY <2>1, <2>2, <2>3
<1>9. \A j \in 1..N : \E i \in 1..N : ds[j] = cs[i]
  <2> TAKE j \in 1..N
  <2>1. CASE j = n
    BY <1>3, <1>4, <2>1
  <2>2. CASE j = m
    BY <1>3, <1>4, <2>2
  <2>3. CASE j # n /\ j # m
    BY <1>4, <2>3
  <2> QED BY <2>1, <2>2, <2>3
<1>10. Reordered(ds, cs)
  BY <1>1, <1>7, <1>8, <1>9 DEF Reordered
<1> QED BY <1>1, <1>7, <1>10

LEMMA BuildPassed ==
  ASSUME Recorded,
         \/ BuildAll \/ \E n \in DOMAIN chunks : BuildWithout(n)
         \/ \E n \in 1..(Len(chunks) - 1) : BuildSwapped(n)
  PROVE  Passed'
<1>1. PICK S : chunks \in Seq(Seq(S))
  BY ChunksSized
<1>2. CASE \E n \in DOMAIN chunks : BuildWithout(n)
  <2>1. "lost" \in faults'
    BY <1>2 DEF BuildWithout, Build
  <2> QED BY <2>1 DEF Passed
<1>3. ASSUME NEW cs \in Seq(Seq(S)), Reordered(cs, chunks), rows' = Rows(cs), chunks' = chunks
      PROVE  Passed'
  <2>1. PICK from : Tabled(cs, Rows(cs), from)
    BY <1>3, RowsTabled
  <2>2. Tabled(cs, rows', from)
    BY <1>3, <2>1
  <2>3. Reordered(cs, chunks')
    BY <1>3
  <2>4. Tables(cs, from)'
    BY <2>2, <2>3 DEF Tables
  <2> QED BY <2>4 DEF Passed
<1>4. CASE BuildAll
  <2>1. rows' = Rows(chunks) /\ chunks' = chunks
    BY <1>4 DEF BuildAll, Build, recorded
  <2>2. Reordered(chunks, chunks)
    BY DEF Reordered
  <2> QED BY <1>1, <1>3, <2>1, <2>2
<1>5. CASE \E n \in 1..(Len(chunks) - 1) : BuildSwapped(n)
  <2>1. PICK n \in 1..(Len(chunks) - 1) : BuildSwapped(n)
    BY <1>5
  <2>2. PICK ds : ds = [chunks EXCEPT ![n] = chunks[n + 1], ![n + 1] = chunks[n]]
    OBVIOUS
  <2>3. rows' = Rows(ds) /\ chunks' = chunks
    BY <2>1, <2>2 DEF BuildSwapped, Build, recorded
  <2>4. Reordered(ds, chunks) /\ ds \in Seq(Seq(S))
    BY <1>1, <2>2, SwappedReordered
  <2> QED BY <1>3, <2>3, <2>4
<1> QED BY <1>2, <1>4, <1>5

LEMMA PassedStep ==
  ASSUME Recorded, Passed, [Next]_vars
  PROVE  Passed'
<1>1. ASSUME chunks' = chunks, rows' = rows, faults' = faults, phase # "record" \/ phase' = "record"
      PROVE  Passed'
  BY <1>1 DEF Passed, Tables
<1>2. CASE UNCHANGED vars
  <2>1. chunks' = chunks /\ rows' = rows /\ faults' = faults /\ phase' = phase
    BY <1>2 DEF vars, recording, recorded, indexed
  <2> QED BY <1>1, <2>1
<1>3. CASE \/ \E t \in Tracks, f \in Functions : Enter(t, f)
           \/ \E t \in Tracks : Return(t) \/ ReturnUnprobed(t)
           \/ \E t \in Tracks, f \in {"twice", "unended"} : ReturnMalformed(t, f)
           \/ Drop \/ Rotate \/ Crash
  <2>1. phase' = phase /\ phase = "record"
    BY <1>3 DEF Enter, Return, ReturnUnprobed, ReturnMalformed, Drop, Rotate, Crash
  <2> QED BY <2>1 DEF Passed
<1>4. CASE \/ BuildAll \/ \E n \in DOMAIN chunks : BuildWithout(n)
           \/ \E n \in 1..(Len(chunks) - 1) : BuildSwapped(n)
  BY <1>4, BuildPassed
<1>5. CASE VerifyEnter \/ VerifyReopen \/ VerifyExitProbe \/ VerifySliceEnd \/ VerifyFinish
  <2>1. chunks' = chunks /\ rows' = rows /\ faults' = faults /\ phase = "verify"
    BY <1>5 DEF VerifyEnter, VerifyReopen, VerifyExitProbe, VerifySliceEnd, VerifyFinish, Handle,
                recording, recorded, indexed, Verifying
  <2> QED BY <1>1, <2>1
<1> QED BY <1>2, <1>3, <1>4, <1>5 DEF Next

(* An event of a chunk and the row that is read of it.                       *)
LEMMA EventRow ==
  ASSUME NEW cs, NEW from, Tables(cs, from), NEW j \in 1..Len(cs), NEW p \in 1..Len(cs[j])
  PROVE  \E n \in DOMAIN rows :
           SameEvent(rows[n], cs[j][p]) /\ rows[n].source = j /\ Place(from, n, j, p)
<1>1. PICK S : cs \in Seq(Seq(S))
  BY DEF Tables
<1>2. DOMAIN cs = 1..Len(cs) /\ \A i \in DOMAIN cs : DOMAIN cs[i] = 1..Len(cs[i])
  BY <1>1, ChunksTyped
<1>3. PICK n \in DOMAIN rows : Place(from, n, j, p)
  BY <1>2 DEF Tables, Tabled
<1> QED BY <1>3 DEF Tables, Tabled, Place

LEMMA RowEvent ==
  ASSUME NEW cs, NEW from, Tables(cs, from), NEW n \in DOMAIN rows
  PROVE  \E j \in 1..Len(cs) : \E p \in 1..Len(cs[j]) :
           SameEvent(rows[n], cs[j][p]) /\ rows[n].source = j /\ Place(from, n, j, p)
<1>1. PICK S : cs \in Seq(Seq(S))
  BY DEF Tables
<1>2. DOMAIN cs = 1..Len(cs) /\ \A i \in DOMAIN cs : DOMAIN cs[i] = 1..Len(cs[i])
  BY <1>1, ChunksTyped
<1>3. PICK j, p : j = from[n][1] /\ p = from[n][2]
  OBVIOUS
<1>4. j \in DOMAIN cs /\ p \in DOMAIN cs[j] /\ SameEvent(rows[n], cs[j][p]) /\ rows[n].source = j
  BY <1>3 DEF Tables, Tabled
<1>5. j \in 1..Len(cs) /\ p \in 1..Len(cs[j])
  BY <1>2, <1>4
<1> QED BY <1>3, <1>4, <1>5 DEF Place

(* No two rows are of one event.                                             *)
LEMMA RowsApart ==
  ASSUME NEW cs, NEW from, Tables(cs, from), NEW n \in DOMAIN rows, NEW m \in DOMAIN rows,
         NEW j, NEW p, Place(from, n, j, p), Place(from, m, j, p), n \in Nat, m \in Nat,
         j \in Nat, p \in Nat
  PROVE  n = m
<1>1. ASSUME NEW a \in DOMAIN rows, NEW b \in DOMAIN rows, a < b,
             Place(from, a, j, p), Place(from, b, j, p)
      PROVE  FALSE
  <2>1. Before(from[a], from[b])
    BY <1>1 DEF Tables, Tabled
  <2> QED BY <1>1, <2>1 DEF Before, Place
<1>2. n = m \/ n < m \/ m < n
  OBVIOUS
<1> QED BY <1>1, <1>2

----------------------------------------------------------------------------
(* The exits: without an issue, what is open or exported has the exits of    *)
(* the probes that are read, one each.                                       *)
ExitsAt(q, c) == \E n \in DOMAIN q : q[n].exit = c
ExitsTold(x, c) == \E e \in x : e.invocation.exit = c
HasExit(o, told, c) == (\E t \in Tracks : ExitsAt(o[t], c)) \/ ExitsTold(told, c)
Probed(d, c) == \E m \in 1..d : rows[m].kind = "probe" /\ rows[m].call = c
ProbedOnce(d) ==
  \A n, m \in 1..d :
    rows[n].kind = "probe" /\ rows[m].kind = "probe" /\ rows[n].call = rows[m].call => n = m
Accounted ==
  issues = {} /\ phase # "record" /\ ~Ambiguous =>
    /\ \A c : c # None => (HasExit(open, exported, c) <=> Probed(done, c))
    /\ ProbedOnce(done)

(* The exits of a stack that grows, shrinks or has its last replaced.        *)
LEMMA AppendExits ==
  ASSUME NEW S, NEW q \in Seq(S), NEW i, NEW c
  PROVE  ExitsAt(Append(q, i), c) <=> ExitsAt(q, c) \/ i.exit = c
<1>1. PICK r : r = Append(q, i)
  OBVIOUS
<1>2. /\ Len(q) \in Nat /\ DOMAIN q = 1..Len(q) /\ DOMAIN r = 1..(Len(q) + 1)
      /\ \A n \in 1..Len(q) : r[n] = q[n]
      /\ r[Len(q) + 1] = i
  BY <1>1, AppendProperties, LenProperties
<1>3. ExitsAt(r, c) <=> ExitsAt(q, c) \/ i.exit = c
  BY <1>2 DEF ExitsAt
<1> QED BY <1>1, <1>3

LEMMA FrontExits ==
  ASSUME NEW S, NEW q \in Seq(S), q # <<>>, NEW c
  PROVE  ExitsAt(q, c) <=> ExitsAt(Front(q), c) \/ Last(q).exit = c
<1>1. PICK r, i : r = Front(q) /\ i = Last(q)
  OBVIOUS
<1>2. /\ Len(q) \in DOMAIN q /\ Len(q) \in Nat /\ DOMAIN q = 1..Len(q) /\ DOMAIN r = 1..(Len(q) - 1)
      /\ \A n \in DOMAIN r : n \in DOMAIN q /\ r[n] = q[n]
      /\ i = q[Len(q)]
  BY <1>1, FrontIs
<1>3. ExitsAt(q, c) => ExitsAt(r, c) \/ i.exit = c
  <2> SUFFICES ASSUME NEW n \in DOMAIN q, q[n].exit = c PROVE ExitsAt(r, c) \/ i.exit = c
    BY DEF ExitsAt
  <2>1. CASE n = Len(q)
    BY <1>2, <2>1
  <2>2. CASE n # Len(q)
    <3>1. n \in DOMAIN r
      BY <1>2, <2>2
    <3> QED BY <1>2, <3>1 DEF ExitsAt
  <2> QED BY <2>1, <2>2
<1>4. ExitsAt(r, c) \/ i.exit = c => ExitsAt(q, c)
  BY <1>2 DEF ExitsAt
<1> QED BY <1>1, <1>3, <1>4

LEMMA ReplacedExits ==
  ASSUME NEW S, NEW q \in Seq(S), q # <<>>, Last(q).exit = None, NEW i, NEW c, c # None
  PROVE  ExitsAt([q EXCEPT ![Len(q)] = i], c) <=> ExitsAt(q, c) \/ i.exit = c
<1>1. PICK r : r = [q EXCEPT ![Len(q)] = i]
  OBVIOUS
<1>2. Len(q) \in DOMAIN q /\ Last(q) = q[Len(q)]
  BY FrontIs
<1>3. /\ DOMAIN r = DOMAIN q /\ r[Len(q)] = i
      /\ \A n \in DOMAIN q : n # Len(q) => r[n] = q[n]
  BY <1>1, <1>2
<1>4. q[Len(q)].exit # c
  BY <1>2
<1>5. ExitsAt(r, c) => ExitsAt(q, c) \/ i.exit = c
  BY <1>3 DEF ExitsAt
<1>6. ExitsAt(q, c) => ExitsAt(r, c)
  <2> SUFFICES ASSUME NEW n \in DOMAIN q, q[n].exit = c PROVE ExitsAt(r, c)
    BY DEF ExitsAt
  <2> QED BY <1>3, <1>4 DEF ExitsAt
<1>7. i.exit = c => ExitsAt(r, c)
  BY <1>2, <1>3 DEF ExitsAt
<1> QED BY <1>1, <1>5, <1>6, <1>7

(* One track changes, and a new exit is n, or None.                          *)
SameExits(q, s, x, n) ==
  \A c : c # None => (ExitsAt(s, c) \/ ExitsTold(x, c) <=> ExitsAt(q, c) \/ c = n)
Changed(r, o, t, s) == r[t] = s /\ \A u \in Tracks : u # t => r[u] = o[u]
LEMMA ExitsMoved ==
  ASSUME NEW o, NEW t \in Tracks, NEW s, NEW r, Changed(r, o, t, s),
         NEW told, NEW x, NEW n, SameExits(o[t], s, x, n), NEW c, c # None
  PROVE  HasExit(r, told \cup x, c) <=> HasExit(o, told, c) \/ c = n
<1>1. r[t] = s /\ \A u \in Tracks : u # t => r[u] = o[u]
  BY DEF Changed
<1>2. ExitsAt(s, c) \/ ExitsTold(x, c) <=> ExitsAt(o[t], c) \/ c = n
  BY DEF SameExits
<1>3. ExitsTold(told \cup x, c) <=> ExitsTold(told, c) \/ ExitsTold(x, c)
  BY DEF ExitsTold
<1>4. (\E u \in Tracks : ExitsAt(r[u], c))
        <=> ExitsAt(s, c) \/ \E u \in Tracks : u # t /\ ExitsAt(o[u], c)
  BY <1>1
<1>5. (\E u \in Tracks : ExitsAt(o[u], c))
        <=> ExitsAt(o[t], c) \/ \E u \in Tracks : u # t /\ ExitsAt(o[u], c)
  OBVIOUS
<1> QED BY <1>2, <1>3, <1>4, <1>5 DEF HasExit

NewExit == IF Row.kind = "probe" THEN Row.call ELSE None
LEMMA QuietExits ==
  ASSUME OracleInv, Logged, Kept, Tidy, Quiet
  PROVE  \A c : c # None =>
           (HasExit(open', exported', c) <=> HasExit(open, exported, c) \/ c = NewExit)
<1>1. /\ phase = "verify" /\ done < Len(rows) /\ issues = {}
      /\ QuietEnter \/ QuietReopen \/ QuietProbe \/ QuietExit \/ QuietClose
  BY DEF Quiet
<1>2. /\ Row.track \in Tracks /\ Row.source \in Nat /\ Row.call \in Nat \ {0} /\ None = 0
  BY <1>1, RowTyped
<1>3. open \in [Tracks -> Seq(Tidies)] /\ pending \in [Tracks -> Seq(Halves)]
  BY <1>1 DEF Tidy
<1>4. PICK q, w, t, new : q = open[Row.track] /\ w = pending[Row.track] /\ t = Row.track /\ new = NewExit
  OBVIOUS
<1>5. q \in Seq(Tidies) /\ w \in Seq(Halves) /\ q = open[t] /\ t \in Tracks
  BY <1>2, <1>3, <1>4
<1>6. Row.kind # "probe" => new = None
  BY <1>4 DEF NewExit
<1>7. SUFFICES \E s, x : /\ open' = [open EXCEPT ![t] = s] /\ exported' = exported \cup x
                         /\ SameExits(q, s, x, new)
  <2>1. PICK s, x : /\ open' = [open EXCEPT ![t] = s] /\ exported' = exported \cup x
                    /\ SameExits(q, s, x, new)
    BY <1>7
  <2>2. PICK o, r, told : o = open /\ r = open' /\ told = exported
    OBVIOUS
  <2>3. /\ o \in [Tracks -> Seq(Tidies)] /\ r = [o EXCEPT ![t] = s] /\ SameExits(o[t], s, x, new)
        /\ t \in Tracks
    BY <1>3, <1>5, <2>1, <2>2
  <2>5. Changed(r, o, t, s)
    BY <2>3 DEF Changed
  <2>6. t \in Tracks /\ Changed(r, o, t, s) /\ SameExits(o[t], s, x, new)
    BY <2>3, <2>5
  <2>4. ASSUME NEW c, c # None
        PROVE  HasExit(r, told \cup x, c) <=> HasExit(o, told, c) \/ c = new
    BY <2>4, <2>6, ExitsMoved
  <2> QED BY <1>4, <2>1, <2>2, <2>4
<1>8. \A c : ~ExitsTold({}, c)
  BY DEF ExitsTold
<1>9. CASE QuietEnter
  <2>1. PICK i, s : i = NewInvocation(TRUE) /\ s = Append(q, i)
    OBVIOUS
  <2>2. i.exit = None /\ new = None
    BY <1>6, <1>9, <2>1 DEF QuietEnter, NewInvocation
  <2>3. \A c : ExitsAt(s, c) <=> ExitsAt(q, c) \/ i.exit = c
    BY <1>5, <2>1, AppendExits
  <2>4. SameExits(q, s, {}, new)
    BY <1>8, <2>2, <2>3 DEF SameExits
  <2>5. open' = [open EXCEPT ![t] = s] /\ exported' = exported \cup {}
    BY <1>4, <1>9, <2>1 DEF QuietEnter
  <2> QED BY <2>4, <2>5
<1>10. CASE QuietReopen
  <2>1. PICK j : j = Last(w)
    OBVIOUS
  <2>2. PICK i, s : i = [j EXCEPT !.reopens = @ + 1, !.closedIn = None] /\ s = Append(q, i)
    OBVIOUS
  <2>3. w # <<>> /\ open' = [open EXCEPT ![t] = s] /\ exported' = exported \cup {} /\ new = None
    BY <1>4, <1>6, <1>10, <2>1, <2>2 DEF QuietReopen
  <2>4. j \in Halves
    <3>1. Last(w) = w[Len(w)] /\ Len(w) \in DOMAIN w
      BY <1>5, <2>3, FrontIs
    <3> QED BY <1>5, <2>1, <3>1, SeqSettled
  <2>5. i.exit = None
    <3>1. j \in Invocations /\ j.exit = None
      BY <2>4 DEF Halves
    <3> QED BY <2>2, <3>1, Invoked
  <2>8. q \in Seq(Tidies) /\ s = Append(q, i)
    BY <1>5, <2>2
  <2>6. \A c : ExitsAt(s, c) <=> ExitsAt(q, c) \/ i.exit = c
    BY <2>8, AppendExits
  <2>7. SameExits(q, s, {}, new)
    BY <1>8, <2>3, <2>5, <2>6 DEF SameExits
  <2> QED BY <2>3, <2>7
<1>11. CASE QuietProbe
  <2>1. PICK j : j = Last(q)
    OBVIOUS
  <2>2. PICK i, s : i = [j EXCEPT !.exit = Row.call] /\ s = [q EXCEPT ![Len(q)] = i]
    OBVIOUS
  <2>3. /\ q # <<>> /\ open' = [open EXCEPT ![t] = s] /\ exported' = exported \cup {}
        /\ new = Row.call /\ Last(q).exit = None
    BY <1>4, <1>11, <2>1, <2>2 DEF QuietProbe, NewExit
  <2>4. j \in Tidies
    <3>1. Last(q) = q[Len(q)] /\ Len(q) \in DOMAIN q
      BY <1>5, <2>3, FrontIs
    <3> QED BY <1>5, <2>1, <3>1, SeqSettled
  <2>5. i.exit = Row.call
    <3>1. j \in Invocations
      BY <2>4 DEF Tidies
    <3> QED BY <1>2, <2>2, <3>1, Invoked
  <2>8. q \in Seq(Tidies) /\ s = [q EXCEPT ![Len(q)] = i] /\ q # <<>> /\ Last(q).exit = None
    BY <1>5, <2>2, <2>3
  <2>6. ASSUME NEW c, c # None PROVE ExitsAt(s, c) <=> ExitsAt(q, c) \/ i.exit = c
    BY <2>6, <2>8, ReplacedExits
  <2>7. SameExits(q, s, {}, new)
    BY <1>8, <2>3, <2>5, <2>6 DEF SameExits
  <2> QED BY <2>3, <2>7
<1>12. CASE QuietExit
  <2>1. PICK j : j = Last(q)
    OBVIOUS
  <2>2. PICK i, s : i = [j EXCEPT !.closedIn = Row.source] /\ s = Front(q)
    OBVIOUS
  <2>3. PICK x : x = {Export(i, "real_exit")}
    OBVIOUS
  <2>4. /\ q # <<>> /\ open' = [open EXCEPT ![t] = s] /\ exported' = exported \cup x /\ new = None
    BY <1>4, <1>6, <1>12, <2>1, <2>2, <2>3 DEF QuietExit
  <2>5. j \in Tidies
    <3>1. Last(q) = q[Len(q)] /\ Len(q) \in DOMAIN q
      BY <1>5, <2>4, FrontIs
    <3> QED BY <1>5, <2>1, <3>1, SeqSettled
  <2>6. i.exit = j.exit
    <3>1. j \in Invocations
      BY <2>5 DEF Tidies
    <3> QED BY <1>2, <2>2, <3>1, Invoked
  <2>7. \A c : ExitsAt(q, c) <=> ExitsAt(s, c) \/ j.exit = c
    BY <1>5, <2>1, <2>2, <2>4, FrontExits
  <2>8. \A c : ExitsTold(x, c) <=> i.exit = c
    BY <2>3 DEF ExitsTold, Export
  <2>9. SameExits(q, s, x, new)
    BY <2>4, <2>6, <2>7, <2>8 DEF SameExits
  <2> QED BY <2>4, <2>9
<1>13. CASE QuietClose
  <2>1. PICK s : s = Front(q)
    OBVIOUS
  <2>2. /\ q # <<>> /\ open' = [open EXCEPT ![t] = s] /\ exported' = exported \cup {} /\ new = None
        /\ Last(q).exit = None
    BY <1>4, <1>6, <1>13, <2>1 DEF QuietClose
  <2>3. \A c : ExitsAt(q, c) <=> ExitsAt(s, c) \/ Last(q).exit = c
    BY <1>5, <2>1, <2>2, FrontExits
  <2>4. SameExits(q, s, {}, new)
    BY <1>8, <2>2, <2>3 DEF SameExits
  <2> QED BY <2>2, <2>4
<1> QED BY <1>1, <1>9, <1>10, <1>11, <1>12, <1>13

LEMMA ProbedMore ==
  ASSUME done \in Nat, Row.call # None
  PROVE  /\ \A c : c # None => (Probed(done + 1, c) <=> Probed(done, c) \/ c = NewExit)
         /\ ProbedOnce(done) /\ (Row.kind = "probe" => ~Probed(done, Row.call)) => ProbedOnce(done + 1)
<1>1. PICK r, d : r = Row /\ d = done + 1
  OBVIOUS
<1>2. rows[d] = r /\ d \in Nat /\ d = done + 1 /\ \A m \in 1..d : m \in 1..done \/ m = d
  BY <1>1 DEF Row
<1>3. \A m \in 1..done : m \in 1..d /\ m # d
  BY <1>2
<1>4. d \in 1..d
  BY <1>2
<1>5. NewExit = IF r.kind = "probe" THEN r.call ELSE None
  BY <1>1 DEF NewExit
<1>6. ASSUME NEW c, c # None PROVE Probed(d, c) <=> Probed(done, c) \/ c = NewExit
  BY <1>2, <1>3, <1>4, <1>5, <1>6 DEF Probed
<1>7. ASSUME ProbedOnce(done), r.kind = "probe" => ~Probed(done, r.call)
      PROVE  ProbedOnce(d)
  <2> SUFFICES ASSUME NEW n \in 1..d, NEW m \in 1..d, rows[n].kind = "probe", rows[m].kind = "probe",
                      rows[n].call = rows[m].call
               PROVE  n = m
    BY DEF ProbedOnce
  <2>1. CASE n \in 1..done /\ m \in 1..done
    BY <1>7, <2>1 DEF ProbedOnce
  <2>2. CASE n = d /\ m \in 1..done
    <3>1. Probed(done, r.call) /\ r.kind = "probe"
      BY <1>2, <2>2 DEF Probed
    <3> QED BY <1>7, <3>1
  <2>3. CASE m = d /\ n \in 1..done
    <3>1. Probed(done, r.call) /\ r.kind = "probe"
      BY <1>2, <2>3 DEF Probed
    <3> QED BY <1>7, <3>1
  <2> QED BY <1>2, <2>1, <2>2, <2>3
<1> QED BY <1>1, <1>2, <1>6, <1>7

(* A probe that is told apart is of a call that has no exit yet.             *)
LEMMA ProbedNew ==
  ASSUME OracleInv, Logged, Kept, Mirror, Tidy, Quiet, Accounted, ~Ambiguous, Row.kind = "probe"
  PROVE  ~Probed(done, Row.call)
<1>1. /\ phase = "verify" /\ done < Len(rows) /\ issues = {} /\ Opened = open
      /\ QuietEnter \/ QuietReopen \/ QuietProbe \/ QuietExit \/ QuietClose
  BY DEF Quiet
<1>2. QuietProbe
  BY <1>1 DEF QuietEnter, QuietReopen, QuietExit, QuietClose
<1>3. Row.track \in Tracks /\ Row.call \in Nat \ {0} /\ None = 0
  BY <1>1, RowTyped
<1>4. PICK t, q, l, c : t = Row.track /\ q = open[t] /\ l = Len(q) /\ c = Row.call
  OBVIOUS
<1>5. t \in Tracks /\ c # None
  BY <1>3, <1>4
<1>6. \A u \in Tracks : open[u] \in Seq(Tidies) /\ open[u] \in Seq(Settled)
  BY <1>1 DEF Tidy, Kept
<1>7. q # <<>> /\ Exiting(q) = l /\ Last(q).exit = None
  BY <1>2, <1>4 DEF QuietProbe
<1>8. Last(q) = q[l] /\ l \in DOMAIN q /\ l \in Nat /\ DOMAIN q = 1..l
  <2>1. q \in Seq(Tidies) /\ q # <<>>
    BY <1>4, <1>5, <1>6, <1>7
  <2> QED BY <1>4, <2>1, FrontIs
<1>9. q[l].call = c /\ q[l].exit = None
  <2>1. Exiting(Opened[Row.track]) # 0
    BY <1>1, <1>4, <1>7, <1>8
  <2>2. Opened[Row.track][Exiting(Opened[Row.track])].call = Row.call
    BY <1>1, <2>1, ExitsOwnCall
  <2> QED BY <1>1, <1>4, <1>7, <1>8, <2>2
<1>10. q[l].real
  <2>1. q[l] \in Tidies
    BY <1>4, <1>5, <1>6, <1>8, SeqSettled
  <2> QED BY <2>1 DEF Tidies
<1>11. PICK C : Ledger(open, pending, exported, C)
  BY DEF OracleInv
<1>12. c \in CallsAt(open[t])
  BY <1>4, <1>8, <1>9, <1>10 DEF CallsAt
<1>13. c \in CallsIn(open) /\ c \in C
  <2>1. c \in CallsIn(open)
    BY <1>5, <1>12 DEF CallsIn
  <2> QED BY <1>11, <2>1 DEF Ledger
<1>14. SUFFICES ASSUME Probed(done, c) PROVE FALSE
  BY <1>4
<1>15. HasExit(open, exported, c)
  BY <1>1, <1>5, <1>14 DEF Accounted
<1>16. ASSUME NEW u \in Tracks, ExitsAt(open[u], c) PROVE FALSE
  <2>1. PICK n \in DOMAIN open[u] : open[u][n].exit = c
    BY <1>16 DEF ExitsAt
  <2>2. open[u][n] \in Tidies /\ open[u][n] \in Settled
    BY <1>6, <2>1, SeqSettled
  <2>3. open[u][n].call = c
    BY <1>5, <2>1, <2>2 DEF Settled, Right
  <2>4. open[u][n].real
    BY <2>2 DEF Tidies
  <2>5. c \in CallsAt(open[u])
    BY <2>1, <2>3, <2>4 DEF CallsAt
  <2>6. u = t
    BY <1>5, <1>11, <1>12, <1>16, <2>5 DEF Ledger, Apart
  <2>7. n = l
    <3>1. DistinctAt(q) /\ n \in DOMAIN q /\ q[n].real /\ q[n].call = c
      BY <1>4, <1>5, <1>11, <2>1, <2>3, <2>4, <2>6 DEF Ledger, Apart
    <3> QED BY <1>8, <1>9, <1>10, <3>1 DEF DistinctAt
  <2> QED BY <1>4, <1>5, <1>9, <2>1, <2>6, <2>7
<1>17. ASSUME ExitsTold(exported, c) PROVE FALSE
  <2>1. PICK e \in exported : e.invocation.exit = c
    BY <1>17 DEF ExitsTold
  <2>2. e.invocation \in Settled
    BY DEF Kept
  <2>3. e.invocation.call = c
    BY <1>5, <2>1, <2>2 DEF Settled, Right
  <2>4. c \in CallsOf(exported)
    BY <2>3 DEF CallsOf
  <2> QED BY <1>11, <1>13, <2>4 DEF Ledger
<1> QED BY <1>15, <1>16, <1>17 DEF HasExit

LEMMA QuietAccounted ==
  ASSUME OracleInv, Logged, Kept, Mirror, Tidy, Quiet, Accounted
  PROVE  Accounted'
<1>1. /\ phase = "verify" /\ done < Len(rows) /\ issues = {} /\ done' = done + 1
      /\ rows' = rows /\ faults' = faults /\ identified' = identified
  BY DEF Quiet, recording, recorded, indexed
<1>2. done \in Nat /\ Row.call # None
  BY <1>1, RowTyped, RowRead DEF OracleInv
<1>3. Ambiguous' = Ambiguous
  BY <1>1 DEF Ambiguous
<1>4. SUFFICES ASSUME ~Ambiguous
               PROVE  /\ \A c : c # None => (HasExit(open', exported', c) <=> Probed(done + 1, c))
                      /\ ProbedOnce(done + 1)
  BY <1>1, <1>3 DEF Accounted, Probed, ProbedOnce
<1>5. (\A c : c # None => (HasExit(open, exported, c) <=> Probed(done, c))) /\ ProbedOnce(done)
  BY <1>1, <1>4 DEF Accounted
<1>6. Row.kind = "probe" => ~Probed(done, Row.call)
  BY <1>4, ProbedNew
<1>7. /\ \A c : c # None => (Probed(done + 1, c) <=> Probed(done, c) \/ c = NewExit)
      /\ ProbedOnce(done + 1)
  BY <1>2, <1>5, <1>6, ProbedMore
<1>8. \A c : c # None =>
        (HasExit(open', exported', c) <=> HasExit(open, exported, c) \/ c = NewExit)
  BY QuietExits
<1> QED BY <1>5, <1>7, <1>8

LEMMA NoExits ==
  ASSUME NEW o, \A t \in Tracks : o[t] = <<>>, NEW told, NEW c
  PROVE  HasExit(o, told, c) <=> ExitsTold(told, c)
<1>1. ~ExitsAt(<<>>, c)
  BY DEF ExitsAt
<1> QED BY <1>1 DEF HasExit

LEMMA AccountedStep ==
  ASSUME IndexInv, Tidy, Accounted, [Next]_vars
  PROVE  Accounted'
<1>1. OracleInv /\ Logged /\ Kept /\ Mirror
  BY DEF IndexInv
<1>2. CASE UNCHANGED vars
  <2>1. /\ open' = open /\ exported' = exported /\ rows' = rows /\ done' = done /\ phase' = phase
        /\ issues' = issues /\ faults' = faults /\ identified' = identified
    BY <1>2 DEF vars, verifying, recording, recorded, indexed
  <2> QED BY <2>1 DEF Accounted, Ambiguous, Probed, ProbedOnce
<1>3. CASE \/ \E t \in Tracks, f \in Functions : Enter(t, f)
           \/ \E t \in Tracks : Return(t) \/ ReturnUnprobed(t)
           \/ \E t \in Tracks, f \in {"twice", "unended"} : ReturnMalformed(t, f)
           \/ Drop \/ Rotate \/ Crash
  <2>1. phase' = "record"
    BY <1>3 DEF Enter, Return, ReturnUnprobed, ReturnMalformed, Drop, Rotate, Crash
  <2> QED BY <2>1 DEF Accounted
<1>4. CASE \/ BuildAll \/ \E n \in DOMAIN chunks : BuildWithout(n)
           \/ \E n \in 1..(Len(chunks) - 1) : BuildSwapped(n)
  <2>1. /\ phase = "record" /\ open' = open /\ exported' = exported /\ done' = done
    BY <1>4 DEF BuildAll, BuildWithout, BuildSwapped, Build
  <2>2. done' = 0 /\ exported' = {} /\ open' = [t \in Tracks |-> <<>>]
    BY <1>1, <2>1 DEF OracleInv, Kept
  <2>3. \A c : ~HasExit(open', exported', c)
    <3>1. PICK o : o = open'
      OBVIOUS
    <3>2. \A t \in Tracks : o[t] = <<>>
      BY <2>2, <3>1
    <3>3. \A c : ~HasExit(o, {}, c)
      BY <3>2, NoExits DEF ExitsTold
    <3> QED BY <2>2, <3>1, <3>3
  <2>4. \A c : ~Probed(done, c)'
    BY <2>2 DEF Probed
  <2>5. ProbedOnce(done)'
    BY <2>2 DEF ProbedOnce
  <2> QED BY <2>3, <2>4, <2>5 DEF Accounted
<1>5. CASE VerifyEnter \/ VerifyReopen \/ VerifyExitProbe \/ VerifySliceEnd
  <2>1. CASE issues' = {}
    BY <1>1, <1>5, <2>1, RowQuiet, QuietAccounted
  <2>2. CASE issues' # {}
    BY <2>2 DEF Accounted
  <2> QED BY <2>1, <2>2
<1>6. CASE VerifyFinish
  <2>1. /\ phase = "verify" /\ open' = [t \in Tracks |-> <<>>] /\ done' = done
        /\ rows' = rows /\ faults' = faults /\ identified' = identified
    BY <1>6 DEF VerifyFinish, recording, recorded, indexed
  <2>2. SUFFICES ASSUME issues' = {} PROVE Accounted'
    BY DEF Accounted
  <2>3. exported' = exported /\ issues = {} /\ \A t \in Tracks : open[t] = <<>>
    BY <1>1, <1>6, <2>2, FinishTidy
  <2>4. \A c : HasExit(open', exported', c) <=> HasExit(open, exported, c)
    <3>1. PICK o, r, told : o = open /\ r = open' /\ told = exported
      OBVIOUS
    <3>2. (\A t \in Tracks : o[t] = <<>>) /\ (\A t \in Tracks : r[t] = <<>>)
      BY <2>1, <2>3, <3>1
    <3>3. \A c : HasExit(o, told, c) <=> HasExit(r, told, c)
      BY <3>2, NoExits
    <3> QED BY <2>3, <3>1, <3>3
  <2> QED BY <2>1, <2>2, <2>3, <2>4 DEF Accounted, Ambiguous, Probed, ProbedOnce
<1> QED BY <1>2, <1>3, <1>4, <1>5, <1>6 DEF Next

----------------------------------------------------------------------------
(* The ends: without an issue, on each track each source has as many ends    *)
(* as it has entries and reopens, but for those still open.                  *)
Openings == {"enter", "reopen"}
Matching(rs, kinds, s, t, d) ==
  {n \in 1..d : rs[n].kind \in kinds /\ rs[n].source = s /\ rs[n].track = t}
Such(kinds, s, t, d) == Matching(rows, kinds, s, t, d)
Openers(s, t, d) == Cardinality(Such(Openings, s, t, d))
Enders(s, t, d) == Cardinality(Such({"end"}, s, t, d))
Reading(s) == done > 0 /\ rows[done].source = s
Balanced ==
  issues = {} /\ phase # "record" =>
    \A t \in Tracks : \A s :
      /\ Reading(s) => Openers(s, t, done) = Enders(s, t, done) + Len(open[t])
      /\ ~Reading(s) => Openers(s, t, done) = Enders(s, t, done)
Unread == done = 0 /\ phase # "record" => open = [t \in Tracks |-> <<>>]
Finished ==
  phase = "verified" => /\ done = Len(rows)
                        /\ open = [t \in Tracks |-> <<>>] /\ pending = [t \in Tracks |-> <<>>]

LEMMA SuchMore ==
  ASSUME NEW d \in Nat, NEW kinds, NEW s, NEW t
  PROVE  /\ Cardinality(Such(kinds, s, t, d)) \in Nat
         /\ Cardinality(Such(kinds, s, t, d + 1)) =
              IF rows[d + 1].kind \in kinds /\ rows[d + 1].source = s /\ rows[d + 1].track = t
              THEN Cardinality(Such(kinds, s, t, d)) + 1
              ELSE Cardinality(Such(kinds, s, t, d))
<1>1. PICK e : e = d + 1
  OBVIOUS
<1>2. e \in Nat /\ e \notin 1..d /\ \A n : n \in 1..e <=> n \in 1..d \/ n = e
  BY <1>1
<1>3. PICK A, B : A = Such(kinds, s, t, d) /\ B = Such(kinds, s, t, e)
  OBVIOUS
<1>4. IsFiniteSet(A) /\ Cardinality(A) \in Nat
  <2>1. IsFiniteSet(1..d)
    BY FS_Interval
  <2>2. A \subseteq 1..d
    BY <1>3 DEF Such, Matching
  <2> QED BY <2>1, <2>2, FS_Subset, FS_CardinalityType
<1>5. CASE rows[e].kind \in kinds /\ rows[e].source = s /\ rows[e].track = t
  <2>1. B = A \cup {e}
    BY <1>2, <1>3, <1>5 DEF Such, Matching
  <2>2. e \notin A
    BY <1>2, <1>3 DEF Such, Matching
  <2>3. Cardinality(B) = Cardinality(A) + 1
    BY <1>4, <2>1, <2>2, FS_AddElement
  <2> QED BY <1>1, <1>3, <1>4, <1>5, <2>3
<1>6. CASE ~(rows[e].kind \in kinds /\ rows[e].source = s /\ rows[e].track = t)
  <2>1. B = A
    BY <1>2, <1>3, <1>6 DEF Such, Matching
  <2> QED BY <1>1, <1>3, <1>4, <1>6, <2>1
<1> QED BY <1>5, <1>6

(* The stacks before and after a row.                                        *)
Grown(kind) == IF kind \in Openings THEN 1 ELSE 0
Shrunk(kind) == IF kind = "end" THEN 1 ELSE 0
LEMMA QuietLengths ==
  ASSUME OracleInv, Logged, Kept, Tidy, Quiet
  PROVE  \A t \in Tracks :
           /\ Len(open[t]) \in Nat /\ Len(open'[t]) \in Nat
           /\ t # Row.track => open'[t] = open[t]
           /\ t = Row.track => Len(open'[t]) + Shrunk(Row.kind) = Len(open[t]) + Grown(Row.kind)
<1>1. /\ phase = "verify" /\ done < Len(rows) /\ issues = {}
      /\ QuietEnter \/ QuietReopen \/ QuietProbe \/ QuietExit \/ QuietClose
  BY DEF Quiet
<1>2. Row.track \in Tracks
  BY <1>1, RowTyped
<1>3. open \in [Tracks -> Seq(Tidies)]
  BY <1>1 DEF Tidy
<1>4. PICK q, t : q = open[Row.track] /\ t = Row.track
  OBVIOUS
<1>5. q \in Seq(Tidies) /\ q = open[t] /\ t \in Tracks /\ Len(q) \in Nat
  <2>1. q \in Seq(Tidies) /\ q = open[t] /\ t \in Tracks
    BY <1>2, <1>3, <1>4
  <2> QED BY <2>1, LenProperties
<1>6. q # <<>> => Len(Front(q)) = Len(q) - 1 /\ Len(Front(q)) \in Nat
  <2> SUFFICES ASSUME q # <<>> PROVE Len(Front(q)) = Len(q) - 1 /\ Len(Front(q)) \in Nat
    OBVIOUS
  <2>1. Front(q) \in Seq(Tidies) /\ Len(Front(q)) = Len(q) - 1
    BY <1>5, FrontIs
  <2> QED BY <2>1, LenProperties
<1>7. \A i : Len(Append(q, i)) = Len(q) + 1
  BY <1>5, AppendProperties
<1>8. q # <<>> => \A i : Len([q EXCEPT ![Len(q)] = i]) = Len(q)
  BY <1>5, ExceptSeq, FrontIs
<1>9. \E s : /\ open' = [open EXCEPT ![t] = s] /\ Len(s) \in Nat
             /\ Len(s) + Shrunk(Row.kind) = Len(q) + Grown(Row.kind)
  <2>1. CASE QuietEnter
    <3>1. PICK s : s = Append(q, NewInvocation(TRUE))
      OBVIOUS
    <3>2. open' = [open EXCEPT ![t] = s] /\ Row.kind = "enter"
      BY <1>4, <2>1, <3>1 DEF QuietEnter
    <3>3. Len(s) = Len(q) + 1
      BY <1>7, <3>1
    <3>4. Grown(Row.kind) = 1 /\ Shrunk(Row.kind) = 0
      BY <3>2 DEF Grown, Shrunk, Openings
    <3>5. Len(s) \in Nat /\ Len(s) + Shrunk(Row.kind) = Len(q) + Grown(Row.kind)
      BY <1>5, <3>3, <3>4
    <3> QED BY <3>2, <3>5
  <2>2. CASE QuietReopen
    <3>1. PICK s : s = Append(q, [Last(pending[Row.track]) EXCEPT !.reopens = @ + 1, !.closedIn = None])
      OBVIOUS
    <3>2. open' = [open EXCEPT ![t] = s] /\ Row.kind = "reopen"
      BY <1>4, <2>2, <3>1 DEF QuietReopen
    <3>3. Len(s) = Len(q) + 1
      BY <1>7, <3>1
    <3>4. Grown(Row.kind) = 1 /\ Shrunk(Row.kind) = 0
      BY <3>2 DEF Grown, Shrunk, Openings
    <3>5. Len(s) \in Nat /\ Len(s) + Shrunk(Row.kind) = Len(q) + Grown(Row.kind)
      BY <1>5, <3>3, <3>4
    <3> QED BY <3>2, <3>5
  <2>3. CASE QuietProbe
    <3>1. PICK s : s = [q EXCEPT ![Len(q)] = [Last(q) EXCEPT !.exit = Row.call]]
      OBVIOUS
    <3>2. open' = [open EXCEPT ![t] = s] /\ Row.kind = "probe" /\ q # <<>>
      BY <1>4, <2>3, <3>1 DEF QuietProbe
    <3>3. Len(s) = Len(q)
      BY <1>8, <3>1, <3>2
    <3>4. Grown(Row.kind) = 0 /\ Shrunk(Row.kind) = 0
      BY <3>2 DEF Grown, Shrunk, Openings
    <3>5. Len(s) \in Nat /\ Len(s) + Shrunk(Row.kind) = Len(q) + Grown(Row.kind)
      BY <1>5, <3>3, <3>4
    <3> QED BY <3>2, <3>5
  <2>4. CASE QuietExit \/ QuietClose
    <3>1. PICK s : s = Front(q)
      OBVIOUS
    <3>2. open' = [open EXCEPT ![t] = s] /\ Row.kind = "end" /\ q # <<>>
      BY <1>4, <2>4, <3>1 DEF QuietExit, QuietClose
    <3>3. Len(s) = Len(q) - 1 /\ Len(s) \in Nat
      BY <1>6, <3>1, <3>2
    <3>4. Grown(Row.kind) = 0 /\ Shrunk(Row.kind) = 1
      BY <3>2 DEF Grown, Shrunk, Openings
    <3>5. Len(s) \in Nat /\ Len(s) + Shrunk(Row.kind) = Len(q) + Grown(Row.kind)
      BY <1>5, <3>3, <3>4
    <3> QED BY <3>2, <3>5
  <2> QED BY <1>1, <2>1, <2>2, <2>3, <2>4
<1>10. PICK s : /\ open' = [open EXCEPT ![t] = s] /\ Len(s) \in Nat
                /\ Len(s) + Shrunk(Row.kind) = Len(q) + Grown(Row.kind)
  BY <1>9
<1> TAKE u \in Tracks
<1>11. Len(open[u]) \in Nat
  BY <1>3, LenProperties
<1>12. open'[u] = IF u = t THEN s ELSE open[u]
  BY <1>3, <1>5, <1>10
<1>13. CASE u = t
  BY <1>4, <1>5, <1>10, <1>12, <1>13
<1>14. CASE u # t
  BY <1>4, <1>11, <1>12, <1>14
<1> QED BY <1>13, <1>14

LEMMA QuietBalanced ==
  ASSUME OracleInv, Logged, Kept, Tidy, Quiet, Balanced, Unread
  PROVE  Balanced'
<1>1. /\ phase = "verify" /\ done < Len(rows) /\ issues = {} /\ done' = done + 1 /\ rows' = rows
      /\ AtBoundary => \A t \in Tracks : open[t] = <<>>
  BY DEF Quiet, indexed
<1>2. done \in Nat
  BY <1>1, RowRead DEF OracleInv
<1>3. PICK d, r, k : d = done + 1 /\ r = rows[done + 1] /\ k = r.kind
  OBVIOUS
<1>4. Row = r /\ d \in Nat /\ d > 0 /\ rows[d] = r
  BY <1>2, <1>3 DEF Row
<1>5. \A t \in Tracks :
        /\ Len(open[t]) \in Nat /\ Len(open'[t]) \in Nat
        /\ t # r.track => open'[t] = open[t]
        /\ t = r.track => Len(open'[t]) + Shrunk(k) = Len(open[t]) + Grown(k)
  BY <1>3, <1>4, QuietLengths
<1>6. \A t \in Tracks : \A s :
        /\ Openers(s, t, done) \in Nat /\ Enders(s, t, done) \in Nat
        /\ Openers(s, t, d) = IF s = r.source /\ t = r.track THEN Openers(s, t, done) + Grown(k)
                              ELSE Openers(s, t, done)
        /\ Enders(s, t, d) = IF s = r.source /\ t = r.track THEN Enders(s, t, done) + Shrunk(k)
                             ELSE Enders(s, t, done)
  <2> TAKE t \in Tracks
  <2> TAKE s
  <2>1. /\ Openers(s, t, done) \in Nat
        /\ Openers(s, t, d) = IF k \in Openings /\ r.source = s /\ r.track = t
                              THEN Openers(s, t, done) + 1 ELSE Openers(s, t, done)
    BY <1>2, <1>3, SuchMore DEF Openers
  <2>2. /\ Enders(s, t, done) \in Nat
        /\ Enders(s, t, d) = IF k \in {"end"} /\ r.source = s /\ r.track = t
                             THEN Enders(s, t, done) + 1 ELSE Enders(s, t, done)
    BY <1>2, <1>3, SuchMore DEF Enders
  <2>3. Grown(k) = (IF k \in Openings THEN 1 ELSE 0) /\ Shrunk(k) = (IF k = "end" THEN 1 ELSE 0)
    BY DEF Grown, Shrunk
  <2>4. CASE s = r.source /\ t = r.track
    BY <2>1, <2>2, <2>3, <2>4
  <2>5. CASE ~(s = r.source /\ t = r.track)
    BY <2>1, <2>2, <2>5
  <2> QED BY <2>1, <2>2, <2>4, <2>5
<1>7. \A s : (Reading(s))' <=> s = r.source
  BY <1>1, <1>3, <1>4 DEF Reading
<1>8. SUFFICES ASSUME NEW t \in Tracks, NEW s
               PROVE  /\ s = r.source => Openers(s, t, d) = Enders(s, t, d) + Len(open'[t])
                      /\ s # r.source => Openers(s, t, d) = Enders(s, t, d)
  <2>1. \A u, v : /\ (Openers(v, u, done))' = Openers(v, u, d)
                 /\ (Enders(v, u, done))' = Enders(v, u, d)
    BY <1>1, <1>3 DEF Openers, Enders, Such
  <2> QED BY <1>7, <1>8, <2>1 DEF Balanced
<1>9. PICK a, b, x, y, m, n :
        /\ a = Openers(s, t, done) /\ b = Enders(s, t, done) /\ x = Openers(s, t, d)
        /\ y = Enders(s, t, d) /\ m = Len(open[t]) /\ n = Len(open'[t])
  OBVIOUS
<1>10. /\ a \in Nat /\ b \in Nat /\ m \in Nat /\ n \in Nat
       /\ Reading(s) => a = b + m
       /\ ~Reading(s) => a = b
  BY <1>1, <1>5, <1>6, <1>9 DEF Balanced
<1>11. CASE s # r.source
  <2>1. x = a /\ y = b
    BY <1>6, <1>9, <1>11
  <2>2. Reading(s) => m = 0
    <3> SUFFICES ASSUME Reading(s) PROVE m = 0
      OBVIOUS
    <3>1. AtBoundary
      BY <1>4, <1>11 DEF Reading, AtBoundary
    <3>2. open[t] = <<>>
      BY <1>1, <3>1
    <3> QED BY <1>9, <3>2
  <2>3. x = y
    BY <1>10, <2>1, <2>2
  <2> QED BY <1>9, <1>11, <2>3
<1>12. CASE s = r.source
  <2>1. a = b + m
    <3>1. CASE Reading(s)
      BY <1>10, <3>1
    <3>2. CASE ~Reading(s)
      <4>1. open[t] = <<>>
        <5>1. CASE done = 0
          BY <1>1, <5>1 DEF Unread
        <5>2. CASE done # 0
          <6>1. AtBoundary
            BY <1>2, <1>4, <1>12, <3>2, <5>2 DEF Reading, AtBoundary
          <6> QED BY <1>1, <6>1
        <5> QED BY <5>1, <5>2
      <4>2. m = 0
        BY <1>9, <4>1
      <4> QED BY <1>10, <3>2, <4>2
    <3> QED BY <3>1, <3>2
  <2>2. CASE t = r.track
    <3>1. x = a + Grown(k) /\ y = b + Shrunk(k) /\ n + Shrunk(k) = m + Grown(k)
      BY <1>5, <1>6, <1>9, <1>12, <2>2
    <3>2. Grown(k) \in Nat /\ Shrunk(k) \in Nat
      BY DEF Grown, Shrunk
    <3>3. x = y + n
      BY <1>10, <2>1, <3>1, <3>2
    <3> QED BY <1>9, <1>12, <3>3
  <2>3. CASE t # r.track
    <3>1. x = a /\ y = b /\ n = m
      BY <1>5, <1>6, <1>9, <2>3
    <3> QED BY <1>9, <1>12, <2>1, <3>1
  <2> QED BY <2>2, <2>3
<1> QED BY <1>11, <1>12

LEMMA BalancedStep ==
  ASSUME IndexInv, Tidy, Balanced, Unread, Finished, [Next]_vars
  PROVE  Balanced' /\ Unread' /\ Finished'
<1>1. OracleInv /\ Logged /\ Kept /\ Mirror
  BY DEF IndexInv
<1>2. CASE UNCHANGED vars
  <2>1. /\ open' = open /\ rows' = rows /\ done' = done /\ phase' = phase /\ issues' = issues
        /\ pending' = pending
    BY <1>2 DEF vars, verifying, indexed
  <2>2. \A s, t : (Openers(s, t, done))' = Openers(s, t, done) /\ (Enders(s, t, done))' = Enders(s, t, done)
    BY <2>1 DEF Openers, Enders, Such
  <2>3. \A s : (Reading(s))' <=> Reading(s)
    BY <2>1 DEF Reading
  <2>4. Balanced'
    BY <2>1, <2>2, <2>3 DEF Balanced
  <2>5. Unread' /\ Finished'
    BY <2>1 DEF Unread, Finished
  <2> QED BY <2>4, <2>5
<1>3. CASE \/ \E t \in Tracks, f \in Functions : Enter(t, f)
           \/ \E t \in Tracks : Return(t) \/ ReturnUnprobed(t)
           \/ \E t \in Tracks, f \in {"twice", "unended"} : ReturnMalformed(t, f)
           \/ Drop \/ Rotate \/ Crash
  <2>1. phase' = "record"
    BY <1>3 DEF Enter, Return, ReturnUnprobed, ReturnMalformed, Drop, Rotate, Crash
  <2> QED BY <2>1 DEF Balanced, Unread, Finished
<1>4. CASE \/ BuildAll \/ \E n \in DOMAIN chunks : BuildWithout(n)
           \/ \E n \in 1..(Len(chunks) - 1) : BuildSwapped(n)
  <2>1. /\ phase = "record" /\ phase' = "verify" /\ open' = open /\ done' = done
    BY <1>4 DEF BuildAll, BuildWithout, BuildSwapped, Build
  <2>2. done' = 0 /\ open' = [t \in Tracks |-> <<>>]
    BY <1>1, <2>1 DEF OracleInv, Kept
  <2>3. \A s, t : Openers(s, t, 0)' = 0 /\ Enders(s, t, 0)' = 0
    <3>1. \A s, t : Such(Openings, s, t, 0)' = {} /\ Such({"end"}, s, t, 0)' = {}
      BY DEF Such, Matching
    <3> QED BY <3>1, FS_EmptySet DEF Openers, Enders
  <2>4. \A s : ~Reading(s)'
    BY <2>2 DEF Reading
  <2>5. \A s, t : Openers(s, t, done)' = Enders(s, t, done)'
    BY <2>2, <2>3 DEF Openers, Enders, Such
  <2>6. Balanced'
    BY <2>4, <2>5 DEF Balanced
  <2> QED BY <2>1, <2>2, <2>6 DEF Unread, Finished
<1>5. CASE VerifyEnter \/ VerifyReopen \/ VerifyExitProbe \/ VerifySliceEnd
  <2>1. phase' = "verify" /\ done' = done + 1 /\ done < Len(rows)
    BY <1>5 DEF VerifyEnter, VerifyReopen, VerifyExitProbe, VerifySliceEnd, Verifying, Handle, At
  <2>2. done \in Nat
    BY <1>1, <2>1, RowRead DEF OracleInv
  <2>3. Unread' /\ Finished'
    BY <2>1, <2>2 DEF Unread, Finished
  <2>4. CASE issues' = {}
    BY <1>1, <1>5, <2>3, <2>4, RowQuiet, QuietBalanced
  <2>5. CASE issues' # {}
    BY <2>3, <2>5 DEF Balanced
  <2> QED BY <2>4, <2>5
<1>6. CASE VerifyFinish
  <2>1. /\ phase = "verify" /\ open' = [t \in Tracks |-> <<>>] /\ done' = done
        /\ rows' = rows /\ done = Len(rows) /\ phase' = "verified"
        /\ pending' = [t \in Tracks |-> <<>>]
    BY <1>6 DEF VerifyFinish, indexed
  <2>2. Unread' /\ Finished'
    BY <2>1 DEF Unread, Finished
  <2>3. Balanced'
    <3> SUFFICES ASSUME issues' = {} PROVE Balanced'
      BY DEF Balanced
    <3>1. issues = {} /\ \A t \in Tracks : open[t] = <<>> /\ open'[t] = <<>>
      <4>1. issues = {} /\ \A t \in Tracks : open[t] = <<>>
        BY <1>1, <1>6, FinishTidy
      <4>2. \A t \in Tracks : open'[t] = <<>>
        BY <2>1
      <4> QED BY <4>1, <4>2
    <3>2. \A s, t : (Openers(s, t, done))' = Openers(s, t, done) /\ (Enders(s, t, done))' = Enders(s, t, done)
      BY <2>1 DEF Openers, Enders, Such
    <3>3. \A s : (Reading(s))' <=> Reading(s)
      BY <2>1 DEF Reading
    <3>4. \A t \in Tracks : Len(open[t]) = Len(open'[t])
      BY <3>1
    <3> QED BY <2>1, <3>1, <3>2, <3>3, <3>4 DEF Balanced
  <2> QED BY <2>2, <2>3
<1> QED BY <1>2, <1>3, <1>4, <1>5, <1>6 DEF Next

----------------------------------------------------------------------------
(* A verification that ends without an issue, of events that can be told     *)
(* apart: what is told is right, and what would be wrong with the recording  *)
(* would have been seen.                                                     *)
Silent == phase = "verified" /\ issues = {} /\ ~Ambiguous
LEMMA ToldFairly ==
  ASSUME Kept, Tidy, Silent, NEW e \in exported
  PROVE  /\ e.kind = "real_exit" /\ e.invocation.exit = e.invocation.call
         /\ e.invocation.closes = e.invocation.reopens /\ e.invocation.exit # None
<1>1. Fair(e) /\ e.invocation \in Settled /\ ~Ambiguous
  BY DEF Kept, Tidy, Silent
<1> QED BY <1>1 DEF Fair, Tidies, Settled, Right

LEMMA SeenTwice ==
  ASSUME Accounted, Finished, Silent, NEW cs, NEW from, Tables(cs, from), OracleInv
  PROVE  ~Doubled(chunks)
<1>1. SUFFICES ASSUME NEW i \in 1..Len(chunks), NEW p \in 1..Len(chunks[i]), NEW q \in 1..Len(chunks[i]),
                      p < q, chunks[i][p].kind = "probe", chunks[i][q].kind = "probe",
                      chunks[i][p].call = chunks[i][q].call
               PROVE  FALSE
  BY DEF Doubled
<1>2. PICK j \in 1..Len(cs) : cs[j] = chunks[i]
  BY DEF Tables, Reordered
<1>3. p \in 1..Len(cs[j]) /\ q \in 1..Len(cs[j]) /\ p # q
  BY <1>1, <1>2
<1>4. PICK n \in DOMAIN rows : SameEvent(rows[n], cs[j][p]) /\ Place(from, n, j, p)
  BY <1>3, EventRow
<1>5. PICK m \in DOMAIN rows : SameEvent(rows[m], cs[j][q]) /\ Place(from, m, j, q)
  BY <1>3, EventRow
<1>6. DOMAIN rows = 1..done /\ ProbedOnce(done)
  <2>1. \E S : rows \in Seq(S)
    BY DEF OracleInv, Verified, EntriesFit
  <2>2. DOMAIN rows = 1..Len(rows)
    BY <2>1, LenProperties
  <2> QED BY <2>2 DEF Accounted, Finished, Silent
<1>7. n = m
  BY <1>1, <1>2, <1>4, <1>5, <1>6 DEF ProbedOnce, SameEvent
<1> QED BY <1>3, <1>4, <1>5, <1>7 DEF Place

LEMMA SeenMissed ==
  ASSUME OracleInv, Kept, Tidy, Accounted, Finished, Silent, NEW cs, NEW from, Tables(cs, from)
  PROVE  ~Unseen(chunks, active)
<1>1. SUFFICES ASSUME NEW c, In(chunks, "enter", c), ~In(chunks, "probe", c) PROVE FALSE
  BY DEF Unseen
<1>2. DOMAIN rows = 1..done /\ done = Len(rows)
  <2>1. \E S : rows \in Seq(S)
    BY DEF OracleInv, Verified, EntriesFit
  <2>2. DOMAIN rows = 1..Len(rows)
    BY <2>1, LenProperties
  <2> QED BY <2>2 DEF Finished, Silent
<1>3. PICK i \in 1..Len(chunks) :
        \E p \in 1..Len(chunks[i]) : chunks[i][p].kind = "enter" /\ chunks[i][p].call = c
  BY <1>1 DEF In
<1>4. PICK p \in 1..Len(chunks[i]) : chunks[i][p].kind = "enter" /\ chunks[i][p].call = c
  BY <1>3
<1>5. PICK j \in 1..Len(cs) : cs[j] = chunks[i]
  BY DEF Tables, Reordered
<1>6. p \in 1..Len(cs[j])
  BY <1>5
<1>7. PICK n \in DOMAIN rows : SameEvent(rows[n], cs[j][p])
  BY <1>6, EventRow
<1>8. rows[n].kind = "enter" /\ rows[n].call = c /\ n \in 1..done
  BY <1>2, <1>4, <1>5, <1>7 DEF SameEvent
<1>9. c \in Entered(rows, done)
  BY <1>8 DEF Entered
<1>10. c \in CallsOf(exported)
  <2>1. c \in CallsIn(open) \cup CallsIn(pending) \cup CallsOf(exported)
    BY <1>9 DEF OracleInv, Ledger
  <2>2. CallsIn(open) = {} /\ CallsIn(pending) = {}
    BY NothingHeld DEF Finished, Silent
  <2> QED BY <2>1, <2>2
<1>11. PICK e \in exported : e.invocation.call = c
  BY <1>10 DEF CallsOf
<1>12. e.invocation.exit = c /\ c # None
  BY <1>11, ToldFairly
<1>13. Probed(done, c)
  <2>1. HasExit(open, exported, c)
    BY <1>12 DEF HasExit, ExitsTold
  <2> QED BY <1>12, <2>1 DEF Accounted, Silent
<1>14. PICK m \in 1..done : rows[m].kind = "probe" /\ rows[m].call = c
  BY <1>13 DEF Probed
<1>15. PICK k \in 1..Len(cs) : \E o \in 1..Len(cs[k]) : SameEvent(rows[m], cs[k][o])
  BY <1>2, RowEvent
<1>16. PICK o \in 1..Len(cs[k]) : SameEvent(rows[m], cs[k][o])
  BY <1>15
<1>17. PICK l \in 1..Len(chunks) : cs[k] = chunks[l]
  BY DEF Tables, Reordered
<1>18. o \in 1..Len(chunks[l]) /\ chunks[l][o].kind = "probe" /\ chunks[l][o].call = c
  BY <1>14, <1>16, <1>17 DEF SameEvent
<1>19. In(chunks, "probe", c)
  BY <1>18 DEF In
<1> QED BY <1>1, <1>19

(* A map from A into B that misses one of B.                                 *)
LEMMA Fewer ==
  ASSUME NEW A, NEW B, IsFiniteSet(A), IsFiniteSet(B), NEW b \in B, NEW f \in [A -> B],
         \A n \in A : f[n] # b, \A n, m \in A : f[n] = f[m] => n = m
  PROVE  Cardinality(A) # Cardinality(B)
<1>1. PICK T : T = B \ {b}
  OBVIOUS
<1>2. IsFiniteSet(T) /\ Cardinality(T) = Cardinality(B) - 1
  BY <1>1, FS_RemoveElement
<1>3. Cardinality(B) \in Nat /\ Cardinality(T) \in Nat /\ Cardinality(A) \in Nat
  BY <1>2, FS_CardinalityType
<1>4. f \in [A -> T]
  BY <1>1
<1>5. SUFFICES ASSUME Cardinality(A) = Cardinality(B) PROVE FALSE
  OBVIOUS
<1>6. Cardinality(T) < Cardinality(A)
  BY <1>2, <1>3, <1>5
<1>7. \E x, y \in A : x # y /\ f[x] = f[y]
  BY <1>2, <1>4, <1>6, FS_PigeonHole
<1> QED BY <1>7

LEMMA SeenUnended ==
  ASSUME OracleInv, Endings, "dropped" \notin faults, Balanced, Finished, Silent,
         NEW cs, NEW from, Tables(cs, from)
  PROVE  ~Unended(chunks, active)
<1>1. SUFFICES ASSUME NEW i \in 1..Len(chunks), NEW t \in Tracks, NEW c, Lacks(chunks[i], t, c)
               PROVE  FALSE
  BY DEF Unended
<1>2. DOMAIN rows = 1..done /\ done = Len(rows) /\ done \in Nat
  <2>1. \E S : rows \in Seq(S)
    BY DEF OracleInv, Verified, EntriesFit
  <2>2. DOMAIN rows = 1..Len(rows) /\ Len(rows) \in Nat
    BY <2>1, LenProperties
  <2> QED BY <2>2 DEF Finished, Silent
<1>3. PICK j \in 1..Len(cs) : cs[j] = chunks[i]
  BY DEF Tables, Reordered
<1>4. PICK E : E = cs[j]
  OBVIOUS
<1>5. EndsOnce(E) /\ EndsOpened(E) /\ OpensAt(E, t, c) /\ ~EndsAt(E, c)
  BY <1>1, <1>3, <1>4 DEF Endings, Chunked, Nested, Lacks
<1>6. PICK A, B : A = Such({"end"}, j, t, done) /\ B = Such(Openings, j, t, done)
  OBVIOUS
<1>7. IsFiniteSet(A) /\ IsFiniteSet(B)
  <2>1. A \subseteq 1..done /\ B \subseteq 1..done
    BY <1>6 DEF Such, Matching
  <2>2. IsFiniteSet(1..done)
    BY <1>2, FS_Interval
  <2> QED BY <2>1, <2>2, FS_Subset
<1>8. Cardinality(A) = Cardinality(B)
  <2>1. Openers(j, t, done) = Enders(j, t, done) \/
        Openers(j, t, done) = Enders(j, t, done) + Len(open[t])
    BY DEF Balanced, Silent
  <2>2. Len(open[t]) = 0
    BY DEF Finished, Silent
  <2>3. Enders(j, t, done) \in Nat
    BY <1>6, <1>7, FS_CardinalityType DEF Enders
  <2>4. Openers(j, t, done) = Enders(j, t, done)
    BY <2>1, <2>2, <2>3
  <2> QED BY <1>6, <2>4 DEF Openers, Enders
(* The row of an opening event.                                              *)
<1>9. ASSUME NEW k, OpensAt(E, t, k) PROVE \E n \in B : rows[n].call = k
  <2>1. PICK p \in 1..Len(E) : E[p].kind \in Openings /\ E[p].track = t /\ E[p].call = k
    BY <1>9 DEF OpensAt, Openings
  <2>2. p \in 1..Len(cs[j])
    BY <1>4
  <2>3. PICK n \in DOMAIN rows : SameEvent(rows[n], cs[j][p]) /\ rows[n].source = j
    BY <2>2, EventRow
  <2>4. n \in B /\ rows[n].call = k
    BY <1>2, <1>4, <1>6, <2>1, <2>3 DEF Such, Matching, SameEvent
  <2> QED BY <2>4
(* The event of a row that ends a slice.                                     *)
<1>10. ASSUME NEW n \in A
       PROVE  \E p \in 1..Len(E) : /\ E[p].kind = "end" /\ E[p].track = t /\ E[p].call = rows[n].call
                                   /\ Place(from, n, j, p)
  <2>1. n \in DOMAIN rows /\ rows[n].kind = "end" /\ rows[n].source = j /\ rows[n].track = t
    BY <1>2, <1>6, <1>10 DEF Such, Matching
  <2>2. PICK k \in 1..Len(cs) : \E p \in 1..Len(cs[k]) :
               SameEvent(rows[n], cs[k][p]) /\ rows[n].source = k /\ Place(from, n, k, p)
    BY <2>1, RowEvent
  <2>3. PICK p \in 1..Len(cs[k]) :
               SameEvent(rows[n], cs[k][p]) /\ rows[n].source = k /\ Place(from, n, k, p)
    BY <2>2
  <2>4. k = j /\ p \in 1..Len(E) /\ E[p] = cs[k][p]
    BY <1>4, <2>1, <2>3
  <2> QED BY <2>1, <2>3, <2>4 DEF SameEvent
<1>11. PICK b \in B : rows[b].call = c
  BY <1>5, <1>9
<1>12. \A n \in A : \E m \in B : rows[m].call = rows[n].call
  <2> TAKE n \in A
  <2>1. PICK p \in 1..Len(E) : E[p].kind = "end" /\ E[p].track = t /\ E[p].call = rows[n].call
    BY <1>10
  <2>2. OpensAt(E, t, rows[n].call)
    BY <1>5, <2>1 DEF EndsOpened
  <2> QED BY <1>9, <2>2
<1>13. PICK f : f = [n \in A |-> CHOOSE m \in B : rows[m].call = rows[n].call]
  OBVIOUS
<1>14. f \in [A -> B] /\ \A n \in A : rows[f[n]].call = rows[n].call
  BY <1>12, <1>13
<1>15. \A n \in A : f[n] # b
  <2> TAKE n \in A
  <2>1. PICK p \in 1..Len(E) : E[p].kind = "end" /\ E[p].call = rows[n].call
    BY <1>10
  <2>2. rows[n].call # c
    BY <1>5, <2>1 DEF EndsAt
  <2> QED BY <1>11, <1>14, <2>2
<1>16. \A n, m \in A : f[n] = f[m] => n = m
  <2> SUFFICES ASSUME NEW n \in A, NEW m \in A, f[n] = f[m] PROVE n = m
    OBVIOUS
  <2>1. rows[n].call = rows[m].call
    BY <1>14
  <2>2. PICK p \in 1..Len(E) :
               E[p].kind = "end" /\ E[p].call = rows[n].call /\ Place(from, n, j, p)
    BY <1>10
  <2>3. PICK q \in 1..Len(E) :
               E[q].kind = "end" /\ E[q].call = rows[m].call /\ Place(from, m, j, q)
    BY <1>10
  <2>4. p = q
    BY <1>5, <2>1, <2>2, <2>3 DEF EndsOnce
  <2>5. n \in DOMAIN rows /\ m \in DOMAIN rows /\ n \in Nat /\ m \in Nat
    BY <1>2, <1>6 DEF Such, Matching
  <2>6. j \in Nat /\ p \in Nat /\ Place(from, n, j, p) /\ Place(from, m, j, p)
    BY <2>2, <2>3, <2>4
  <2> QED BY <2>5, <2>6, RowsApart
<1>17. Cardinality(A) # Cardinality(B)
  BY <1>7, <1>11, <1>14, <1>15, <1>16, Fewer
<1> QED BY <1>8, <1>17

(* The second part of the verdict.                                           *)
LEMMA SilentIsRight ==
  ASSUME OracleInv, Kept, Tidy, Witnessed, Heard, Endings, Passed, Accounted, Balanced,
         Finished, Silent
  PROVE  /\ ("lost" \notin faults /\ ~Unheard) => faults \subseteq {"swapped", "crash"}
         /\ \A e \in exported : /\ e.kind = "real_exit" /\ e.invocation.exit = e.invocation.call
                                /\ e.invocation.closes = e.invocation.reopens
<1>1. ASSUME "lost" \notin faults, ~Unheard PROVE faults \subseteq {"swapped", "crash"}
  <2>1. PICK cs : \E from : Tables(cs, from)
    BY <1>1 DEF Passed, Silent
  <2>2. PICK from : Tables(cs, from)
    BY <2>1
  <2>3. faults \subseteq Happening \cup {"lost", "swapped"} /\ "dropped" \notin faults
    BY <1>1 DEF Witnessed, Heard, Unheard, Silent
  <2>4. "missed" \notin faults
    BY <2>2, <2>3, SeenMissed DEF Witnessed
  <2>5. "twice" \notin faults
    BY <2>2, <2>3, SeenTwice DEF Witnessed
  <2>6. "unended" \notin faults
    BY <2>2, <2>3, SeenUnended DEF Endings
  <2> QED BY <1>1, <2>3, <2>4, <2>5, <2>6 DEF Happening, Malformed
<1>2. \A e \in exported : /\ e.kind = "real_exit" /\ e.invocation.exit = e.invocation.call
                          /\ e.invocation.closes = e.invocation.reopens
  BY ToldFairly
<1> QED BY <1>1, <1>2

----------------------------------------------------------------------------
(* How much is flattened.                                                    *)
Steps(seqs, f) == \A i \in 1..Len(seqs) : f[i] = Flattened(seqs, f, i)

LEMMA FlatSteps ==
  ASSUME NEW S, NEW seqs \in Seq(Seq(S)), Len(seqs) > 0
  PROVE  \E f : /\ Steps(seqs, f) /\ FlattenSeq(seqs) = f[Len(seqs)]
                /\ \A i \in 1..Len(seqs) : f[i] \in Seq(S)
<1>1. Len(seqs) \in Nat /\ \A i \in 1..Len(seqs) : seqs[i] \in Seq(S)
  BY LenProperties, ElementOfSeq
<1> DEFINE N == Len(seqs)
           flatten[i \in 1..Len(seqs)] == IF i = 1 THEN seqs[i] ELSE flatten[i-1] \o seqs[i]
<1>2. FlattenSeq(seqs) = flatten[Len(seqs)]
  <2>1. Len(seqs) # 0
    BY <1>1
  <2> QED BY <2>1, Zenon DEF FlattenSeq
<1>3. flatten = CHOOSE f : f = [i \in 1..Len(seqs) |-> IF i = 1 THEN seqs[i]
                                                       ELSE f[i - 1] \o seqs[i]]
  BY Zenon
<1> HIDE DEF flatten
<1>4. flatten = [i \in 1..N |-> Flattened(seqs, flatten, i)]
  BY <1>1, <1>3, FlatExists DEF Flattened
<1>5. \A i \in 1..N : flatten[i] = Flattened(seqs, flatten, i)
  BY <1>4
<1>6. PICK f : f = flatten
  OBVIOUS
<1>7. Steps(seqs, f) /\ FlattenSeq(seqs) = f[N]
  BY <1>2, <1>5, <1>6 DEF Steps
<1> DEFINE Bad == {i \in 1..N : f[i] \notin Seq(S)}
<1>8. Bad = {}
  <2> SUFFICES ASSUME Bad # {} PROVE FALSE
    OBVIOUS
  <2>1. Bad \in SUBSET Nat
    OBVIOUS
  <2>2. PICK m \in Bad : \A k \in Bad : m <= k
    BY <2>1, Least
  <2>3. m \in 1..N /\ f[m] \notin Seq(S) /\ f[m] = Flattened(seqs, f, m)
    BY <1>7, <2>2 DEF Steps
  <2>4. m # 1
    BY <1>1, <2>3 DEF Flattened
  <2>5. m - 1 \in 1..N /\ ~(m <= m - 1)
    BY <1>1, <2>3, <2>4
  <2>6. m - 1 \notin Bad
    <3> HIDE DEF Bad
    <3> QED BY <2>2, <2>5
  <2>7. f[m - 1] \in Seq(S) /\ f[m] = f[m - 1] \o seqs[m]
    BY <2>3, <2>4, <2>5, <2>6 DEF Flattened
  <2> QED BY <1>1, <2>3, <2>7, ConcatProperties
<1> QED BY <1>7, <1>8

Alike(cs, ds, n) == \A i \in 1..n : ds[i] = cs[i]
LEMMA SameSteps ==
  ASSUME NEW cs, NEW ds, Len(cs) \in Nat, Len(ds) \in Nat,
         NEW n \in Nat, n <= Len(cs), n <= Len(ds), Alike(cs, ds, n),
         NEW f, NEW h, Steps(cs, f), Steps(ds, h)
  PROVE  Alike(f, h, n)
<1> DEFINE Bad == {i \in 1..n : h[i] # f[i]}
<1> SUFFICES ASSUME Bad # {} PROVE FALSE
  BY DEF Alike
<1>1. Bad \in SUBSET Nat
  OBVIOUS
<1>2. PICK m \in Bad : \A k \in Bad : m <= k
  BY <1>1, Least
<1>3. m \in 1..n /\ h[m] # f[m] /\ m \in 1..Len(cs) /\ m \in 1..Len(ds) /\ ds[m] = cs[m]
  BY <1>2 DEF Alike
<1>4. f[m] = Flattened(cs, f, m) /\ h[m] = Flattened(ds, h, m)
  BY <1>3 DEF Steps
<1>5. m # 1
  BY <1>3, <1>4 DEF Flattened
<1>6. m - 1 \in 1..n /\ ~(m <= m - 1)
  BY <1>3, <1>5
<1>7. h[m - 1] = f[m - 1]
  <2>1. m - 1 \notin Bad
    <3> HIDE DEF Bad
    <3> QED BY <1>2, <1>6
  <2> QED BY <1>6, <2>1
<1> QED BY <1>3, <1>4, <1>5, <1>7 DEF Flattened

LEMMA LongerExtended ==
  ASSUME NEW S, NEW cs \in Seq(Seq(S)), Len(cs) > 0, NEW T, NEW ds \in Seq(Seq(T)),
         NEW ev, Len(ev) \in Nat, Extended(ds, cs, ev)
  PROVE  /\ Len(FlattenSeq(cs)) \in Nat
         /\ Len(FlattenSeq(ds)) = Len(FlattenSeq(cs)) + Len(ev)
<1>1. PICK f : /\ Steps(cs, f) /\ FlattenSeq(cs) = f[Len(cs)]
               /\ \A i \in 1..Len(cs) : f[i] \in Seq(S)
  BY FlatSteps
<1>2. PICK N : N = Len(cs)
  OBVIOUS
<1>3. N \in Nat /\ N > 0 /\ N \in 1..N /\ Len(ds) = N
  <2>1. Len(cs) \in Nat
    BY LenProperties
  <2> QED BY <1>2, <2>1 DEF Extended
<1>4. PICK h : /\ Steps(ds, h) /\ FlattenSeq(ds) = h[Len(ds)]
               /\ \A i \in 1..Len(ds) : h[i] \in Seq(T)
  BY <1>3, FlatSteps
<1>5. cs[N] \in Seq(S) /\ ds[N] \in Seq(T)
  BY <1>2, <1>3, ElementOfSeq
<1>6. Len(cs[N]) \in Nat /\ Len(ds[N]) \in Nat /\ Len(ds[N]) = Len(cs[N]) + Len(ev)
  BY <1>2, <1>5, LenProperties DEF Extended
<1>7. f[N] = Flattened(cs, f, N) /\ h[N] = Flattened(ds, h, N)
  BY <1>1, <1>2, <1>3, <1>4 DEF Steps
<1>8. CASE N = 1
  BY <1>1, <1>2, <1>3, <1>4, <1>6, <1>7, <1>8 DEF Flattened
<1>9. CASE N # 1
  <2>1. N - 1 \in 1..N /\ N - 1 \in Nat /\ N - 1 <= N
    BY <1>3, <1>9
  <2>2. \A i \in 1..(N - 1) : ds[i] = cs[i]
    <3>1. \A i \in 1..(N - 1) : i \in 1..N /\ i # N
      BY <1>3
    <3> QED BY <1>2, <3>1 DEF Extended
  <2>3. \A i \in 1..(N - 1) : h[i] = f[i]
    <3>1. PICK n : n = N - 1
      OBVIOUS
    <3>2. /\ Len(cs) \in Nat /\ Len(ds) \in Nat /\ n \in Nat /\ n <= Len(cs) /\ n <= Len(ds)
          /\ Alike(cs, ds, n) /\ Steps(cs, f) /\ Steps(ds, h)
      BY <1>1, <1>2, <1>3, <1>4, <2>1, <2>2, <3>1 DEF Alike
    <3>3. Alike(f, h, n)
      BY <3>2, SameSteps
    <3> QED BY <3>1, <3>3 DEF Alike
  <2>4. h[N - 1] = f[N - 1]
    <3>1. N - 1 \in 1..(N - 1)
      BY <1>3, <1>9
    <3> QED BY <2>3, <3>1
  <2>5. f[N - 1] \in Seq(S) /\ h[N - 1] \in Seq(T)
    BY <1>1, <1>2, <1>3, <1>4, <2>1
  <2>6. Len(f[N - 1] \o cs[N]) = Len(f[N - 1]) + Len(cs[N]) /\ Len(f[N - 1]) \in Nat
    BY <1>5, <2>5, ConcatProperties, LenProperties
  <2>7. Len(h[N - 1] \o ds[N]) = Len(h[N - 1]) + Len(ds[N])
    BY <1>5, <2>5, ConcatProperties
  <2>8. f[N] = f[N - 1] \o cs[N] /\ h[N] = h[N - 1] \o ds[N]
    BY <1>7, <1>9 DEF Flattened
  <2>9. Len(f[N]) = Len(f[N - 1]) + Len(cs[N]) /\ Len(h[N]) = Len(f[N - 1]) + Len(ds[N])
    BY <2>4, <2>6, <2>7, <2>8
  <2>10. PICK a, b, c, e : a = Len(f[N - 1]) /\ b = Len(cs[N]) /\ c = Len(ds[N]) /\ e = Len(ev)
    OBVIOUS
  <2>11. Len(f[N]) = a + b /\ Len(h[N]) = a + c /\ c = b + e /\ a \in Nat /\ b \in Nat /\ e \in Nat
    BY <1>6, <2>6, <2>9, <2>10
  <2>12. Len(f[N]) \in Nat /\ Len(h[N]) = Len(f[N]) + e
    BY <2>11
  <2> QED BY <1>1, <1>2, <1>3, <1>4, <2>10, <2>12
<1> QED BY <1>8, <1>9

LEMMA LongerAdded ==
  ASSUME NEW S, NEW cs \in Seq(Seq(S)), Len(cs) > 0, NEW T, NEW ds \in Seq(Seq(T)),
         NEW ev, Added(ds, cs, ev)
  PROVE  Len(FlattenSeq(ds)) = Len(FlattenSeq(cs)) + Len(ev)
<1>1. PICK f : /\ Steps(cs, f) /\ FlattenSeq(cs) = f[Len(cs)]
               /\ \A i \in 1..Len(cs) : f[i] \in Seq(S)
  BY FlatSteps
<1>2. PICK N, M : N = Len(cs) /\ M = N + 1
  OBVIOUS
<1>3. N \in Nat /\ N > 0 /\ N \in 1..N /\ Len(ds) = M /\ M \in 1..M /\ M # 1 /\ M - 1 = N /\ N <= M
      /\ M \in Nat /\ M > 0
  <2>1. Len(cs) \in Nat
    BY LenProperties
  <2> QED BY <1>2, <2>1 DEF Added
<1>4. PICK h : /\ Steps(ds, h) /\ FlattenSeq(ds) = h[Len(ds)]
               /\ \A i \in 1..Len(ds) : h[i] \in Seq(T)
  BY <1>3, FlatSteps
<1>5. ds[M] \in Seq(T) /\ ds[M] = ev
  BY <1>2, <1>3, ElementOfSeq DEF Added
<1>6. h[M] = Flattened(ds, h, M)
  BY <1>3, <1>4 DEF Steps
<1>7. h[M] = h[N] \o ev
  BY <1>3, <1>5, <1>6 DEF Flattened
<1>8. h[N] = f[N]
  <2>1. \A i \in 1..N : ds[i] = cs[i]
    BY <1>2 DEF Added
  <2>2. \A i \in 1..N : h[i] = f[i]
    <3>1. /\ Len(cs) \in Nat /\ Len(ds) \in Nat /\ N \in Nat /\ N <= Len(cs) /\ N <= Len(ds)
          /\ Alike(cs, ds, N) /\ Steps(cs, f) /\ Steps(ds, h)
      BY <1>1, <1>2, <1>3, <1>4, <2>1 DEF Alike
    <3>2. Alike(f, h, N)
      BY <3>1, SameSteps
    <3> QED BY <3>2 DEF Alike
  <2> QED BY <1>3, <2>2
<1>9. h[N] \in Seq(T)
  <2>1. N \in 1..Len(ds)
    BY <1>3
  <2> QED BY <1>4, <2>1
<1>10. Len(h[M]) = Len(h[N]) + Len(ev)
  BY <1>5, <1>7, <1>9, ConcatProperties
<1> QED BY <1>1, <1>2, <1>3, <1>4, <1>8, <1>10

----------------------------------------------------------------------------
(* The sequence numbers of a recording without a fault rise.                 *)
Earlier(i, p, j, q) == i < j \/ (i = j /\ p < q)
Rising(cs, l) ==
  /\ \A i \in 1..Len(cs) : \A p \in 1..Len(cs[i]) : cs[i][p].sequence \in 0..l
  /\ \A i, j \in 1..Len(cs) : \A p \in 1..Len(cs[i]) : \A q \in 1..Len(cs[j]) :
       Earlier(i, p, j, q) /\ cs[j][q].sequence # None => cs[i][p].sequence <= cs[j][q].sequence
Counted(ev, l) ==
  \A k \in 1..Len(ev) : ev[k].sequence = None \/ ev[k].sequence = l + k
(* Where in ds the events of cs are, and where those of ev.                  *)
Old(ds, cs, i, p, N, M) ==
  i \in 1..Len(cs) /\ p \in 1..Len(cs[i]) /\ ds[i][p] = cs[i][p] /\ (i < N \/ (i = N /\ p <= M))
New(ds, ev, i, p, N, M) == i = N /\ p > M /\ p - M \in 1..Len(ev) /\ ds[i][p] = ev[p - M]
Split(ds, cs, ev, N, M) ==
  \A i \in 1..Len(ds) : \A p \in 1..Len(ds[i]) : Old(ds, cs, i, p, N, M) \/ New(ds, ev, i, p, N, M)

LEMMA RisingSplit ==
  ASSUME NEW cs, NEW ds, NEW ev, Len(cs) \in Nat, Len(ev) \in Nat, NEW N \in Nat, NEW M \in Nat,
         Split(ds, cs, ev, N, M), NEW l \in Nat, Rising(cs, l), Counted(ev, l), Len(ds) \in Nat
  PROVE  Rising(ds, l + Len(ev))
<1>1. PICK e, z : e = Len(ev) /\ z = l + e
  OBVIOUS
<1>2. e \in Nat /\ z \in Nat /\ l <= z /\ None = 0
  BY <1>1 DEF None
<1>3. ASSUME NEW i, NEW p, Old(ds, cs, i, p, N, M)
      PROVE  ds[i][p].sequence \in 0..l /\ i \in Nat /\ (i < N \/ (i = N /\ p <= M))
  BY <1>3 DEF Old, Rising
<1>4. ASSUME NEW i, NEW p \in Nat, New(ds, ev, i, p, N, M)
      PROVE  /\ ds[i][p].sequence = None \/ ds[i][p].sequence = l + (p - M)
             /\ i = N /\ p > M /\ p - M <= e
  BY <1>1, <1>4 DEF New, Counted
<1>5. ASSUME NEW i \in 1..Len(ds), NEW p \in 1..Len(ds[i])
      PROVE  ds[i][p].sequence \in 0..z
  <2>1. CASE Old(ds, cs, i, p, N, M)
    BY <1>2, <1>3, <2>1
  <2>2. CASE New(ds, ev, i, p, N, M)
    <3>1. p \in Nat
      OBVIOUS
    <3>2. (ds[i][p].sequence = None \/ ds[i][p].sequence = l + (p - M)) /\ p > M /\ p - M <= e
      BY <1>4, <2>2, <3>1
    <3> QED BY <1>1, <1>2, <3>1, <3>2
  <2> QED BY <2>1, <2>2 DEF Split
<1>6. ASSUME NEW i \in 1..Len(ds), NEW j \in 1..Len(ds), NEW p \in 1..Len(ds[i]),
             NEW q \in 1..Len(ds[j]), Earlier(i, p, j, q), ds[j][q].sequence # None
      PROVE  ds[i][p].sequence <= ds[j][q].sequence
  <2>1. PICK a, b : a = ds[i][p].sequence /\ b = ds[j][q].sequence
    OBVIOUS
  <2>2. p \in Nat /\ q \in Nat /\ i \in Nat /\ j \in Nat /\ b # None
    BY <1>6, <2>1
  <2>3. CASE Old(ds, cs, i, p, N, M) /\ Old(ds, cs, j, q, N, M)
    BY <1>6, <2>3 DEF Old, Rising
  <2>4. CASE Old(ds, cs, i, p, N, M) /\ New(ds, ev, j, q, N, M)
    <3>1. a \in 0..l
      BY <1>3, <2>1, <2>4
    <3>2. b = l + (q - M) /\ q > M
      BY <1>4, <2>1, <2>2, <2>4
    <3> QED BY <2>1, <2>2, <3>1, <3>2
  <2>5. CASE New(ds, ev, i, p, N, M) /\ Old(ds, cs, j, q, N, M)
    <3>1. i = N /\ p > M
      BY <1>4, <2>2, <2>5
    <3>2. j < N \/ (j = N /\ q <= M)
      BY <1>3, <2>5
    <3> QED BY <1>6, <2>2, <3>1, <3>2 DEF Earlier
  <2>6. CASE New(ds, ev, i, p, N, M) /\ New(ds, ev, j, q, N, M)
    <3>1. i = N /\ (a = None \/ a = l + (p - M))
      BY <1>4, <2>1, <2>2, <2>6
    <3>2. j = N /\ b = l + (q - M) /\ q > M
      BY <1>4, <2>1, <2>2, <2>6
    <3>3. p < q
      BY <1>6, <2>2, <3>1, <3>2 DEF Earlier
    <3>4. a <= b
      BY <1>2, <2>2, <3>1, <3>2, <3>3
    <3> QED BY <2>1, <3>4
  <2> QED BY <2>3, <2>4, <2>5, <2>6 DEF Split
<1>7. Rising(ds, z)
  BY <1>5, <1>6 DEF Rising
<1> QED BY <1>1, <1>7

LEMMA RisingExtended ==
  ASSUME NEW cs, NEW ds, NEW ev, Sized(cs), Len(ev) \in Nat, Extended(ds, cs, ev),
         NEW l \in Nat, Rising(cs, l), Counted(ev, l)
  PROVE  Rising(ds, l + Len(ev))
<1>1. PICK N, M, e : N = Len(cs) /\ M = Len(cs[N]) /\ e = Len(ev)
  OBVIOUS
<1>2. N \in Nat /\ M \in Nat /\ e \in Nat /\ Len(ds) = N /\ N \in 1..N
  BY <1>1 DEF Sized, Extended
<1>3. /\ \A i \in 1..N : i # N => ds[i] = cs[i] /\ Len(cs[i]) \in Nat
      /\ Len(ds[N]) = M + e /\ \A k \in 1..M : ds[N][k] = cs[N][k]
      /\ \A k \in 1..e : ds[N][M + k] = ev[k]
  BY <1>1 DEF Sized, Extended
<1>4. ASSUME NEW i \in 1..N, NEW p \in 1..Len(ds[i])
      PROVE  Old(ds, cs, i, p, N, M) \/ New(ds, ev, i, p, N, M)
  <2>1. CASE i # N
    <3>1. ds[i] = cs[i] /\ i < N
      BY <1>2, <1>3, <2>1
    <3> QED BY <1>1, <3>1 DEF Old
  <2>2. CASE i = N /\ p <= M
    <3>1. p \in 1..M
      BY <1>2, <2>2
    <3> QED BY <1>1, <1>3, <2>2, <3>1 DEF Old
  <2>3. CASE i = N /\ ~(p <= M)
    <3>1. p \in 1..(M + e)
      BY <1>3, <2>3
    <3>2. PICK k : k = p - M
      OBVIOUS
    <3>3. k \in 1..e /\ p = M + k /\ p > M
      BY <1>2, <2>3, <3>1, <3>2
    <3> QED BY <1>1, <1>3, <2>3, <3>2, <3>3 DEF New
  <2> QED BY <2>1, <2>2, <2>3
<1>5. Split(ds, cs, ev, N, M)
  BY <1>2, <1>4 DEF Split
<1> QED BY <1>1, <1>2, <1>5, RisingSplit

LEMMA RisingAdded ==
  ASSUME NEW cs, NEW ds, NEW ev, Sized(cs), Len(ev) \in Nat, Added(ds, cs, ev),
         NEW l \in Nat, Rising(cs, l), Counted(ev, l)
  PROVE  Rising(ds, l + Len(ev))
<1>1. PICK L, N : L = Len(cs) /\ N = L + 1
  OBVIOUS
<1>2. L \in Nat /\ N \in Nat /\ Len(ds) = N /\ 0 \in Nat
  BY <1>1 DEF Sized, Added
<1>3. ds[N] = ev /\ \A i \in 1..L : ds[i] = cs[i]
  BY <1>1 DEF Added
<1>4. ASSUME NEW i \in 1..N, NEW p \in 1..Len(ds[i])
      PROVE  Old(ds, cs, i, p, N, 0) \/ New(ds, ev, i, p, N, 0)
  <2>1. CASE i # N
    <3>1. i \in 1..L /\ i < N
      BY <1>1, <1>2, <2>1
    <3> QED BY <1>1, <1>3, <3>1 DEF Old
  <2>2. CASE i = N
    <3>1. p > 0 /\ p - 0 = p /\ p \in 1..Len(ev)
      BY <1>3, <2>2
    <3> QED BY <1>3, <2>2, <3>1 DEF New
  <2> QED BY <2>1, <2>2
<1>5. Split(ds, cs, ev, N, 0)
  BY <1>2, <1>4 DEF Split
<1> QED BY <1>1, <1>2, <1>5, RisingSplit

Clocked == faults = {} => SequenceNow \in Nat /\ Rising(chunks, SequenceNow)

(* One more chunk, or more in the last.                                      *)
LEMMA ClockedOn ==
  ASSUME NEW S, NEW cs \in Seq(Seq(S)), Sized(cs), NEW T, NEW ds \in Seq(Seq(T)),
         NEW ev, Len(ev) \in Nat, Extended(ds, cs, ev) \/ Added(ds, cs, ev),
         NEW l, l = Len(FlattenSeq(cs)), l \in Nat, Rising(cs, l), Counted(ev, l)
  PROVE  /\ Len(FlattenSeq(ds)) = l + Len(ev) /\ Len(FlattenSeq(ds)) \in Nat
         /\ Rising(ds, Len(FlattenSeq(ds)))
<1>1. Len(cs) > 0
  BY DEF Sized
<1>2. Len(FlattenSeq(ds)) = l + Len(ev)
  BY <1>1, LongerExtended, LongerAdded
<1>3. Rising(ds, l + Len(ev))
  BY RisingExtended, RisingAdded
<1>4. l + Len(ev) \in Nat
  OBVIOUS
<1> QED BY <1>2, <1>3, <1>4

LEMMA ClockedGrows ==
  ASSUME Recorded, Recorded', Clocked, faults = {}, NEW ev, Len(ev) \in Nat,
         Extended(chunks', chunks, ev), Counted(ev, SequenceNow)
  PROVE  Clocked'
<1>1. PICK cs, ds, l : cs = chunks /\ ds = chunks' /\ l = SequenceNow
  OBVIOUS
<1>2. PICK S : cs \in Seq(Seq(S))
  BY <1>1, ChunksSized
<1>3. PICK T : ds \in Seq(Seq(T))
  BY <1>1 DEF Recorded, ChunksFit
<1>4. /\ Sized(cs) /\ l = Len(FlattenSeq(cs)) /\ l \in Nat /\ Rising(cs, l)
      /\ Extended(ds, cs, ev) /\ Counted(ev, l)
  BY <1>1, ChunksSized DEF Clocked, SequenceNow
<1>5. Len(FlattenSeq(ds)) \in Nat /\ Rising(ds, Len(FlattenSeq(ds)))
  BY <1>2, <1>3, <1>4, ClockedOn
<1> QED BY <1>1, <1>5 DEF Clocked, SequenceNow

LEMMA ClockedTurns ==
  ASSUME Recorded, Recorded', Noted, Clocked, faults = {}, Rotate
  PROVE  Clocked'
<1>1. PICK closed, closes : \E reopened, K, J : Turns(closed, closes, reopened, K, J)
  BY RotateEvents
<1>2. PICK reopened, K, J : Turns(closed, closes, reopened, K, J)
  BY <1>1
<1>3. PICK cs, ds, l, m : cs = chunks /\ ds = chunks' /\ l = SequenceNow /\ m = l + Len(closes)
  OBVIOUS
<1>4. PICK S : cs \in Seq(Seq(S))
  BY <1>3, ChunksSized
<1>5. PICK T : ds \in Seq(Seq(T))
  BY <1>3 DEF Recorded, ChunksFit
<1>6. PICK D : closed \in Seq(Seq(D))
  BY <1>2 DEF Turns
<1>7. /\ Sized(cs) /\ l = Len(FlattenSeq(cs)) /\ l \in Nat /\ Rising(cs, l)
  BY <1>3, ChunksSized DEF Clocked, SequenceNow
<1>8. /\ Len(closes) \in Nat /\ Len(reopened) \in Nat
      /\ Extended(closed, cs, closes) /\ Added(ds, closed, reopened)
      /\ Counted(closes, l) /\ Counted(reopened, m)
  BY <1>2, <1>3 DEF Turns, Counted
<1>9. Len(FlattenSeq(closed)) = m /\ Len(FlattenSeq(closed)) \in Nat
      /\ Rising(closed, Len(FlattenSeq(closed)))
  BY <1>3, <1>4, <1>6, <1>7, <1>8, ClockedOn
<1>10. Sized(closed)
  BY <1>7, <1>8, InExtended
<1>11. m = Len(FlattenSeq(closed)) /\ m \in Nat /\ Rising(closed, m)
  BY <1>9
<1>12. Len(FlattenSeq(ds)) \in Nat /\ Rising(ds, Len(FlattenSeq(ds)))
  BY <1>5, <1>6, <1>8, <1>10, <1>11, ClockedOn
<1> QED BY <1>3, <1>12 DEF Clocked, SequenceNow

LEMMA ClockedStep ==
  ASSUME IndexInv, Clocked, [Next]_vars
  PROVE  Clocked'
<1>1. Recorded /\ Noted /\ OracleInv
  BY DEF IndexInv, OracleInv, Faithful
<1>2. Recorded'
  <2>1. OracleInv'
    BY <1>1, OracleStep
  <2> QED BY <2>1 DEF OracleInv
<1>3. CASE UNCHANGED <<chunks, faults>>
  BY <1>3 DEF Clocked, SequenceNow
<1>4. CASE \E t \in Tracks, f \in Functions : Enter(t, f)
  <2>1. PICK t \in Tracks : \E f \in Functions : Enter(t, f)
    BY <1>4
  <2>2. PICK f \in Functions : Enter(t, f)
    BY <2>1
  <2>3. PICK e : Extended(chunks', chunks, <<e>>) /\ e.sequence = SequenceNow + 1
    BY <1>1, <2>2, EnterEvents
  <2>4. faults' = faults
    BY <2>2 DEF Enter
  <2>5. PICK ev : ev = <<e>>
    OBVIOUS
  <2>6. Len(ev) = 1 /\ ev[1] = e /\ \A k \in 1..1 : k = 1
    BY <2>5
  <2>7. Counted(ev, SequenceNow)
    BY <2>3, <2>6 DEF Counted
  <2>8. Len(ev) \in Nat /\ Extended(chunks', chunks, ev)
    BY <2>3, <2>5, <2>6
  <2>9. CASE faults = {}
    BY <1>1, <1>2, <2>7, <2>8, <2>9, ClockedGrows
  <2>10. CASE faults # {}
    BY <2>4, <2>10 DEF Clocked
  <2> QED BY <2>9, <2>10
<1>5. CASE \/ \E t \in Tracks : Return(t) \/ ReturnUnprobed(t)
           \/ \E t \in Tracks, f \in {"twice", "unended"} : ReturnMalformed(t, f)
  <2>1. PICK t \in Tracks : \/ Return(t) \/ ReturnUnprobed(t)
                            \/ \E f \in {"twice", "unended"} : ReturnMalformed(t, f)
    BY <1>5
  <2>2. PICK ev : \E f : /\ Extended(chunks', chunks, ev) /\ Returned(ev, t, Last(active[t]).call, f)
                         /\ \/ f = "none" /\ faults' = faults
                            \/ f \in Malformed /\ faults' = faults \cup {f}
    BY <1>1, <2>1, ReturnEvents
  <2>3. PICK f : /\ Extended(chunks', chunks, ev) /\ Returned(ev, t, Last(active[t]).call, f)
                 /\ \/ f = "none" /\ faults' = faults
                    \/ f \in Malformed /\ faults' = faults \cup {f}
    BY <2>2
  <2>4. Counted(ev, SequenceNow) /\ Len(ev) \in Nat
    BY <2>3 DEF Returned, Counted
  <2>5. CASE faults = {}
    BY <1>1, <1>2, <2>3, <2>4, <2>5, ClockedGrows
  <2>6. CASE faults # {}
    <3>1. faults' # {}
      BY <2>3, <2>6
    <3> QED BY <3>1 DEF Clocked
  <2> QED BY <2>5, <2>6
<1>6. CASE Rotate
  <2>1. faults' = faults
    BY <1>6 DEF Rotate
  <2>2. CASE faults = {}
    BY <1>1, <1>2, <1>6, <2>2, ClockedTurns
  <2>3. CASE faults # {}
    BY <2>1, <2>3 DEF Clocked
  <2> QED BY <2>2, <2>3
<1>7. CASE Drop \/ Crash
  <2>1. faults' # {}
    BY <1>7 DEF Drop, Crash, Fault
  <2> QED BY <2>1 DEF Clocked
<1>8. CASE \/ BuildAll \/ \E n \in DOMAIN chunks : BuildWithout(n)
           \/ \E n \in 1..(Len(chunks) - 1) : BuildSwapped(n)
  <2>1. chunks' = chunks /\ (faults' = {} => faults = {})
    BY <1>8 DEF BuildAll, BuildWithout, BuildSwapped, Build, recorded
  <2> QED BY <2>1 DEF Clocked, SequenceNow
<1>9. CASE UNCHANGED vars
  BY <1>3, <1>9 DEF vars, recording, recorded
<1>10. CASE VerifyEnter \/ VerifyReopen \/ VerifyExitProbe \/ VerifySliceEnd
  <2>1. UNCHANGED <<chunks, faults>>
    BY <1>10 DEF VerifyEnter, VerifyReopen, VerifyExitProbe, VerifySliceEnd, Handle, recording,
                 recorded
  <2> QED BY <1>3, <2>1
<1>11. CASE VerifyFinish
  BY <1>3, <1>11 DEF VerifyFinish, recording, recorded
<1> QED BY <1>4, <1>5, <1>6, <1>7, <1>8, <1>9, <1>10, <1>11 DEF Next

(* So no row is numbered before one that is read.                            *)
LEMMA NeverBack ==
  ASSUME OracleInv, Mirror, Clocked, faults = {}, phase = "verify", done < Len(rows)
  PROVE  ~Regressed
<1>1. PICK from : \E GG, CC : Traces(from, GG, CC) /\ Behind(from, GG, CC)
  BY DEF Mirror, Sound
<1>2. Tabled(chunks, rows, from)
  BY <1>1 DEF Traces
<1> SUFFICES ASSUME Regressed PROVE FALSE
  OBVIOUS
<1>3. PICK m \in 1..done : /\ Row.sequence # None /\ rows[m].sequence # None
                           /\ rows[m].sequence > Row.sequence
  <2>1. done \in Nat
    BY DEF OracleInv, Verified
  <2>2. PICK numbered : numbered = InSequence
    OBVIOUS
  <2>3. numbered \in SUBSET (0..done)
    BY <2>1, <2>2 DEF InSequence
  <2>4. numbered # {} => Max(numbered) \in numbered
    BY <2>1, <2>3, LargestIs
  <2>5. PICK m \in InSequence : Row.sequence # None /\ rows[m].sequence > Row.sequence
    BY <2>2, <2>4 DEF Regressed
  <2> QED BY <2>5 DEF InSequence
<1>4. m \in DOMAIN rows /\ At \in DOMAIN rows /\ m < At /\ Row = rows[At]
  <2>1. PICK S : rows \in Seq(S)
    BY DEF OracleInv, Verified, EntriesFit
  <2>2. DOMAIN rows = 1..Len(rows) /\ Len(rows) \in Nat /\ done \in Nat
    BY <2>1, LenProperties DEF OracleInv, Verified
  <2> QED BY <2>2 DEF At, Row
<1>5. Before(from[m], from[At])
  BY <1>2, <1>4 DEF Tabled
<1>6. PICK i, p, j, q : i = from[m][1] /\ p = from[m][2] /\ j = from[At][1] /\ q = from[At][2]
  OBVIOUS
<1>7. /\ i \in DOMAIN chunks /\ p \in DOMAIN chunks[i] /\ rows[m].sequence = chunks[i][p].sequence
      /\ j \in DOMAIN chunks /\ q \in DOMAIN chunks[j] /\ Row.sequence = chunks[j][q].sequence
  BY <1>2, <1>4, <1>6 DEF Tabled, SameEvent
<1>8. PICK S : chunks \in Seq(Seq(S))
  BY DEF OracleInv, Recorded, ChunksFit
<1>9. i \in 1..Len(chunks) /\ p \in 1..Len(chunks[i]) /\ j \in 1..Len(chunks) /\ q \in 1..Len(chunks[j])
  BY <1>7, <1>8, ChunksTyped
<1>10. Earlier(i, p, j, q)
  BY <1>5, <1>6 DEF Before, Earlier
<1>11. PICK a, b, l : a = chunks[i][p].sequence /\ b = chunks[j][q].sequence /\ l = SequenceNow
  OBVIOUS
<1>12. l \in Nat /\ a \in 0..l /\ b \in 0..l
  BY <1>9, <1>11 DEF Clocked, Rising
<1>13. a <= b
  BY <1>3, <1>7, <1>9, <1>10, <1>11 DEF Clocked, Rising
<1> QED BY <1>3, <1>7, <1>11, <1>12, <1>13

----------------------------------------------------------------------------
(* A recording without a fault: each row finds what it expects.              *)
Clean == faults = {} /\ phase = "verify" => issues = {}

LEMMA RowFaced ==
  ASSUME OracleInv, Kept, Mirror, faults = {}, phase = "verify", done < Len(rows)
  PROVE  \E b, a, limit : \E closing \in BOOLEAN : Facing(b, a, closing, limit) /\ Leftover = {}
<1>1. Sound
  BY DEF Sound
<1>2. PICK b : \E a, limit : Facing(b, a, TRUE, limit) \/ Facing(b, a, FALSE, limit)
  BY <1>1, RowFacing
<1>3. PICK a, limit : Facing(b, a, TRUE, limit) \/ Facing(b, a, FALSE, limit)
  BY <1>2
<1>4. CASE Facing(b, a, TRUE, limit)
  <2>1. Leftover = {}
    BY <1>4 DEF Facing
  <2> QED BY <1>4, <2>1
<1>5. CASE Facing(b, a, FALSE, limit)
  <2>1. Leftover = {}
    BY <1>5 DEF Facing
  <2> QED BY <1>5, <2>1
<1> QED BY <1>3, <1>4, <1>5

LEMMA HandledClean ==
  ASSUME NEW stack, NEW waiting, NEW x, NEW codes, Handle(stack, waiting, x, codes), codes = {},
         Leftover = {}, ~Regressed, issues = {}
  PROVE  issues' = {}
<1>1. issues' = issues \cup RowIssues \cup UNION {Issue(c) : c \in codes}
  BY DEF Handle
<1>2. RowIssues = {}
  BY DEF RowIssues
<1> QED BY <1>1, <1>2

(* Nothing waits where nothing is expected to.                               *)
LEMMA NothingWaits ==
  ASSUME OracleInv, Logged, Kept, done < Len(rows), faults = {},
         NEW b, NEW a, NEW closing, NEW limit, Facing(b, a, closing, limit), b.waiting = <<>>
  PROVE  pending[Row.track] = <<>> /\ Flushed = {} /\ FlushCodes = {}
<1>1. PICK w : w = pending[Row.track]
  OBVIOUS
<1>2. w \in Seq(Invocations)
  BY <1>1, RowTyped
<1>3. Len(w) = Len(<<>>)
  <2>1. PICK z, clean : z = b.waiting /\ clean = (faults = {})
    OBVIOUS
  <2>2. WaitMirrors(w, z, limit, clean) /\ clean
    BY <1>1, <2>1 DEF Facing
  <2>3. Len(z) = Len(w)
    BY <2>2 DEF WaitMirrors
  <2> QED BY <2>1, <2>3
<1>4. w = <<>>
  BY <1>2, <1>3, EmptySeq
<1>5. ToSet(w) = {}
  BY <1>4 DEF ToSet
<1> QED BY <1>1, <1>4, <1>5 DEF Flushed, FlushCodes

LEMMA EnterClean ==
  ASSUME OracleInv, Logged, Kept, Mirror, Clocked, faults = {}, issues = {}, VerifyEnter
  PROVE  issues' = {}
<1> DEFINE s == Append(Opened[Row.track], NewInvocation(TRUE))
<1>1. phase = "verify" /\ done < Len(rows) /\ Row.kind = "enter" /\ Handle(s, <<>>, Flushed, FlushCodes)
  BY DEF VerifyEnter, Verifying
<1> HIDE DEF s
<1>2. PICK b, a, limit : \E closing \in BOOLEAN : Facing(b, a, closing, limit) /\ Leftover = {}
  BY <1>1, RowFaced
<1>3. PICK closing \in BOOLEAN : Facing(b, a, closing, limit) /\ Leftover = {}
  BY <1>2
<1>4. b.waiting = <<>>
  BY <1>1, <1>3, FacingEnter
<1>5. FlushCodes = {}
  BY <1>1, <1>3, <1>4, NothingWaits
<1>6. ~Regressed
  BY <1>1, NeverBack
<1> QED BY <1>1, <1>3, <1>5, <1>6, HandledClean

LEMMA ReopenFound ==
  ASSUME OracleInv, Logged, Kept, done < Len(rows), Row.kind = "reopen",
         NEW b, NEW a, NEW closing, NEW limit, Facing(b, a, closing, limit)
  PROVE  LET w == pending[Row.track]
             found == {n \in DOMAIN w : Reopenable(w[n])}
         IN  found # {} /\ Max(found) = Len(w)
<1> DEFINE w     == pending[Row.track]
           found == {n \in DOMAIN w : Reopenable(w[n])}
           k     == Max(found)
<1>1. Row.id = IF identified THEN Row.call ELSE None
  BY RowLogged
<1>2. w \in Seq(Settled) /\ w \in Seq(Invocations)
  BY RowTyped, FlushedSettled
<1>3. b.waiting \in Seq(Called) /\ b.waiting # <<>> /\ Last(b.waiting) = CallOf(Row) /\ ~closing
  BY FacingReopen
<1>4. limit = Row.source
  BY <1>3 DEF Facing
<1>5. PICK z, clean : z = b.waiting /\ clean = (faults = {})
  OBVIOUS
<1>6. WaitMirrors(w, z, limit, clean)
  BY <1>5 DEF Facing
<1> HIDE DEF w, found, k
<1>7. z \in Seq(Called) /\ z # <<>> /\ Last(z) = CallOf(Row)
  BY <1>3, <1>5
<1>8. w # <<>> /\ Len(w) \in Nat \ {0} /\ Awaits(w[Len(w)], Last(z), limit)
  BY <1>2, <1>6, <1>7, WaitPopped
<1>9. PICK i : i = w[Len(w)]
  OBVIOUS
<1>10. CallOf(i) = CallOf(Row) /\ i.closedIn < Row.source
  BY <1>4, <1>7, <1>8, <1>9 DEF Awaits
<1>11. Len(w) \in DOMAIN w /\ DOMAIN w = 1..Len(w)
  BY <1>2, <1>8, LenProperties
<1>12. i \in Settled
  BY <1>2, <1>9, <1>11, SeqSettled
<1>13. i.call = Row.call /\ i.function = Row.function
  BY <1>10 DEF CallOf
<1>14. i.id = IF identified THEN i.call ELSE None
  BY <1>12 DEF Settled, Right
<1>15. Matches(i, Row)
  BY <1>1, <1>13, <1>14 DEF Matches
<1>16. Reopenable(i)
  BY <1>10, <1>15 DEF Reopenable
<1>17. Len(w) \in found
  BY <1>9, <1>11, <1>16 DEF found
<1>18. k = Len(w)
  <2>1. found \in SUBSET (1..Len(w)) /\ Len(w) \in Nat
    BY <1>8, <1>11 DEF found
  <2>2. found \in SUBSET (0..Len(w))
    BY <2>1
  <2>3. k \in found /\ \A n \in found : n <= k
    BY <1>17, <2>1, <2>2, LargestIs DEF k
  <2>4. Len(w) <= k /\ k \in 1..Len(w)
    BY <1>17, <2>1, <2>3
  <2> QED BY <2>1, <2>4
<1> QED BY <1>17, <1>18 DEF k, w, found

LEMMA ReopenClean ==
  ASSUME OracleInv, Logged, Kept, Mirror, Clocked, faults = {}, issues = {}, VerifyReopen
  PROVE  issues' = {}
<1> DEFINE w     == pending[Row.track]
           found == {n \in DOMAIN w : Reopenable(w[n])}
<1>1. phase = "verify" /\ done < Len(rows) /\ Row.kind = "reopen"
  BY DEF VerifyReopen, Verifying
<1>2. PICK b, a, limit : \E closing \in BOOLEAN : Facing(b, a, closing, limit) /\ Leftover = {}
  BY <1>1, RowFaced
<1>3. PICK closing \in BOOLEAN : Facing(b, a, closing, limit) /\ Leftover = {}
  BY <1>2
<1>4. found # {} /\ Max(found) = Len(w)
  BY <1>1, <1>3, ReopenFound
<1>5. \E stack, waiting : Handle(stack, waiting, {}, {})
  BY <1>4 DEF VerifyReopen
<1>6. ~Regressed
  BY <1>1, NeverBack
<1> HIDE DEF w, found
<1>7. PICK stack, waiting : Handle(stack, waiting, {}, {})
  BY <1>5
<1> QED BY <1>3, <1>6, <1>7, HandledClean

LEMMA ProbeClean ==
  ASSUME OracleInv, Logged, Kept, Mirror, Clocked, faults = {}, issues = {}, VerifyExitProbe
  PROVE  issues' = {}
<1> DEFINE q == Opened[Row.track]
           n == Exiting(q)
           order == IF n = Len(q) THEN {} ELSE {"exit_probe_out_of_order"}
           r == [q EXCEPT ![n].exit = Row.call]
<1>1. phase = "verify" /\ done < Len(rows) /\ Row.kind = "probe"
  BY DEF VerifyExitProbe, Verifying
<1>2. PICK b, a, limit : \E closing \in BOOLEAN : Facing(b, a, closing, limit) /\ Leftover = {}
  BY <1>1, RowFaced
<1>3. PICK closing \in BOOLEAN : Facing(b, a, closing, limit) /\ Leftover = {}
  BY <1>2
<1>4. b.waiting = <<>> /\ ~b.probed
  BY <1>1, <1>3, FacingProbe
<1>5. FlushCodes = {}
  BY <1>1, <1>3, <1>4, NothingWaits
<1>6. n = Len(q) /\ n # 0 /\ q[n].real /\ ~(q[n].exit # None)
  <2>1. /\ Exiting(q) = Len(q) /\ Len(q) \in DOMAIN q /\ Len(q) \in Nat \ {0}
        /\ q[Len(q)].real /\ (q[Len(q)].exit # None <=> b.probed)
    BY <1>1, <1>3, ProbedLast
  <2> QED BY <1>4, <2>1
<1>7. Handle(r, <<>>, Flushed, FlushCodes \cup order \cup (IF q[n].real THEN {} ELSE {"orphan_synthetic_exit"}))
  BY <1>6 DEF VerifyExitProbe
<1>8. FlushCodes \cup order \cup (IF q[n].real THEN {} ELSE {"orphan_synthetic_exit"}) = {}
  BY <1>5, <1>6
<1>9. ~Regressed
  BY <1>1, NeverBack
<1> HIDE DEF q, n, order, r
<1> QED BY <1>3, <1>7, <1>8, <1>9, HandledClean

LEMMA SliceEndClean ==
  ASSUME OracleInv, Logged, Kept, Mirror, Clocked, faults = {}, issues = {}, VerifySliceEnd
  PROVE  issues' = {}
<1> DEFINE q == Opened[Row.track]
           w == pending[Row.track]
           i == [Last(q) EXCEPT !.closedIn = Row.source]
<1>1. phase = "verify" /\ done < Len(rows) /\ Row.kind = "end"
  BY DEF VerifySliceEnd, Verifying
<1>2. PICK b, a, limit : \E closing \in BOOLEAN : Facing(b, a, closing, limit) /\ Leftover = {}
  BY <1>1, RowFaced
<1>3. PICK closing \in BOOLEAN : Facing(b, a, closing, limit) /\ Leftover = {}
  BY <1>2
<1>4. /\ b.open \in Seq(Called) /\ b.open # <<>> /\ b.probed \in BOOLEAN
      /\ b.probed \/ closing
  BY <1>1, <1>3, FacingEnd
<1>5. closing => Trailing(At)
  BY <1>3 DEF Facing
<1>6. q \in Seq(Invocations) /\ Row.source \in Nat
  BY <1>1, RowTyped
<1>7. PICK o, p : o = b.open /\ p = b.probed
  OBVIOUS
<1>8. StackMirrors(q, o, p)
  BY <1>3, <1>7 DEF Facing
<1> HIDE DEF q, w
<1>9. q # <<>> /\ Last(q) = q[Len(q)] /\ Last(q) \in Invocations
  <2>1. o \in Seq(Called) /\ o # <<>> /\ p \in BOOLEAN
    BY <1>4, <1>7
  <2> QED BY <1>6, <1>8, <2>1, StackPopped
<1>10. Last(q).exit # None <=> p
  <2>1. Len(q) \in Nat \ {0}
    BY <1>6, <1>9, FrontIs
  <2> QED BY <1>8, <1>9, <2>1 DEF StackMirrors
<1>11. i.exit # None \/ Trailing(At)
  <2>1. PICK d, n : d = Last(q) /\ n = Row.source
    OBVIOUS
  <2>2. [d EXCEPT !.closedIn = n].exit = d.exit
    <3>1. d \in Invocations /\ n \in Nat
      BY <1>6, <1>9, <2>1
    <3> QED BY <3>1, Invoked
  <2>3. i.exit = d.exit
    BY <2>1, <2>2
  <2> HIDE DEF i
  <2> QED BY <1>4, <1>5, <1>7, <1>10, <2>1, <2>3
<1> HIDE DEF i
<1>12. \E stack, waiting, x : Handle(stack, waiting, x, {})
  BY <1>9, <1>11 DEF VerifySliceEnd, q, w, i
<1>13. PICK stack, waiting, x : Handle(stack, waiting, x, {})
  BY <1>12
<1>14. ~Regressed
  BY <1>1, NeverBack
<1> QED BY <1>3, <1>13, <1>14, HandledClean

LEMMA CleanStep ==
  ASSUME IndexInv, Tidy, Heard, Clocked, Clean, [Next]_vars
  PROVE  Clean'
<1>1. OracleInv /\ Logged /\ Kept /\ Mirror
  BY DEF IndexInv
<1>2. CASE UNCHANGED vars
  BY <1>2 DEF vars, recording, verifying, Clean
<1>3. CASE \/ \E t \in Tracks, f \in Functions : Enter(t, f)
           \/ \E t \in Tracks : Return(t) \/ ReturnUnprobed(t)
           \/ \E t \in Tracks, f \in {"twice", "unended"} : ReturnMalformed(t, f)
           \/ Drop \/ Rotate \/ Crash
  <2>1. phase' = "record"
    BY <1>3 DEF Enter, Return, ReturnUnprobed, ReturnMalformed, Drop, Rotate, Crash
  <2> QED BY <2>1 DEF Clean
<1>4. CASE \/ BuildAll \/ \E n \in DOMAIN chunks : BuildWithout(n)
           \/ \E n \in 1..(Len(chunks) - 1) : BuildSwapped(n)
  <2>1. PICK passed :
          /\ issues' = {<<"packet_loss", 0>> : n \in announced \cap passed}
          /\ faults \subseteq faults'
    BY <1>4 DEF BuildAll, BuildWithout, BuildSwapped, Build
  <2>2. faults = {} => announced = {}
    BY DEF Heard
  <2>3. faults' = {} => issues' = {}
    BY <2>1, <2>2
  <2> QED BY <2>3 DEF Clean
<1>5. CASE VerifyEnter \/ VerifyReopen \/ VerifyExitProbe \/ VerifySliceEnd
  <2>1. faults' = faults /\ phase = "verify"
    BY <1>5 DEF VerifyEnter, VerifyReopen, VerifyExitProbe, VerifySliceEnd, Verifying, Handle,
                recording
  <2> SUFFICES ASSUME faults = {} PROVE issues' = {}
    BY <2>1 DEF Clean
  <2>2. issues = {}
    BY <2>1 DEF Clean
  <2> QED BY <1>1, <1>5, <2>2, EnterClean, ReopenClean, ProbeClean, SliceEndClean
<1>6. CASE VerifyFinish
  BY <1>6 DEF VerifyFinish, Clean
<1> QED BY <1>2, <1>3, <1>4, <1>5, <1>6 DEF Next

(* After the last row: what the recorder had open is open, and nothing waits. *)
LEMMA AtEnd ==
  ASSUME OracleInv, Noted, Kept, Mirror, faults = {}, phase = "verify", done = Len(rows)
  PROVE  \A t \in Tracks : pending[t] = <<>> /\ StackMirrors(open[t], active[t], FALSE)
<1>1. PICK from : \E GG, CC : Traces(from, GG, CC) /\ Behind(from, GG, CC)
  BY DEF Mirror, Sound
<1>2. PICK GG, CC : Traces(from, GG, CC) /\ Behind(from, GG, CC)
  BY <1>1
<1>3. Recorded /\ Verified(rows, done)
  BY DEF OracleInv
<1>4. PICK cs, N : cs = chunks /\ N = Len(chunks)
  OBVIOUS
<1>5. Tabled(cs, rows, from) /\ Run(cs, GG, CC, TRUE) /\ EndOf(cs, GG) = Still(active)
  BY <1>2, <1>4 DEF Traces
<1>6. /\ N \in Nat /\ N > 0 /\ N \in 1..N /\ DOMAIN cs = 1..N
      /\ \A i \in 1..N : /\ Len(cs[i]) \in Nat /\ DOMAIN cs[i] = 1..Len(cs[i])
                         /\ Starting(GG[i][0])
  <2>1. Run(chunks, GG, CC, TRUE) /\ Len(chunks) > 0
    BY <1>3, <1>4, <1>5 DEF Recorded
  <2>2. /\ Len(chunks) \in Nat /\ DOMAIN chunks = 1..Len(chunks)
        /\ \A i \in 1..Len(chunks) :
             Len(chunks[i]) \in Nat /\ DOMAIN chunks[i] = 1..Len(chunks[i]) /\ Starting(GG[i][0])
    BY <1>3, <2>1, RunTyped
  <2> QED BY <1>4, <2>1, <2>2
<1>7. \A t \in Tracks : Still(active)[t].open = active[t] /\ Still(active)[t].waiting = <<>>
                        /\ ~Still(active)[t].probed
  BY DEF Still, View
<1>8. GG[N][Len(cs[N])] = Still(active)
  BY <1>4, <1>5 DEF EndOf
<1>9. ASSUME Len(cs[N]) = 0 PROVE \A t \in Tracks : active[t] = <<>>
  BY <1>6, <1>7, <1>8, <1>9 DEF Starting
<1>10. StackMirrors(<<>>, <<>>, FALSE)
  <2>1. Len(<<>>) = 0 /\ 1..0 = {}
    OBVIOUS
  <2> QED BY <2>1 DEF StackMirrors
<1>11. PICK S : rows \in Seq(S)
  BY <1>3 DEF Verified, EntriesFit
<1>12. Len(rows) \in Nat /\ DOMAIN rows = 1..Len(rows)
  BY <1>11, LenProperties
<1>13. CASE done = 0
  <2>1. DOMAIN rows = {}
    BY <1>12, <1>13
  <2>2. Len(cs[N]) = 0
    <3>1. \A p \in DOMAIN cs[N] : FALSE
      BY <1>5, <1>6, <2>1 DEF Tabled
    <3> QED BY <1>6, <3>1
  <2>3. open = [t \in Tracks |-> <<>>] /\ pending = [t \in Tracks |-> <<>>]
    BY <1>2, <1>13 DEF Behind
  <2> QED BY <1>9, <1>10, <2>2, <2>3
<1>14. CASE done # 0
  <2>1. PICK s, k : /\ Place(from, done, s, k)
                    /\ Mirrored(open, pending, GG[s][k], Bound(CC, s, k), TRUE)
    BY <1>2, <1>14 DEF Behind
  <2>2. done \in DOMAIN rows /\ rows # <<>>
    BY <1>12, <1>14
  <2>3. s \in 1..N /\ k \in DOMAIN cs[s] /\ s \in Nat /\ k \in Nat
    <3>1. s \in DOMAIN cs /\ k \in DOMAIN cs[s]
      BY <1>5, <2>1, <2>2 DEF Tabled, Place
    <3> QED BY <1>6, <3>1
  <2>4. k = Len(cs[s]) /\ \A m \in (s + 1)..N : cs[m] = <<>>
    BY <1>4, <1>5, <2>1, <2>2 DEF Tabled, Place
  <2>5. /\ \A t \in Tracks : GG[s][k][t].open = active[t] /\ GG[s][k][t].waiting = <<>>
        /\ (\A t \in Tracks : ~GG[s][k][t].probed) \/ \A t \in Tracks : active[t] = <<>>
    <3>1. CASE s = N
      BY <1>7, <1>8, <2>4, <3>1
    <3>2. CASE s # N
      <4>1. s >= 1 /\ s < N /\ N <= N /\ N \in (s + 1)..N
        BY <1>6, <2>3, <3>2
      <4>2. cs[N] = <<>>
        BY <2>4, <4>1
      <4>3. Len(cs[N]) = 0
        BY <4>2
      <4>4. Void(cs, s + 1, N - 1)
        <5>1. \A m \in (s + 1)..(N - 1) : m \in (s + 1)..N
          BY <1>6, <2>3
        <5> QED BY <2>4, <5>1 DEF Void
      <4>5. /\ \A u \in Tracks : GG[N][0][u].waiting = GG[s][Len(cs[s])][u].waiting
            /\ \A u \in Tracks : GG[s][Len(cs[s])][u].open = <<>>
        <5>1. PICK clean : clean = TRUE
          OBVIOUS
        <5>2. /\ Run(cs, GG, CC, clean) /\ Len(cs) \in Nat /\ s \in Nat /\ N \in Nat
              /\ s >= 1 /\ s < N /\ N <= Len(cs) /\ Void(cs, s + 1, N - 1)
          BY <1>4, <1>5, <1>6, <2>3, <4>1, <4>4, <5>1
        <5>3. /\ \A u \in Tracks : GG[N][0][u].waiting = GG[s][Len(cs[s])][u].waiting
              /\ clean => \A u \in Tracks : GG[s][Len(cs[s])][u].open = <<>>
          BY <5>2, WaitsCarried
        <5> QED BY <5>1, <5>3
      <4> QED BY <1>7, <1>8, <1>9, <2>4, <4>3, <4>5
    <3> QED BY <3>1, <3>2
  <2>6. ASSUME NEW t \in Tracks
        PROVE  pending[t] = <<>> /\ StackMirrors(open[t], active[t], FALSE)
    <3>1. PICK g, w, o : g = GG[s][k][t] /\ w = pending[t] /\ o = open[t]
      OBVIOUS
    <3>2. g.open = active[t] /\ g.waiting = <<>> /\ (~g.probed \/ active[t] = <<>>)
      BY <2>5, <3>1
    <3>3. StackMirrors(o, g.open, g.probed) /\ WaitMirrors(w, g.waiting, Bound(CC, s, k), TRUE)
      BY <2>1, <3>1 DEF Mirrored
    <3>4. w \in Seq(Settled) /\ o \in Seq(Settled)
      BY <3>1 DEF Kept
    <3>5. Len(w) = Len(<<>>)
      BY <3>2, <3>3 DEF WaitMirrors
    <3>6. w = <<>>
      BY <3>4, <3>5, EmptySeq
    <3>7. StackMirrors(o, active[t], FALSE)
      <4>1. CASE ~g.probed
        BY <3>2, <3>3, <4>1 DEF StackMirrors
      <4>2. CASE active[t] = <<>>
        <5>1. Len(o) = Len(<<>>)
          BY <3>2, <3>3, <4>2 DEF StackMirrors
        <5>2. o = <<>>
          BY <3>4, <5>1, EmptySeq
        <5> QED BY <1>10, <4>2, <5>2
      <4> QED BY <3>2, <4>1, <4>2
    <3> QED BY <3>1, <3>6, <3>7
  <2> QED BY <2>6
<1> QED BY <1>13, <1>14

(* The calls in flight are what is told of them.                             *)
InFlight(told) == {e.invocation.call : e \in {x \in told : x.kind # "real_exit"}}
InProgress == {c.call : c \in UNION {ToSet(active[t]) : t \in Tracks}}
Told ==
  phase = "verified" /\ faults = {} =>
    Codes \subseteq {"final_in_flight_call"} /\ InFlight(exported) = InProgress

LEMMA FinishTold ==
  ASSUME IndexInv, Tidy, Clean, VerifyFinish
  PROVE  Told'
<1>1. /\ phase = "verify" /\ done = Len(rows) /\ faults' = faults /\ active' = active
      /\ exported' = exported \cup FinalPending \cup FinalOpen
      /\ issues' = issues \cup {<<CodeOf(e.kind), At>> : e \in FinalPending \cup FinalOpen}
  BY DEF VerifyFinish, recording, recorded
<1> SUFFICES ASSUME faults = {}
             PROVE  (Codes \subseteq {"final_in_flight_call"})' /\ InFlight(exported') = InProgress
  BY <1>1 DEF Told, InProgress, InFlight
<1>2. issues = {} /\ \A e \in exported : e.kind = "real_exit"
  BY <1>1 DEF Clean, Tidy, Fair
<1>3. /\ \A t \in Tracks : pending[t] = <<>>
      /\ \A t \in Tracks : StackMirrors(open[t], active[t], FALSE)
  BY <1>1, AtEnd DEF IndexInv, Faithful
<1>4. FinalPending = {}
  <2>1. \A t \in Tracks : ToSet(pending[t]) = {}
    BY <1>3 DEF ToSet
  <2> QED BY <2>1 DEF FinalPending
<1>5. ASSUME NEW t \in Tracks
      PROVE  /\ DOMAIN open[t] = 1..Len(open[t]) /\ DOMAIN active[t] = 1..Len(open[t])
             /\ \A n \in 1..Len(open[t]) :
                  /\ open[t][n].real /\ open[t][n].exit = None
                  /\ open[t][n].call = active[t][n].call
  <2>1. open[t] \in Seq(Settled) /\ active[t] \in Seq(Called)
    BY DEF IndexInv, Kept, Faithful, Noted
  <2>2. PICK o, a : o = open[t] /\ a = active[t]
    OBVIOUS
  <2>3. StackMirrors(o, a, FALSE) /\ o \in Seq(Settled) /\ a \in Seq(Called)
    BY <1>3, <2>1, <2>2
  <2>4. Len(o) = Len(a) /\ DOMAIN o = 1..Len(o) /\ DOMAIN a = 1..Len(a)
    BY <2>3, LenProperties DEF StackMirrors
  <2>5. \A n \in 1..Len(o) : o[n].real /\ o[n].exit = None /\ o[n].call = a[n].call
    <3> SUFFICES ASSUME NEW n \in 1..Len(o)
                 PROVE  o[n].real /\ o[n].exit = None /\ o[n].call = a[n].call
      OBVIOUS
    <3>1. o[n].real /\ CallOf(o[n]) = a[n]
      BY <2>3 DEF StackMirrors
    <3>2. o[n].exit = None
      BY <2>3 DEF StackMirrors
    <3>3. a[n].call = o[n].call
      BY <3>1 DEF CallOf
    <3> QED BY <3>1, <3>2, <3>3
  <2> QED BY <2>2, <2>4, <2>5
<1>6. ASSUME NEW i \in Unclosed PROVE i.exit = None /\ i.call \in InProgress
  <2>1. PICK t \in Tracks : i \in ToSet(open[t])
    BY <1>6 DEF Unclosed
  <2>2. PICK n \in DOMAIN open[t] : i = open[t][n]
    BY <2>1 DEF ToSet
  <2>3. i.exit = None /\ i.call = active[t][n].call /\ n \in DOMAIN active[t]
    BY <1>5, <2>2
  <2>4. active[t][n] \in ToSet(active[t])
    BY <2>3 DEF ToSet
  <2> QED BY <2>3, <2>4 DEF InProgress
<1>7. ASSUME NEW c \in InProgress PROVE \E i \in Unclosed : i.call = c
  <2>1. PICK t \in Tracks : \E z \in ToSet(active[t]) : c = z.call
    BY <1>7 DEF InProgress
  <2>2. PICK n \in DOMAIN active[t] : c = active[t][n].call
    BY <2>1 DEF ToSet
  <2>3. n \in DOMAIN open[t] /\ open[t][n].real /\ open[t][n].call = c
    BY <1>5, <2>2
  <2>4. open[t][n] \in Unclosed
    BY <2>3 DEF Unclosed, ToSet
  <2> QED BY <2>3, <2>4
<1>8. FinalOpen = {Export(i, "in_flight") : i \in Unclosed}
  BY <1>6 DEF FinalOpen
<1>9. \A e \in FinalOpen : e.kind = "in_flight"
  BY <1>8 DEF Export
<1>10. (Codes \subseteq {"final_in_flight_call"})'
  <2>1. CodeOf("in_flight") = "final_in_flight_call"
    BY DEF CodeOf
  <2>2. \A z \in issues' : z[1] = "final_in_flight_call"
    <3> SUFFICES ASSUME NEW z \in issues' PROVE z[1] = "final_in_flight_call"
      OBVIOUS
    <3>1. PICK e \in FinalOpen : z = <<CodeOf(e.kind), At>>
      BY <1>1, <1>2, <1>4
    <3>2. z = <<"final_in_flight_call", At>>
      BY <1>9, <2>1, <3>1
    <3> QED BY <3>2
  <2> QED BY <2>2 DEF Codes
<1>11. {x \in exported' : x.kind # "real_exit"} = FinalOpen
  BY <1>1, <1>2, <1>4, <1>9
<1>12. InFlight(exported') = {e.invocation.call : e \in FinalOpen}
  BY <1>11 DEF InFlight
<1>13. ASSUME NEW c PROVE c \in {e.invocation.call : e \in FinalOpen} <=> c \in InProgress
  <2>1. ASSUME NEW e \in FinalOpen PROVE e.invocation.call \in InProgress
    BY <1>6, <1>8, <2>1 DEF Export
  <2>2. ASSUME NEW i \in Unclosed PROVE \E e \in FinalOpen : e.invocation.call = i.call
    <3>1. PICK e : e = Export(i, "in_flight")
      OBVIOUS
    <3>2. e \in FinalOpen
      BY <1>8, <2>2, <3>1
    <3>3. e.invocation.call = i.call
      BY <3>1 DEF Export
    <3> QED BY <3>2, <3>3
  <2>3. c \in InProgress => c \in {e.invocation.call : e \in FinalOpen}
    BY <1>7, <2>2
  <2> QED BY <2>1, <2>3
<1>14. InFlight(exported') = InProgress
  BY <1>12, <1>13
<1> QED BY <1>10, <1>14

LEMMA ToldStep ==
  ASSUME IndexInv, Tidy, Clean, Told, [Next]_vars
  PROVE  Told'
<1>1. CASE UNCHANGED vars
  BY <1>1 DEF vars, recording, recorded, verifying, Told, Codes, InProgress
<1>2. CASE \/ \E t \in Tracks, f \in Functions : Enter(t, f)
           \/ \E t \in Tracks : Return(t) \/ ReturnUnprobed(t)
           \/ \E t \in Tracks, f \in {"twice", "unended"} : ReturnMalformed(t, f)
           \/ Drop \/ Rotate \/ Crash
  <2>1. phase' = "record"
    BY <1>2 DEF Enter, Return, ReturnUnprobed, ReturnMalformed, Drop, Rotate, Crash
  <2> QED BY <2>1 DEF Told
<1>3. CASE \/ BuildAll \/ \E n \in DOMAIN chunks : BuildWithout(n)
           \/ \E n \in 1..(Len(chunks) - 1) : BuildSwapped(n)
  <2>1. phase' = "verify"
    BY <1>3 DEF BuildAll, BuildWithout, BuildSwapped, Build
  <2> QED BY <2>1 DEF Told
<1>4. CASE VerifyEnter \/ VerifyReopen \/ VerifyExitProbe \/ VerifySliceEnd
  <2>1. phase' = "verify"
    BY <1>4 DEF VerifyEnter, VerifyReopen, VerifyExitProbe, VerifySliceEnd, Verifying, Handle
  <2> QED BY <2>1 DEF Told
<1>5. CASE VerifyFinish
  BY <1>5, FinishTold
<1> QED BY <1>1, <1>2, <1>3, <1>4, <1>5 DEF Next

----------------------------------------------------------------------------
VerdictInv ==
  /\ IndexInv /\ Tidy /\ Witnessed /\ Heard /\ Endings /\ Passed
  /\ Accounted /\ Balanced /\ Unread /\ Finished
  /\ Clocked /\ Clean /\ Told

LEMMA VerdictInit == Init => VerdictInv
<1> SUFFICES ASSUME Init PROVE VerdictInv
  OBVIOUS
<1>1. IndexInv
  BY IndexInit
<1>2. phase = "record" /\ issues = {} /\ done = 0 /\ faults = {} /\ calls = 0
  BY DEF Init
<1>3. /\ open = [t \in Tracks |-> <<>>] /\ pending = [t \in Tracks |-> <<>>] /\ exported = {}
      /\ active = [t \in Tracks |-> <<>>]
  BY DEF Init
<1>4. chunks = <<<<>>>>
  BY DEF Init
<1>5. Tidy
  BY <1>2, <1>3 DEF Tidy
<1>6. Len(chunks) = 1 /\ chunks[1] = <<>> /\ Len(chunks[1]) = 0 /\ 1..0 = {}
      /\ \A i \in 1..Len(chunks) : i = 1
  BY <1>4
<1>7. \A i \in 1..Len(chunks) : 1..Len(chunks[i]) = {}
  BY <1>6
<1>8. \A t \in Tracks : 1..Len(active[t]) = {}
  <2>1. Len(<<>>) = 0
    OBVIOUS
  <2> QED BY <1>3, <2>1
<1>9. Witnessed
  <2>1. Going(active, chunks, calls)
    BY <1>7, <1>8 DEF Going, Different, In
  <2> QED BY <1>2, <2>1 DEF Witnessed
<1>10. Endings
  <2>1. Chunked(chunks, active, calls)
    BY <1>7, <1>8 DEF Chunked, Nested, EndsOnce, EndsOpened, CallsTo, OpenIn
  <2> QED BY <1>2, <2>1 DEF Endings
<1>11. Passed /\ Accounted /\ Balanced /\ Unread /\ Finished /\ Clean /\ Told
  BY <1>2 DEF Passed, Accounted, Balanced, Unread, Finished, Clean, Told
<1>12. Clocked
  <2>1. Rising(chunks, SequenceNow)
    BY <1>7 DEF Rising
  <2>2. SequenceNow \in Nat
    <3>1. chunks \in Seq(Seq({})) /\ Len(chunks) > 0
      BY <1>4
    <3>2. PICK f : /\ FlattenSeq(chunks) = f[Len(chunks)]
                   /\ \A i \in 1..Len(chunks) : f[i] \in Seq({})
      BY <3>1, FlatSteps
    <3>3. FlattenSeq(chunks) \in Seq({})
      BY <1>6, <3>2
    <3> QED BY <3>3, LenProperties DEF SequenceNow
  <2> QED BY <2>1, <2>2 DEF Clocked
<1>13. Heard
  <2>1. unsaid = "no" /\ announced = {}
    BY DEF Init
  <2> QED BY <1>2, <2>1 DEF Heard
<1> QED BY <1>1, <1>5, <1>9, <1>10, <1>11, <1>12, <1>13 DEF VerdictInv

LEMMA VerdictStep == ASSUME VerdictInv, [Next]_vars PROVE VerdictInv'
<1>1. /\ IndexInv /\ Tidy /\ Witnessed /\ Heard /\ Endings /\ Passed
      /\ Accounted /\ Balanced /\ Unread /\ Finished /\ Clocked /\ Clean /\ Told
  BY DEF VerdictInv
<1>2. Recorded /\ Noted
  BY <1>1 DEF IndexInv, OracleInv, Faithful
<1>3. IndexInv'
  BY <1>1, IndexStep
<1>4. Tidy'
  BY <1>1, TidyStep
<1>5. Witnessed'
  BY <1>1, <1>2, WitnessedStep
<1>6. Endings'
  BY <1>1, <1>2, EndingsStep
<1>7. Passed'
  BY <1>1, <1>2, PassedStep
<1>8. Accounted'
  BY <1>1, AccountedStep
<1>9. Balanced' /\ Unread' /\ Finished'
  BY <1>1, BalancedStep
<1>10. Clocked'
  BY <1>1, ClockedStep
<1>11. Clean'
  BY <1>1, CleanStep
<1>12. Told'
  BY <1>1, ToldStep
<1>13. Heard'
  BY <1>1, <1>2, HeardStep
<1> QED BY <1>3, <1>4, <1>5, <1>6, <1>7, <1>8, <1>9, <1>10, <1>11, <1>12, <1>13 DEF VerdictInv

LEMMA VerdictFollows == ASSUME VerdictInv PROVE VerdictIsRight
<1> SUFFICES ASSUME phase = "verified"
             PROVE  /\ faults = {} =>
                         /\ Codes \subseteq {"final_in_flight_call"}
                         /\ InFlight(exported) = InProgress
                    /\ (issues = {} /\ ~Ambiguous) =>
                         /\ ("lost" \notin faults /\ ~Unheard) => faults \subseteq {"swapped", "crash"}
                         /\ \A e \in exported :
                              /\ e.kind = "real_exit" /\ e.invocation.exit = e.invocation.call
                              /\ e.invocation.closes = e.invocation.reopens
  BY DEF VerdictIsRight, InFlight, InProgress
<1>1. ASSUME faults = {}
      PROVE  Codes \subseteq {"final_in_flight_call"} /\ InFlight(exported) = InProgress
  BY <1>1 DEF VerdictInv, Told
<1>2. ASSUME issues = {}, ~Ambiguous
      PROVE  /\ ("lost" \notin faults /\ ~Unheard) => faults \subseteq {"swapped", "crash"}
             /\ \A e \in exported : /\ e.kind = "real_exit" /\ e.invocation.exit = e.invocation.call
                                    /\ e.invocation.closes = e.invocation.reopens
  <2>1. Silent
    BY <1>2 DEF Silent
  <2>2. /\ OracleInv /\ Kept /\ Tidy /\ Witnessed /\ Heard /\ Endings /\ Passed
        /\ Accounted /\ Balanced /\ Finished
    BY DEF VerdictInv, IndexInv
  <2> QED BY <2>1, <2>2, SilentIsRight
<1> QED BY <1>1, <1>2

(* The verdict of verify_trace_index, for any recording, any faults of it    *)
(* and any order of its chunks: a recording without a fault has no issue but *)
(* the calls in flight at its end, which are what the recorder had open; and *)
(* one without an issue is told right, each call with an exit of its own and *)
(* closed as often as reopened.  No exit of it was missed or doubled and no  *)
(* slice left without its end, nor a packet dropped that a later packet of a *)
(* chunk could announce, if no chunk is missing.                             *)
THEOREM VerdictHolds == Spec => []VerdictIsRight
<1>1. Init => VerdictInv
  BY VerdictInit
<1>2. VerdictInv /\ [Next]_vars => VerdictInv'
  BY VerdictStep
<1>3. VerdictInv => VerdictIsRight
  BY VerdictFollows
<1> QED BY <1>1, <1>2, <1>3, PTL DEF Spec
=============================================================================
