------------------------ MODULE ReentrantHandle_proofs ------------------------
(***************************************************************************)
(* Proofs about ReentrantHandle, for any number of threads and guards.     *)
(*                                                                         *)
(* NoAliasing rests on who has guards: a closure runs under a guard, only  *)
(* the owner has guards, so the one borrow word counts the owner's         *)
(* closures and nobody else has any (BorrowCounts).                        *)
(***************************************************************************)
EXTENDS ReentrantHandle, TLAPS

USE HandleAssumption

(* The borrow word counts the owner's closures.                             *)
BorrowCounts ==
  /\ \A t \in Threads : Inside(t) => guards[t] > 0
  /\ owner = NoOwner => borrow = Unborrowed
  /\ \A t \in Threads : owner = t =>
       \/ writers[t] = 0 /\ borrow = readers[t]
       \/ writers[t] = 1 /\ readers[t] = 0 /\ borrow = Mutable

HandleInv == TypeOK /\ GuardsOwn /\ BorrowCounts

----------------------------------------------------------------------------
(* Type correctness.                                                        *)
LEMMA TypeStep == TypeOK /\ [Next]_vars => TypeOK'
<1> SUFFICES ASSUME TypeOK, [Next]_vars PROVE TypeOK'
  OBVIOUS
<1>1. ASSUME NEW t \in Threads, Call(t)
      PROVE  calls' \in [Threads -> Nat]
  BY <1>1 DEF Call, TypeOK
<1>2. ASSUME NEW t \in Threads, Acquire(t) \/ Block(t), calls' \in [Threads -> Nat]
      PROVE  TypeOK'
  <2>1. CASE Acquire(t)
    <3>1. guards' \in [Threads -> 0..MaxGuards]
      <4>1. guards[t] + 1 \in 0..MaxGuards
        BY <2>1 DEF Acquire, TypeOK
      <4> QED BY <2>1, <4>1 DEF Acquire, TypeOK
    <3>2. depth' \in 0..MaxDepth
      BY <2>1 DEF Acquire, Saturated, TypeOK
    <3> QED BY <1>2, <2>1, <3>1, <3>2 DEF Acquire, TypeOK
  <2>2. CASE Block(t)
    BY <1>2, <2>2 DEF Block, state, TypeOK
  <2> QED BY <1>2, <2>1, <2>2
<1>3. ASSUME NEW t \in Threads, Enter(t) \/ TryEnter(t)
      PROVE  TypeOK'
  BY <1>1, <1>2, <1>3 DEF Enter, TryEnter
<1>4. ASSUME NEW t \in Threads, Resume(t)
      PROVE  TypeOK'
  BY <1>2, <1>4 DEF Resume, TypeOK
<1>5. ASSUME NEW t \in Threads, SpuriousWakeup(t)
      PROVE  TypeOK'
  BY <1>5 DEF SpuriousWakeup, state, TypeOK
<1>6. ASSUME NEW t \in Threads, WithRef(t)
      PROVE  TypeOK'
  <2>1. borrow' \in Nat /\ readers' \in [Threads -> Nat]
    BY <1>6 DEF WithRef, TypeOK, Mutable
  <2> QED BY <1>1, <1>6, <2>1 DEF WithRef, TypeOK
<1>7. ASSUME NEW t \in Threads, WithMut(t)
      PROVE  TypeOK'
  <2>1. borrow' = Mutable /\ writers' \in [Threads -> Nat]
    BY <1>7 DEF WithMut, TypeOK
  <2> QED BY <1>1, <1>7, <2>1 DEF WithMut, TypeOK
<1>8. ASSUME NEW t \in Threads, EndRef(t)
      PROVE  TypeOK'
  <2>1. borrow' \in Nat
    BY <1>8 DEF EndRef, SharedLeft, TypeOK, Mutable, Unborrowed
  <2>2. readers' \in [Threads -> Nat]
    BY <1>8 DEF EndRef, TypeOK
  <2> QED BY <1>8, <2>1, <2>2 DEF EndRef, TypeOK
<1>9. ASSUME NEW t \in Threads, EndMut(t)
      PROVE  TypeOK'
  <2>1. borrow' \in Nat /\ writers' \in [Threads -> Nat]
    BY <1>9 DEF EndMut, TypeOK, Unborrowed
  <2> QED BY <1>9, <2>1 DEF EndMut, TypeOK
<1>10. ASSUME NEW t \in Threads, guards[t] > 0, guards' = [guards EXCEPT ![t] = @ - 1]
       PROVE  guards' \in [Threads -> 0..MaxGuards]
  BY <1>10 DEF TypeOK
<1>11. ASSUME NEW t \in Threads, Droppable(t)
       PROVE  guards[t] > 0
  BY <1>11 DEF Droppable, TypeOK
<1>12. ASSUME NEW t \in Threads, Drop(t)
       PROVE  TypeOK'
  <2>1. guards' \in [Threads -> 0..MaxGuards]
    BY <1>10, <1>11, <1>12 DEF Drop
  <2>2. /\ owner' \in Threads \union {NoOwner} /\ borrow' \in Nat \union {Mutable}
        /\ pc' \in [Threads -> {"running", "waiting", "woken", "notifying"}]
    BY <1>12 DEF Drop, state, TypeOK, Unborrowed
  <2>3. depth' \in 0..MaxDepth
    BY <1>12 DEF Drop, Nested, state, TypeOK
  <2> QED BY <1>12, <2>1, <2>2, <2>3 DEF Drop, TypeOK
<1>13. ASSUME NEW t \in Threads, Notify(t)
       PROVE  TypeOK'
  BY <1>13 DEF Notify, Waiters, state, TypeOK
<1>14. ASSUME NEW t \in Threads, Forget(t)
       PROVE  TypeOK'
  <2>1. guards' \in [Threads -> 0..MaxGuards]
    BY <1>10, <1>11, <1>14 DEF Forget
  <2> QED BY <1>14, <2>1 DEF Forget, state, TypeOK
<1>15. CASE UNCHANGED vars
  BY <1>15 DEF vars, state, TypeOK
<1> QED BY <1>3, <1>4, <1>5, <1>6, <1>7, <1>8, <1>9, <1>12, <1>13, <1>14, <1>15
        DEF Next

(* The state keeps its type: in particular the depth never exceeds usize,   *)
(* and no count goes below zero.                                            *)
THEOREM TypeCorrect == Spec => []TypeOK
<1>1. Init => TypeOK
  BY DEF Init, TypeOK, Unborrowed
<1> QED BY <1>1, TypeStep, PTL DEF Spec

----------------------------------------------------------------------------
(* Wake-ups.                                                                *)
LEMMA WakeupStep == TypeOK /\ NoLostWakeup /\ [Next]_vars => NoLostWakeup'
<1> SUFFICES ASSUME TypeOK, NoLostWakeup, [Next]_vars PROVE NoLostWakeup'
  OBVIOUS
<1>1. ASSUME NEW t \in Threads, Acquire(t) \/ Block(t)
      PROVE  NoLostWakeup'
  BY <1>1 DEF Acquire, Block, state, NoLostWakeup
<1>2. ASSUME NEW t \in Threads, pc'[t] \in {"woken", "notifying"}
      PROVE  NoLostWakeup'
  BY <1>2 DEF NoLostWakeup
<1>3. ASSUME UNCHANGED <<owner, pc>>
      PROVE  NoLostWakeup'
  BY <1>3 DEF NoLostWakeup
<1>4. ASSUME NEW t \in Threads, Enter(t) \/ TryEnter(t) \/ Resume(t)
      PROVE  NoLostWakeup'
  BY <1>1, <1>4 DEF Enter, TryEnter, Resume
<1>5. ASSUME NEW t \in Threads, SpuriousWakeup(t)
      PROVE  NoLostWakeup'
  BY <1>2, <1>5 DEF SpuriousWakeup, TypeOK
<1>6. ASSUME NEW t \in Threads,
             WithRef(t) \/ WithMut(t) \/ EndRef(t) \/ EndMut(t) \/ Forget(t)
      PROVE  NoLostWakeup'
  BY <1>3, <1>6 DEF WithRef, WithMut, EndRef, EndMut, Forget, state
<1>7. ASSUME NEW t \in Threads, Drop(t)
      PROVE  NoLostWakeup'
  <2>1. CASE UNCHANGED <<owner, pc>>
    BY <1>3, <2>1
  <2>2. CASE pc' = [pc EXCEPT ![t] = "notifying"]
    BY <1>2, <2>2 DEF TypeOK
  <2> QED BY <1>7, <2>1, <2>2 DEF Drop, state
<1>8. ASSUME NEW t \in Threads, Notify(t)
      PROVE  NoLostWakeup'
  <2>1. CASE Waiters = {}
    <3>1. \A s \in Threads : pc'[s] # "waiting"
      BY <1>8, <2>1 DEF Notify, Waiters, TypeOK
    <3> QED BY <3>1 DEF NoLostWakeup
  <2>2. CASE Waiters # {}
    <3>1. PICK w \in Waiters : pc' = [pc EXCEPT ![t] = "running", ![w] = "woken"]
      BY <1>8, <2>2 DEF Notify
    <3>2. w \in Threads /\ pc'[w] = "woken"
      BY <3>1 DEF Waiters, TypeOK
    <3> QED BY <1>2, <3>2
  <2> QED BY <2>1, <2>2
<1>9. CASE UNCHANGED vars
  BY <1>3, <1>9 DEF vars, state
<1> QED BY <1>4, <1>5, <1>6, <1>7, <1>8, <1>9 DEF Next

(* A thread that waits for a free handle is not forgotten.                  *)
THEOREM WakeupsCorrect == Spec => []NoLostWakeup
<1>1. Init => NoLostWakeup
  BY DEF Init, NoLostWakeup
<1> QED BY <1>1, WakeupStep, TypeCorrect, PTL DEF Spec

----------------------------------------------------------------------------
(* Guards and borrows.                                                      *)

LEMMA NobodyInside ==
  ASSUME TypeOK, NEW t \in Threads
  PROVE  ~Inside(t) <=> readers[t] = 0 /\ writers[t] = 0
BY DEF TypeOK, Inside

(* To enter is to have one guard more and be the owner.                     *)
LEMMA AcquireStep ==
  ASSUME HandleInv, NEW t \in Threads, Acquire(t)
  PROVE  GuardsOwn' /\ BorrowCounts'
<1>1. /\ TypeOK /\ GuardsOwn /\ BorrowCounts
      /\ guards[t] < MaxGuards /\ owner \in {NoOwner, t} /\ owner' = t
      /\ depth' = IF owner = t THEN Saturated(depth) ELSE 1
      /\ guards' = [guards EXCEPT ![t] = @ + 1]
      /\ borrow' = borrow /\ readers' = readers /\ writers' = writers
  BY DEF HandleInv, Acquire
<1>2. /\ guards[t] \in 0..MaxGuards /\ guards'[t] = guards[t] + 1
      /\ \A s \in Threads : s # t => guards'[s] = guards[s]
      /\ \A s \in Threads : guards[s] \in 0..MaxGuards
  BY <1>1 DEF TypeOK
<1>3. \A s \in Threads : s # t => guards[s] = 0
  <2> SUFFICES ASSUME NEW s \in Threads, s # t, guards[s] # 0 PROVE FALSE
    OBVIOUS
  <2>1. guards[s] > 0
    BY <1>2
  <2> QED BY <1>1, <2>1 DEF GuardsOwn
<1>4. depth' >= guards'[t]
  <2>1. CASE owner = t
    <3>1. depth \in 0..MaxDepth /\ depth >= guards[t]
      <4>1. CASE guards[t] = 0
        BY <1>1, <4>1 DEF TypeOK
      <4>2. CASE guards[t] > 0
        BY <1>1, <4>2 DEF TypeOK, GuardsOwn
      <4> QED BY <1>2, <4>1, <4>2
    <3> QED BY <1>1, <1>2, <2>1, <3>1 DEF Saturated
  <2>2. CASE owner # t
    <3>1. guards[t] = 0
      <4> SUFFICES ASSUME guards[t] # 0 PROVE FALSE
        OBVIOUS
      <4>1. guards[t] > 0
        BY <1>2
      <4> QED BY <1>1, <2>2, <4>1 DEF GuardsOwn
    <3> QED BY <1>1, <1>2, <2>2, <3>1
  <2> QED BY <2>1, <2>2
<1>5. GuardsOwn'
  BY <1>1, <1>2, <1>3, <1>4 DEF GuardsOwn
<1>6. BorrowCounts'
  <2>1. \A s \in Threads : Inside(s)' <=> Inside(s)
    BY <1>1 DEF Inside
  <2>2. \A s \in Threads : Inside(s)' => guards'[s] > 0
    BY <1>1, <1>2, <2>1 DEF BorrowCounts
  <2>3. owner # NoOwner => owner = t
    BY <1>1
  <2>4. CASE owner = t
    BY <1>1, <2>2, <2>4 DEF BorrowCounts
  <2>5. CASE owner = NoOwner
    <3>1. guards[t] = 0 /\ borrow = Unborrowed
      <4>1. ~(guards[t] > 0)
        BY <1>1, <2>5 DEF GuardsOwn
      <4> QED BY <1>1, <1>2, <2>5, <4>1 DEF BorrowCounts
    <3>2. readers[t] = 0 /\ writers[t] = 0
      <4>1. ~Inside(t)
        BY <1>1, <3>1 DEF BorrowCounts
      <4> QED BY <1>1, <4>1, NobodyInside
    <3> QED BY <1>1, <2>2, <3>1, <3>2 DEF BorrowCounts, Unborrowed
  <2> QED BY <2>3, <2>4, <2>5
<1> QED BY <1>5, <1>6

(* Closures start and end under the owner's guards only.                    *)
LEMMA ClosureStep ==
  ASSUME HandleInv, NEW t \in Threads,
         WithRef(t) \/ WithMut(t) \/ EndRef(t) \/ EndMut(t)
  PROVE  GuardsOwn' /\ BorrowCounts'
<1>1. /\ TypeOK /\ GuardsOwn /\ BorrowCounts
      /\ UNCHANGED <<owner, depth, guards>>
  BY DEF HandleInv, WithRef, WithMut, EndRef, EndMut
<1>2. readers \in [Threads -> Nat] /\ writers \in [Threads -> Nat]
  BY <1>1 DEF TypeOK
<1>3. guards[t] > 0
  <2>1. CASE WithRef(t) \/ WithMut(t)
    BY <2>1 DEF WithRef, WithMut
  <2>2. CASE EndRef(t) \/ EndMut(t)
    <3>1. Inside(t)
      BY <1>2, <2>2 DEF EndRef, EndMut, Inside
    <3> QED BY <1>1, <3>1 DEF BorrowCounts
  <2> QED BY <2>1, <2>2
<1>4. owner = t
  BY <1>1, <1>3 DEF GuardsOwn
<1>5. \/ writers[t] = 0 /\ borrow = readers[t]
      \/ writers[t] = 1 /\ readers[t] = 0 /\ borrow = Mutable
  BY <1>1, <1>4 DEF BorrowCounts
<1>6. /\ \/ writers'[t] = 0 /\ borrow' = readers'[t]
         \/ writers'[t] = 1 /\ readers'[t] = 0 /\ borrow' = Mutable
      /\ \A s \in Threads : s # t => readers'[s] = readers[s] /\ writers'[s] = writers[s]
  <2>1. CASE WithRef(t)
    BY <1>2, <1>5, <2>1 DEF WithRef, Mutable
  <2>2. CASE WithMut(t)
    BY <1>2, <1>5, <2>2 DEF WithMut, Mutable, Unborrowed
  <2>3. CASE EndRef(t)
    BY <1>2, <1>5, <2>3 DEF EndRef, SharedLeft, Mutable, Unborrowed
  <2>4. CASE EndMut(t)
    BY <1>2, <1>5, <2>4 DEF EndMut, Mutable, Unborrowed
  <2> QED BY <2>1, <2>2, <2>3, <2>4
<1>7. GuardsOwn'
  BY <1>1 DEF GuardsOwn
<1>8. BorrowCounts'
  <2>1. \A s \in Threads : Inside(s)' => guards'[s] > 0
    BY <1>1, <1>3, <1>6 DEF BorrowCounts, Inside
  <2>2. owner' = t /\ t # NoOwner
    BY <1>1, <1>4
  <2> QED BY <1>6, <2>1, <2>2 DEF BorrowCounts
<1> QED BY <1>7, <1>8

(* A guard goes, dropped or leaked; the last drop frees the handle, and no  *)
(* closure is running then.                                                 *)
LEMMA GuardGoesStep ==
  ASSUME HandleInv, NEW t \in Threads, Drop(t) \/ Forget(t)
  PROVE  GuardsOwn' /\ BorrowCounts'
<1>1. /\ TypeOK /\ GuardsOwn /\ BorrowCounts
      /\ Droppable(t) /\ guards' = [guards EXCEPT ![t] = @ - 1]
      /\ readers' = readers /\ writers' = writers
  BY DEF HandleInv, Drop, Forget
<1>2. /\ guards[t] \in 0..MaxGuards /\ guards'[t] = guards[t] - 1
      /\ guards[t] > 0
      /\ Inside(t) => guards[t] > 1
      /\ \A s \in Threads : s # t => guards'[s] = guards[s]
      /\ \A s \in Threads : guards[s] \in 0..MaxGuards
      /\ depth \in 0..MaxDepth
  BY <1>1 DEF TypeOK, Droppable
<1>3. owner = t /\ depth >= guards[t]
  BY <1>1, <1>2 DEF GuardsOwn
<1>4. \A s \in Threads : s # t => guards[s] = 0 /\ guards'[s] = 0
  <2> SUFFICES ASSUME NEW s \in Threads, s # t, guards[s] # 0 PROVE FALSE
    BY <1>2
  <2>1. guards[s] > 0
    BY <1>2
  <2> QED BY <1>1, <1>3, <2>1 DEF GuardsOwn
<1>5. \A s \in Threads : Inside(s)' => guards'[s] > 0
  <2>1. \A s \in Threads : Inside(s)' <=> Inside(s)
    BY <1>1 DEF Inside
  <2> QED BY <1>1, <1>2, <2>1 DEF BorrowCounts
<1>6. CASE (Drop(t) /\ depth > 1) \/ Forget(t)
  <2>1. /\ owner' = t /\ borrow' = borrow /\ depth' >= guards'[t]
    <3>1. CASE Drop(t) /\ depth > 1
      BY <1>2, <1>3, <3>1 DEF Drop, Nested
    <3>2. CASE Forget(t)
      BY <1>2, <1>3, <3>2 DEF Forget, state
    <3> QED BY <1>6, <3>1, <3>2
  <2>2. t # NoOwner
    OBVIOUS
  <2>3. BorrowCounts'
    BY <1>1, <1>3, <1>5, <2>1, <2>2 DEF BorrowCounts
  <2>4. GuardsOwn'
    BY <1>4, <2>1 DEF GuardsOwn
  <2> QED BY <2>3, <2>4
<1>7. CASE Drop(t) /\ ~(depth > 1)
  <2>1. owner' = NoOwner /\ borrow' = Unborrowed
    BY <1>3, <1>7 DEF Drop, Nested
  <2>2. guards'[t] = 0
    BY <1>2, <1>3, <1>7
  <2>3. GuardsOwn'
    BY <1>4, <2>2 DEF GuardsOwn
  <2>4. BorrowCounts'
    BY <1>5, <2>1 DEF BorrowCounts
  <2> QED BY <2>3, <2>4
<1> QED BY <1>6, <1>7

LEMMA HandleStep == HandleInv /\ TypeOK' /\ [Next]_vars => HandleInv'
<1> SUFFICES ASSUME HandleInv, [Next]_vars PROVE GuardsOwn' /\ BorrowCounts'
  BY DEF HandleInv
<1>1. ASSUME UNCHANGED <<state, guards, readers, writers>>
      PROVE  GuardsOwn' /\ BorrowCounts'
  BY <1>1 DEF HandleInv, GuardsOwn, BorrowCounts, Inside, state
<1>2. ASSUME NEW t \in Threads, Enter(t) \/ TryEnter(t) \/ Resume(t)
      PROVE  GuardsOwn' /\ BorrowCounts'
  <2>1. Acquire(t) \/ UNCHANGED <<state, guards, readers, writers>>
    BY <1>2 DEF Enter, TryEnter, Resume, Block
  <2> QED BY <1>1, <2>1, AcquireStep
<1>3. ASSUME NEW t \in Threads, SpuriousWakeup(t) \/ Notify(t)
      PROVE  GuardsOwn' /\ BorrowCounts'
  BY <1>1, <1>3 DEF SpuriousWakeup, Notify
<1>4. CASE UNCHANGED vars
  BY <1>1, <1>4 DEF vars
<1> QED BY <1>2, <1>3, <1>4, ClosureStep, GuardGoesStep DEF Next

THEOREM HandleInvariant == Spec => []HandleInv
<1>1. Init => GuardsOwn /\ BorrowCounts
  BY DEF Init, GuardsOwn, BorrowCounts, Inside, Unborrowed
<1>2. Init /\ TypeOK => HandleInv
  BY <1>1 DEF HandleInv
<1> QED BY <1>2, HandleStep, TypeCorrect, PTL DEF Spec

(* Only the owner holds guards, and never more than it entered.             *)
THEOREM GuardsCorrect == Spec => []GuardsOwn
<1>1. HandleInv => GuardsOwn
  BY DEF HandleInv
<1> QED BY <1>1, HandleInvariant, PTL

(* A mutable borrow of the inner value is alone: the unsafe blocks never    *)
(* make two references that alias.                                          *)
THEOREM AliasingCorrect == Spec => []NoAliasing
<1>1. HandleInv => NoAliasing
  <2> SUFFICES ASSUME HandleInv, NEW s \in Threads, NEW t \in Threads, writers[t] > 0
               PROVE  /\ writers[t] = 1 /\ readers[s] = 0
                      /\ s # t => writers[s] = 0
    BY DEF NoAliasing
  <2>1. TypeOK /\ GuardsOwn /\ BorrowCounts
    BY DEF HandleInv
  <2>2. Inside(t)
    BY <2>1 DEF Inside, TypeOK
  <2>3. guards[t] > 0 /\ owner = t
    BY <2>1, <2>2 DEF BorrowCounts, GuardsOwn
  <2>4. writers[t] = 1 /\ readers[t] = 0
    BY <2>1, <2>3 DEF BorrowCounts
  <2>5. CASE s # t
    <3>1. ~(guards[s] > 0)
      BY <2>1, <2>3, <2>5 DEF GuardsOwn
    <3>2. ~Inside(s)
      BY <2>1, <3>1 DEF BorrowCounts
    <3> QED BY <2>1, <2>4, <3>2, NobodyInside
  <2> QED BY <2>4, <2>5
<1> QED BY <1>1, HandleInvariant, PTL
=============================================================================
