-------------------------- MODULE ReentrantHandle --------------------------
(***************************************************************************)
(* The lock of rust/retrobus-perfetto/src/reentrant.rs, through which      *)
(* every thread of an instrumented emulator reaches one trace builder.     *)
(* Each section under the state mutex is one action; Condvar::wait gives   *)
(* the mutex up and may return without a notification; notify_one comes    *)
(* after the mutex is released.  A mutex poisoned by a panic is taken all  *)
(* the same (into_inner), so poisoning is no state of the model.           *)
(*                                                                         *)
(* with_ref and with_mut are two actions each, the closure running between *)
(* them.  A conflicting borrow, and enter_strict on another thread's       *)
(* handle, panic and change nothing; unwinding then ends closures and      *)
(* drops guards, as returning would.  The handle's own with_ref, with_mut, *)
(* replace, take and with_some are an enter, a borrow and a drop.          *)
(*                                                                         *)
(* A definition Name_Fault is Name with a plausible mistake: what the      *)
(* properties are tried against.                                           *)
(***************************************************************************)
EXTENDS Integers

CONSTANTS Threads,
          NoOwner,     \* None
          MaxDepth,    \* usize::MAX
          MaxGuards,   \* guards a thread has room for: each takes several bytes
          MaxLeaks,    \* bound: guards given to mem::forget
          MaxCalls     \* bound: enters and borrows each thread asks for

ASSUME HandleAssumption ==
  /\ NoOwner \notin Threads
  /\ MaxDepth \in Nat \ {0} /\ MaxGuards \in Nat /\ MaxGuards <= MaxDepth
  /\ MaxLeaks \in Nat /\ MaxCalls \in Nat

(* BorrowState: a number of shared borrows, or                              *)
Mutable    == -1
Unborrowed == 0

VARIABLES
  owner, depth, borrow,   \* State, under the mutex
  pc,                     \* where each thread is in enter() or in a guard's drop
  guards,                 \* guards each thread can still drop
  readers, writers,       \* closures running under with_ref and with_mut
  leaks, calls            \* what the bounds count

state == <<owner, depth, borrow>>
vars  == <<state, pc, guards, readers, writers, leaks, calls>>

Saturated_Plain(n) == n + 1
Saturated(n) == IF n < MaxDepth THEN n + 1 ELSE MaxDepth

Inside(t) == readers[t] + writers[t] > 0

(* An operation a thread is free to start, and need not.                    *)
Call(t) ==
  /\ pc[t] = "running"
  /\ calls[t] < MaxCalls
  /\ calls' = [calls EXCEPT ![t] = @ + 1]

----------------------------------------------------------------------------
(* A free handle is taken, the thread's own is entered once more.           *)
Acquire(t) ==
  /\ guards[t] < MaxGuards
  /\ owner \in {NoOwner, t}
  /\ owner' = t
  /\ depth' = IF owner = t THEN Saturated(depth) ELSE 1
  /\ guards' = [guards EXCEPT ![t] = @ + 1]
  /\ pc' = [pc EXCEPT ![t] = "running"]
  /\ UNCHANGED <<borrow, readers, writers, leaks>>

Block(t) ==
  /\ owner \notin {NoOwner, t}
  /\ pc' = [pc EXCEPT ![t] = "waiting"]
  /\ UNCHANGED <<state, guards, readers, writers, leaks>>

Enter(t) == Call(t) /\ (Acquire(t) \/ Block(t))

(* The loop of enter() after its wait returned.                             *)
Resume(t) == pc[t] = "woken" /\ (Acquire(t) \/ Block(t)) /\ UNCHANGED calls

(* try_enter and enter_strict, where they do not refuse.                    *)
TryEnter(t) == Call(t) /\ Acquire(t)

SpuriousWakeup(t) ==
  /\ pc[t] = "waiting"
  /\ pc' = [pc EXCEPT ![t] = "woken"]
  /\ UNCHANGED <<state, guards, readers, writers, leaks, calls>>

----------------------------------------------------------------------------
(* ReentrantGuard::with_ref and with_mut, and the drop of their BorrowGuard.*)

(* What a returning closure leaves of n shared borrows.                     *)
SharedLeft_None(n) == Unborrowed
SharedLeft(n) == IF n > 1 THEN n - 1 ELSE Unborrowed

WithRef(t) ==
  /\ Call(t) /\ guards[t] > 0
  /\ borrow # Mutable
  /\ borrow' = borrow + 1
  /\ readers' = [readers EXCEPT ![t] = @ + 1]
  /\ UNCHANGED <<owner, depth, pc, guards, writers, leaks>>

WithMut(t) ==
  /\ Call(t) /\ guards[t] > 0
  /\ borrow = Unborrowed
  /\ borrow' = Mutable
  /\ writers' = [writers EXCEPT ![t] = @ + 1]
  /\ UNCHANGED <<owner, depth, pc, guards, readers, leaks>>

EndRef(t) ==
  /\ pc[t] = "running" /\ readers[t] > 0
  /\ borrow' = SharedLeft(borrow)
  /\ readers' = [readers EXCEPT ![t] = @ - 1]
  /\ UNCHANGED <<owner, depth, pc, guards, writers, leaks, calls>>

EndMut(t) ==
  /\ pc[t] = "running" /\ writers[t] > 0
  /\ borrow' = Unborrowed
  /\ writers' = [writers EXCEPT ![t] = @ - 1]
  /\ UNCHANGED <<owner, depth, pc, guards, readers, leaks, calls>>

----------------------------------------------------------------------------
(* A closure borrows the guard it runs under, which therefore outlives it.  *)
Droppable(t) == pc[t] = "running" /\ guards[t] > (IF Inside(t) THEN 1 ELSE 0)

Nested_Never == FALSE
Nested == depth > 1

(* ReentrantGuard::drop.  (Its early return, for a guard whose thread is    *)
(* not the owner, is never taken: GuardsOwn.)                               *)
Drop(t) ==
  /\ Droppable(t)
  /\ guards' = [guards EXCEPT ![t] = @ - 1]
  /\ IF owner # t
     THEN UNCHANGED <<state, pc>>
     ELSE \/ /\ Nested
             /\ depth' = depth - 1
             /\ UNCHANGED <<owner, borrow, pc>>
          \/ /\ ~Nested
             /\ owner' = NoOwner /\ depth' = 0 /\ borrow' = Unborrowed
             /\ pc' = [pc EXCEPT ![t] = "notifying"]
  /\ UNCHANGED <<readers, writers, leaks, calls>>

Waiters == {w \in Threads : pc[w] = "waiting"}

Notify_Forgotten(t) ==
  /\ pc[t] = "notifying"
  /\ pc' = [pc EXCEPT ![t] = "running"]
  /\ UNCHANGED <<state, guards, readers, writers, leaks, calls>>

(* Condvar::notify_one.                                                     *)
Notify(t) ==
  /\ pc[t] = "notifying"
  /\ \/ /\ Waiters = {}
        /\ pc' = [pc EXCEPT ![t] = "running"]
     \/ \E w \in Waiters : pc' = [pc EXCEPT ![t] = "running", ![w] = "woken"]
  /\ UNCHANGED <<state, guards, readers, writers, leaks, calls>>

(* mem::forget on a guard, which safe code may call.                        *)
Forget(t) ==
  /\ Droppable(t)
  /\ leaks < MaxLeaks
  /\ leaks' = leaks + 1
  /\ guards' = [guards EXCEPT ![t] = @ - 1]
  /\ UNCHANGED <<state, pc, readers, writers, calls>>

Init ==
  /\ owner = NoOwner /\ depth = 0 /\ borrow = Unborrowed
  /\ pc = [t \in Threads |-> "running"]
  /\ guards = [t \in Threads |-> 0]
  /\ readers = [t \in Threads |-> 0] /\ writers = [t \in Threads |-> 0]
  /\ leaks = 0 /\ calls = [t \in Threads |-> 0]

Next ==
  \E t \in Threads :
    \/ Enter(t) \/ TryEnter(t) \/ Resume(t) \/ SpuriousWakeup(t)
    \/ WithRef(t) \/ WithMut(t) \/ EndRef(t) \/ EndMut(t)
    \/ Drop(t) \/ Notify(t) \/ Forget(t)

Spec == Init /\ [][Next]_vars

(* The scheduler runs every thread; closures return, guards leave their     *)
(* scope, and neither needs the handle to be free.                          *)
FairSpec ==
  /\ Spec
  /\ \A t \in Threads :
       /\ WF_vars(Resume(t)) /\ WF_vars(Notify(t))
       /\ WF_vars(EndRef(t)) /\ WF_vars(EndMut(t)) /\ WF_vars(Drop(t))

----------------------------------------------------------------------------
(* Type of the state.                                                       *)
TypeOK ==
  /\ owner \in Threads \union {NoOwner}
  /\ depth \in 0..MaxDepth
  /\ borrow \in Nat \union {Mutable}
  /\ pc \in [Threads -> {"running", "waiting", "woken", "notifying"}]
  /\ guards \in [Threads -> 0..MaxGuards]
  /\ readers \in [Threads -> Nat] /\ writers \in [Threads -> Nat]
  /\ leaks \in Nat /\ calls \in [Threads -> Nat]

(* Only the owner has guards, and it stays the owner while it has one,      *)
(* however its guards are nested, dropped out of order or leaked.           *)
GuardsOwn ==
  \A t \in Threads : guards[t] > 0 => owner = t /\ depth >= guards[t]

(* What makes the UnsafeCell sound: a closure that holds the inner value    *)
(* mutably runs alone, whatever thread the others are on and whichever      *)
(* guard they came through.                                                 *)
NoAliasing ==
  \A s, t \in Threads :
    writers[t] > 0 => /\ writers[t] = 1 /\ readers[s] = 0
                      /\ s # t => writers[s] = 0

(* No wake-up is lost: a free handle with threads waiting for it always has *)
(* one about to look again, or one about to be notified.                    *)
NoLostWakeup ==
  (owner = NoOwner /\ \E t \in Threads : pc[t] = "waiting")
    => \E t \in Threads : pc[t] \in {"woken", "notifying"}

(* Threads that make finitely many calls and leak no guard all get in,      *)
(* although notify_one may wake any waiter and a newcomer may be faster.    *)
WaitersGetIn ==
  \A t \in Threads : pc[t] = "waiting" ~> pc[t] = "running"
=============================================================================
