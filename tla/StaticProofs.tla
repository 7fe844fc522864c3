---------------------------- MODULE StaticProofs ----------------------------
(***************************************************************************)
(* Proofs for StaticDetour, for any number of threads, closures and boxes. *)
(***************************************************************************)
EXTENDS StaticInv, FiniteSetTheorems, TLAPS

USE StaticAssumption

\* The actions, as one disjunction: what a step of Next can be.
LEMMA NextCases ==
  ASSUME Next
  PROVE  \/ \E t \in Threads, f \in Closures, b \in Boxes : InitializeNew(t, f, b)
         \/ \E t \in Threads, f \in Closures, b \in Boxes : InitializeError(t, f, b)
         \/ \E t \in Threads, f \in Closures : SetDetour(t, f)
         \/ \E t \in Threads, w \in BOOLEAN : Toggle(t, w)
         \/ \E t \in Threads : ToggleLoad(t)
         \/ \E t \in Threads : CallOriginal(t)
         \/ \E t \in Threads : CallTarget(t)
         \/ \E t \in Threads : InitializePublish(t)
         \/ \E t \in Threads : Swap(t)
         \/ \E t \in Threads : DropPrevious(t)
         \/ \E t \in Threads : DropPreviousPanics(t)
         \/ \E t \in Threads : InitializeForget(t)
         \/ \E t \in Threads : ToggleError(t)
         \/ \E t \in Threads : OriginalReturns(t)
         \/ \E t \in Threads : LoadClosure(t)
         \/ \E t \in Threads : ClosureReturns(t)
  BY Zenon DEF Next, Call, Step

\* Types are kept; that a thread inside initialize owns a box is part of OwnerInv.
LEMMA TypeStep ==
  ASSUME TypeOK, OwnerInv, [Next]_vars
  PROVE  TypeOK'
<1> USE DEF TypeOK, OwnerInv, Goto, Note, InitSteps, SetSteps, RunSteps, PCs, Winning
<1>1. ASSUME NEW t \in Threads, NEW f \in Closures, NEW b \in Boxes, InitializeNew(t, f, b)
      PROVE TypeOK'
  BY <1>1 DEF InitializeNew, Leave
<1>2. ASSUME NEW t \in Threads, NEW f \in Closures, NEW b \in Boxes, InitializeError(t, f, b)
      PROVE TypeOK'
  BY <1>2 DEF InitializeError, Leave
<1>3. ASSUME NEW t \in Threads, NEW f \in Closures, SetDetour(t, f)
      PROVE TypeOK'
  BY <1>3 DEF SetDetour, Leave
<1>4. ASSUME NEW t \in Threads, NEW w \in BOOLEAN, Toggle(t, w)
      PROVE TypeOK'
  BY <1>4 DEF Toggle, Leave
<1>5. ASSUME NEW t \in Threads, ToggleLoad(t)
      PROVE TypeOK'
  BY <1>5 DEF ToggleLoad, Leave
<1>6. ASSUME NEW t \in Threads, CallOriginal(t)
      PROVE TypeOK'
  BY <1>6 DEF CallOriginal, Leave
<1>7. ASSUME NEW t \in Threads, CallTarget(t)
      PROVE TypeOK'
  BY <1>7 DEF CallTarget, Leave
<1>8. ASSUME NEW t \in Threads, InitializePublish(t)
      PROVE TypeOK'
  BY <1>8 DEF InitializePublish, Leave
<1>9. ASSUME NEW t \in Threads, Swap(t)
      PROVE TypeOK'
  BY <1>9 DEF Swap, Leave
<1>10. ASSUME NEW t \in Threads, DropPrevious(t)
      PROVE TypeOK'
  BY <1>10 DEF DropPrevious, Leave
<1>11. ASSUME NEW t \in Threads, DropPreviousPanics(t)
      PROVE TypeOK'
  BY <1>11 DEF DropPreviousPanics, Leave
<1>12. ASSUME NEW t \in Threads, InitializeForget(t)
      PROVE TypeOK'
  BY <1>12 DEF InitializeForget, Leave
<1>13. ASSUME NEW t \in Threads, ToggleError(t)
      PROVE TypeOK'
  BY <1>13 DEF ToggleError, Leave
<1>14. ASSUME NEW t \in Threads, OriginalReturns(t)
      PROVE TypeOK'
  BY <1>14 DEF OriginalReturns, Leave
<1>15. ASSUME NEW t \in Threads, LoadClosure(t)
      PROVE TypeOK'
  BY <1>15 DEF LoadClosure, Leave
<1>16. ASSUME NEW t \in Threads, ClosureReturns(t)
      PROVE TypeOK'
  BY <1>16 DEF ClosureReturns, Leave
<1>17. CASE UNCHANGED vars
  BY <1>17 DEF vars
<1> QED BY <1>1, <1>2, <1>3, <1>4, <1>5, <1>6, <1>7, <1>8, <1>9, <1>10, <1>11, <1>12, <1>13,
      <1>14, <1>15, <1>16, <1>17, NextCases

\* The exchange succeeds once, so that the winner's box stays the published one.
LEMMA OwnerStep ==
  ASSUME TypeOK, OwnerInv, BoxInv, [Next]_vars
  PROVE  OwnerInv'
<1> USE DEF TypeOK, OwnerInv, BoxInv, Winning, Goto, InitSteps, SetSteps, RunSteps
<1>1. ASSUME NEW t \in Threads, NEW f \in Closures, NEW b \in Boxes, InitializeNew(t, f, b)
      PROVE OwnerInv'
  BY <1>1 DEF InitializeNew, Leave
<1>2. ASSUME NEW t \in Threads, NEW f \in Closures, NEW b \in Boxes, InitializeError(t, f, b)
      PROVE OwnerInv'
  BY <1>2 DEF InitializeError, Leave
<1>3. ASSUME NEW t \in Threads, NEW f \in Closures, SetDetour(t, f)
      PROVE OwnerInv'
  BY <1>3 DEF SetDetour, Leave
<1>4. ASSUME NEW t \in Threads, NEW w \in BOOLEAN, Toggle(t, w)
      PROVE OwnerInv'
  BY <1>4 DEF Toggle, Leave
<1>5. ASSUME NEW t \in Threads, ToggleLoad(t)
      PROVE OwnerInv'
  BY <1>5 DEF ToggleLoad, Leave
<1>6. ASSUME NEW t \in Threads, CallOriginal(t)
      PROVE OwnerInv'
  BY <1>6 DEF CallOriginal, Leave
<1>7. ASSUME NEW t \in Threads, CallTarget(t)
      PROVE OwnerInv'
  BY <1>7 DEF CallTarget, Leave
<1>8. ASSUME NEW t \in Threads, InitializePublish(t)
      PROVE OwnerInv'
  BY <1>8 DEF InitializePublish, Leave
<1>9. ASSUME NEW t \in Threads, Swap(t)
      PROVE OwnerInv'
  BY <1>9 DEF Swap, Leave
<1>10. ASSUME NEW t \in Threads, DropPrevious(t)
      PROVE OwnerInv'
  BY <1>10 DEF DropPrevious, Leave
<1>11. ASSUME NEW t \in Threads, DropPreviousPanics(t)
      PROVE OwnerInv'
  BY <1>11 DEF DropPreviousPanics, Leave
<1>12. ASSUME NEW t \in Threads, InitializeForget(t)
      PROVE OwnerInv'
  BY <1>12 DEF InitializeForget, Leave
<1>13. ASSUME NEW t \in Threads, ToggleError(t)
      PROVE OwnerInv'
  BY <1>13 DEF ToggleError, Leave
<1>14. ASSUME NEW t \in Threads, OriginalReturns(t)
      PROVE OwnerInv'
  BY <1>14 DEF OriginalReturns, Leave
<1>15. ASSUME NEW t \in Threads, LoadClosure(t)
      PROVE OwnerInv'
  BY <1>15 DEF LoadClosure, Leave
<1>16. ASSUME NEW t \in Threads, ClosureReturns(t)
      PROVE OwnerInv'
  BY <1>16 DEF ClosureReturns, Leave
<1>17. CASE UNCHANGED vars
  BY <1>17 DEF vars
<1> QED BY <1>1, <1>2, <1>3, <1>4, <1>5, <1>6, <1>7, <1>8, <1>9, <1>10, <1>11, <1>12, <1>13,
      <1>14, <1>15, <1>16, <1>17, NextCases

\* A box passes from its thread to the static, or is freed by the thread that owns
\* it: nobody else frees it.
LEMMA BoxStep ==
  ASSUME TypeOK, OwnerInv, BoxInv, [Next]_vars
  PROVE  BoxInv'
<1> USE DEF TypeOK, OwnerInv, BoxInv, Winning, Note, Goto, InitSteps, SetSteps, RunSteps
<1>1. ASSUME NEW t \in Threads, NEW f \in Closures, NEW b \in Boxes, InitializeNew(t, f, b)
      PROVE BoxInv'
  BY <1>1 DEF InitializeNew, Leave
<1>2. ASSUME NEW t \in Threads, NEW f \in Closures, NEW b \in Boxes, InitializeError(t, f, b)
      PROVE BoxInv'
  BY <1>2 DEF InitializeError, Leave
<1>3. ASSUME NEW t \in Threads, NEW f \in Closures, SetDetour(t, f)
      PROVE BoxInv'
  BY <1>3 DEF SetDetour, Leave
<1>4. ASSUME NEW t \in Threads, NEW w \in BOOLEAN, Toggle(t, w)
      PROVE BoxInv'
  BY <1>4 DEF Toggle, Leave
<1>5. ASSUME NEW t \in Threads, ToggleLoad(t)
      PROVE BoxInv'
  BY <1>5 DEF ToggleLoad, Leave
<1>6. ASSUME NEW t \in Threads, CallOriginal(t)
      PROVE BoxInv'
  BY <1>6 DEF CallOriginal, Leave
<1>7. ASSUME NEW t \in Threads, CallTarget(t)
      PROVE BoxInv'
  BY <1>7 DEF CallTarget, Leave
<1>8. ASSUME NEW t \in Threads, InitializePublish(t)
      PROVE BoxInv'
  BY <1>8 DEF InitializePublish, Leave
<1>9. ASSUME NEW t \in Threads, Swap(t)
      PROVE BoxInv'
  BY <1>9 DEF Swap, Leave
<1>10. ASSUME NEW t \in Threads, DropPrevious(t)
      PROVE BoxInv'
  BY <1>10 DEF DropPrevious, Leave
<1>11. ASSUME NEW t \in Threads, DropPreviousPanics(t)
      PROVE BoxInv'
  BY <1>11 DEF DropPreviousPanics, Leave
<1>12. ASSUME NEW t \in Threads, InitializeForget(t)
      PROVE BoxInv'
  BY <1>12 DEF InitializeForget, Leave
<1>13. ASSUME NEW t \in Threads, ToggleError(t)
      PROVE BoxInv'
  BY <1>13 DEF ToggleError, Leave
<1>14. ASSUME NEW t \in Threads, OriginalReturns(t)
      PROVE BoxInv'
  BY <1>14 DEF OriginalReturns, Leave
<1>15. ASSUME NEW t \in Threads, LoadClosure(t)
      PROVE BoxInv'
  BY <1>15 DEF LoadClosure, Leave
<1>16. ASSUME NEW t \in Threads, ClosureReturns(t)
      PROVE BoxInv'
  BY <1>16 DEF ClosureReturns, Leave
<1>17. CASE UNCHANGED vars
  BY <1>17 DEF vars
<1> QED BY <1>1, <1>2, <1>3, <1>4, <1>5, <1>6, <1>7, <1>8, <1>9, <1>10, <1>11, <1>12, <1>13,
      <1>14, <1>15, <1>16, <1>17, NextCases

\* The swap passes the old closure to the thread that swaps, and to no other.
LEMMA ClosureStep ==
  ASSUME TypeOK, ClosureInv, [Next]_vars
  PROVE  ClosureInv'
<1> USE DEF TypeOK, ClosureInv, Holds, Goto, InitSteps, SetSteps, RunSteps
<1>1. ASSUME NEW t \in Threads, NEW f \in Closures, NEW b \in Boxes, InitializeNew(t, f, b)
      PROVE ClosureInv'
  BY <1>1 DEF InitializeNew, Leave
<1>2. ASSUME NEW t \in Threads, NEW f \in Closures, NEW b \in Boxes, InitializeError(t, f, b)
      PROVE ClosureInv'
  BY <1>2 DEF InitializeError, Leave
<1>3. ASSUME NEW t \in Threads, NEW f \in Closures, SetDetour(t, f)
      PROVE ClosureInv'
  BY <1>3 DEF SetDetour, Leave
<1>4. ASSUME NEW t \in Threads, NEW w \in BOOLEAN, Toggle(t, w)
      PROVE ClosureInv'
  BY <1>4 DEF Toggle, Leave
<1>5. ASSUME NEW t \in Threads, ToggleLoad(t)
      PROVE ClosureInv'
  BY <1>5 DEF ToggleLoad, Leave
<1>6. ASSUME NEW t \in Threads, CallOriginal(t)
      PROVE ClosureInv'
  BY <1>6 DEF CallOriginal, Leave
<1>7. ASSUME NEW t \in Threads, CallTarget(t)
      PROVE ClosureInv'
  BY <1>7 DEF CallTarget, Leave
<1>8. ASSUME NEW t \in Threads, InitializePublish(t)
      PROVE ClosureInv'
  BY <1>8 DEF InitializePublish, Leave
<1>9. ASSUME NEW t \in Threads, Swap(t)
      PROVE ClosureInv'
  BY <1>9 DEF Swap, Leave
<1>10. ASSUME NEW t \in Threads, DropPrevious(t)
      PROVE ClosureInv'
  BY <1>10 DEF DropPrevious, Leave
<1>11. ASSUME NEW t \in Threads, DropPreviousPanics(t)
      PROVE ClosureInv'
  BY <1>11 DEF DropPreviousPanics, Leave
<1>12. ASSUME NEW t \in Threads, InitializeForget(t)
      PROVE ClosureInv'
  BY <1>12 DEF InitializeForget, Leave
<1>13. ASSUME NEW t \in Threads, ToggleError(t)
      PROVE ClosureInv'
  BY <1>13 DEF ToggleError, Leave
<1>14. ASSUME NEW t \in Threads, OriginalReturns(t)
      PROVE ClosureInv'
  BY <1>14 DEF OriginalReturns, Leave
<1>15. ASSUME NEW t \in Threads, LoadClosure(t)
      PROVE ClosureInv'
  BY <1>15 DEF LoadClosure, Leave
<1>16. ASSUME NEW t \in Threads, ClosureReturns(t)
      PROVE ClosureInv'
  BY <1>16 DEF ClosureReturns, Leave
<1>17. CASE UNCHANGED vars
  BY <1>17 DEF vars
<1> QED BY <1>1, <1>2, <1>3, <1>4, <1>5, <1>6, <1>7, <1>8, <1>9, <1>10, <1>11, <1>12, <1>13,
      <1>14, <1>15, <1>16, <1>17, NextCases

\* No step sets the closure back to null.
LEMMA SetStep ==
  ASSUME TypeOK, OwnerInv, BoxInv, ClosureInv, SetInv, [Next]_vars
  PROVE  SetInv'
<1> USE DEF TypeOK, ClosureInv, SetInv, OwnerInv, BoxInv, Initialized, Goto, InitSteps,
      SetSteps, RunSteps
<1>1. ASSUME NEW t \in Threads, NEW f \in Closures, NEW b \in Boxes, InitializeNew(t, f, b)
      PROVE SetInv'
  BY <1>1 DEF InitializeNew, Leave
<1>2. ASSUME NEW t \in Threads, NEW f \in Closures, NEW b \in Boxes, InitializeError(t, f, b)
      PROVE SetInv'
  BY <1>2 DEF InitializeError, Leave
<1>3. ASSUME NEW t \in Threads, NEW f \in Closures, SetDetour(t, f)
      PROVE SetInv'
  BY <1>3 DEF SetDetour, Leave
<1>4. ASSUME NEW t \in Threads, NEW w \in BOOLEAN, Toggle(t, w)
      PROVE SetInv'
  BY <1>4 DEF Toggle, Leave
<1>5. ASSUME NEW t \in Threads, ToggleLoad(t)
      PROVE SetInv'
  BY <1>5 DEF ToggleLoad, Leave
<1>6. ASSUME NEW t \in Threads, CallOriginal(t)
      PROVE SetInv'
  BY <1>6 DEF CallOriginal, Leave
<1>7. ASSUME NEW t \in Threads, CallTarget(t)
      PROVE SetInv'
  BY <1>7 DEF CallTarget, Leave
<1>8. ASSUME NEW t \in Threads, InitializePublish(t)
      PROVE SetInv'
  BY <1>8 DEF InitializePublish, Leave
<1>9. ASSUME NEW t \in Threads, Swap(t)
      PROVE SetInv'
  BY <1>9 DEF Swap, Leave
<1>10. ASSUME NEW t \in Threads, DropPrevious(t)
      PROVE SetInv'
  BY <1>10 DEF DropPrevious, Leave
<1>11. ASSUME NEW t \in Threads, DropPreviousPanics(t)
      PROVE SetInv'
  BY <1>11 DEF DropPreviousPanics, Leave
<1>12. ASSUME NEW t \in Threads, InitializeForget(t)
      PROVE SetInv'
  BY <1>12 DEF InitializeForget, Leave
<1>13. ASSUME NEW t \in Threads, ToggleError(t)
      PROVE SetInv'
  BY <1>13 DEF ToggleError, Leave
<1>14. ASSUME NEW t \in Threads, OriginalReturns(t)
      PROVE SetInv'
  BY <1>14 DEF OriginalReturns, Leave
<1>15. ASSUME NEW t \in Threads, LoadClosure(t)
      PROVE SetInv'
  BY <1>15 DEF LoadClosure, Leave
<1>16. ASSUME NEW t \in Threads, ClosureReturns(t)
      PROVE SetInv'
  BY <1>16 DEF ClosureReturns, Leave
<1>17. CASE UNCHANGED vars
  BY <1>17 DEF vars
<1> QED BY <1>1, <1>2, <1>3, <1>4, <1>5, <1>6, <1>7, <1>8, <1>9, <1>10, <1>11, <1>12, <1>13,
      <1>14, <1>15, <1>16, <1>17, NextCases

\* Before initialize has returned only an early toggle enables the hook.
LEMMA EarlyStep ==
  ASSUME TypeOK, OwnerInv, BoxInv, SetInv, EarlyInv, [Next]_vars
  PROVE  EarlyInv'
<1> USE DEF TypeOK, OwnerInv, BoxInv, SetInv, EarlyInv, Initialized, Note, Goto, InitSteps,
      SetSteps, RunSteps
<1>1. ASSUME NEW t \in Threads, NEW f \in Closures, NEW b \in Boxes, InitializeNew(t, f, b)
      PROVE EarlyInv'
  BY <1>1 DEF InitializeNew, Leave
<1>2. ASSUME NEW t \in Threads, NEW f \in Closures, NEW b \in Boxes, InitializeError(t, f, b)
      PROVE EarlyInv'
  BY <1>2 DEF InitializeError, Leave
<1>3. ASSUME NEW t \in Threads, NEW f \in Closures, SetDetour(t, f)
      PROVE EarlyInv'
  BY <1>3 DEF SetDetour, Leave
<1>4. ASSUME NEW t \in Threads, NEW w \in BOOLEAN, Toggle(t, w)
      PROVE EarlyInv'
  BY <1>4 DEF Toggle, Leave
<1>5. ASSUME NEW t \in Threads, ToggleLoad(t)
      PROVE EarlyInv'
  BY <1>5 DEF ToggleLoad, Leave
<1>6. ASSUME NEW t \in Threads, CallOriginal(t)
      PROVE EarlyInv'
  BY <1>6 DEF CallOriginal, Leave
<1>7. ASSUME NEW t \in Threads, CallTarget(t)
      PROVE EarlyInv'
  BY <1>7 DEF CallTarget, Leave
<1>8. ASSUME NEW t \in Threads, InitializePublish(t)
      PROVE EarlyInv'
  BY <1>8 DEF InitializePublish, Leave
<1>9. ASSUME NEW t \in Threads, Swap(t)
      PROVE EarlyInv'
  BY <1>9 DEF Swap, Leave
<1>10. ASSUME NEW t \in Threads, DropPrevious(t)
      PROVE EarlyInv'
  BY <1>10 DEF DropPrevious, Leave
<1>11. ASSUME NEW t \in Threads, DropPreviousPanics(t)
      PROVE EarlyInv'
  BY <1>11 DEF DropPreviousPanics, Leave
<1>12. ASSUME NEW t \in Threads, InitializeForget(t)
      PROVE EarlyInv'
  BY <1>12 DEF InitializeForget, Leave
<1>13. ASSUME NEW t \in Threads, ToggleError(t)
      PROVE EarlyInv'
  BY <1>13 DEF ToggleError, Leave
<1>14. ASSUME NEW t \in Threads, OriginalReturns(t)
      PROVE EarlyInv'
  BY <1>14 DEF OriginalReturns, Leave
<1>15. ASSUME NEW t \in Threads, LoadClosure(t)
      PROVE EarlyInv'
  BY <1>15 DEF LoadClosure, Leave
<1>16. ASSUME NEW t \in Threads, ClosureReturns(t)
      PROVE EarlyInv'
  BY <1>16 DEF ClosureReturns, Leave
<1>17. CASE UNCHANGED vars
  BY <1>17 DEF vars
<1> QED BY <1>1, <1>2, <1>3, <1>4, <1>5, <1>6, <1>7, <1>8, <1>9, <1>10, <1>11, <1>12, <1>13,
      <1>14, <1>15, <1>16, <1>17, NextCases

\* While a hooked call runs the current closure, nobody is about to drop it: there
\* is no set_detour beside it, and the initialize that won has returned.
LEMMA BesideStep ==
  ASSUME TypeOK, OwnerInv, BoxInv, ClosureInv, EarlyInv, BesideInv, [Next]_vars
  PROVE  BesideInv'
<1> USE DEF TypeOK, OwnerInv, BoxInv, ClosureInv, EarlyInv, BesideInv, Initialized, Note,
      Winning, Goto, InitSteps, SetSteps, RunSteps
<1>1. ASSUME NEW t \in Threads, NEW f \in Closures, NEW b \in Boxes, InitializeNew(t, f, b)
      PROVE BesideInv'
  BY <1>1 DEF InitializeNew, Leave
<1>2. ASSUME NEW t \in Threads, NEW f \in Closures, NEW b \in Boxes, InitializeError(t, f, b)
      PROVE BesideInv'
  BY <1>2 DEF InitializeError, Leave
<1>3. ASSUME NEW t \in Threads, NEW f \in Closures, SetDetour(t, f)
      PROVE BesideInv'
  BY <1>3 DEF SetDetour, Leave
<1>4. ASSUME NEW t \in Threads, NEW w \in BOOLEAN, Toggle(t, w)
      PROVE BesideInv'
  BY <1>4 DEF Toggle, Leave
<1>5. ASSUME NEW t \in Threads, ToggleLoad(t)
      PROVE BesideInv'
  BY <1>5 DEF ToggleLoad, Leave
<1>6. ASSUME NEW t \in Threads, CallOriginal(t)
      PROVE BesideInv'
  BY <1>6 DEF CallOriginal, Leave
<1>7. ASSUME NEW t \in Threads, CallTarget(t)
      PROVE BesideInv'
  BY <1>7 DEF CallTarget, Leave
<1>8. ASSUME NEW t \in Threads, InitializePublish(t)
      PROVE BesideInv'
  BY <1>8 DEF InitializePublish, Leave
<1>9. ASSUME NEW t \in Threads, Swap(t)
      PROVE BesideInv'
  BY <1>9 DEF Swap, Leave
<1>10. ASSUME NEW t \in Threads, DropPrevious(t)
      PROVE BesideInv'
  BY <1>10 DEF DropPrevious, Leave
<1>11. ASSUME NEW t \in Threads, DropPreviousPanics(t)
      PROVE BesideInv'
  BY <1>11 DEF DropPreviousPanics, Leave
<1>12. ASSUME NEW t \in Threads, InitializeForget(t)
      PROVE BesideInv'
  BY <1>12 DEF InitializeForget, Leave
<1>13. ASSUME NEW t \in Threads, ToggleError(t)
      PROVE BesideInv'
  BY <1>13 DEF ToggleError, Leave
<1>14. ASSUME NEW t \in Threads, OriginalReturns(t)
      PROVE BesideInv'
  BY <1>14 DEF OriginalReturns, Leave
<1>15. ASSUME NEW t \in Threads, LoadClosure(t)
      PROVE BesideInv'
  BY <1>15 DEF LoadClosure, Leave
<1>16. ASSUME NEW t \in Threads, ClosureReturns(t)
      PROVE BesideInv'
  BY <1>16 DEF ClosureReturns, Leave
<1>17. CASE UNCHANGED vars
  BY <1>17 DEF vars
<1> QED BY <1>1, <1>2, <1>3, <1>4, <1>5, <1>6, <1>7, <1>8, <1>9, <1>10, <1>11, <1>12, <1>13,
      <1>14, <1>15, <1>16, <1>17, NextCases

LEMMA StaticInit ==
  ASSUME Init
  PROVE  StaticInvariant
<1>1. TypeOK
  BY DEF Init, TypeOK, PCs
<1>2. OwnerInv /\ BoxInv
  BY DEF Init, OwnerInv, BoxInv, InitSteps, Winning
<1>3. ClosureInv
  BY DEF Init, ClosureInv, Holds, InitSteps, SetSteps
<1>4. SetInv /\ EarlyInv /\ BesideInv
  BY DEF Init, SetInv, EarlyInv, BesideInv, Initialized, SetSteps, RunSteps
<1> QED BY <1>1, <1>2, <1>3, <1>4 DEF StaticInvariant, PointerInv

\* The inductive invariant: ownership of boxes and closures whatever the clients
\* do, and what a hooked call relies on as far as they do not misuse the static
\* (StaticDetour::initialize, set_detour, enable, disable and __detour).
THEOREM StaticInductive == Spec => []StaticInvariant
<1>1. Init => StaticInvariant
  BY StaticInit
<1>2. StaticInvariant /\ [Next]_vars => StaticInvariant'
  <2> SUFFICES ASSUME StaticInvariant, [Next]_vars PROVE StaticInvariant'
    OBVIOUS
  <2>1. TypeOK /\ OwnerInv /\ BoxInv /\ ClosureInv /\ SetInv /\ EarlyInv /\ BesideInv
    BY DEF StaticInvariant, PointerInv
  <2>2. TypeOK' /\ OwnerInv' /\ BoxInv' /\ ClosureInv'
    BY <2>1, TypeStep, OwnerStep, BoxStep, ClosureStep
  <2>3. SetInv' /\ EarlyInv' /\ BesideInv'
    BY <2>1, SetStep, EarlyStep, BesideStep
  <2> QED BY <2>2, <2>3 DEF StaticInvariant, PointerInv
<1> QED BY <1>1, <1>2, PTL DEF Spec

\* Every variable keeps its type, whatever the clients do with StaticDetour.
THEOREM StaticTypeCorrect == Spec => []TypeOK
  BY StaticInductive, PTL DEF StaticInvariant, PointerInv

\* The pointer to the detour, published or loaded by a thread, is to a detour that
\* is alive unless a closure has panicked in initialize (the forget of the box).
THEOREM PublishedStaysAlive == Spec => []PublishedAlive
<1>1. StaticInvariant => PublishedAlive
  BY DEF StaticInvariant, PointerInv, OwnerInv, BoxInv, PublishedAlive
<1> QED BY <1>1, StaticInductive, PTL

\* However many threads race to initialize, one wins and the detours of the others
\* are gone (the compare_exchange of initialize).
THEOREM InitializeOnce == Spec => []OneWinner
<1>1. StaticInvariant => OneWinner
  BY DEF StaticInvariant, PointerInv, OwnerInv, BoxInv, OneWinner, InitSteps, Winning
<1> QED BY <1>1, StaticInductive, PTL

\* No closure is leaked or dropped twice: ClosureInv says who holds it, and here the
\* holders are counted (set_detour's swap).
THEOREM ClosuresAccounted == Spec => []ClosureAccounted
<1>1. StaticInvariant => ClosureAccounted
  <2> SUFFICES ASSUME ClosureInv, TypeOK, NEW f \in Closures
               PROVE  Cardinality({t \in Threads : Holds(t, f)})
                        + (IF closure = f THEN 1 ELSE 0)
                        = IF heap[f] = "owned" THEN 1 ELSE 0
    BY DEF StaticInvariant, PointerInv, ClosureAccounted, Holds
  <2> DEFINE Holders == {t \in Threads : Holds(t, f)}
  <2>1. CASE \E t \in Threads : Holds(t, f)
    <3>1. PICK t \in Threads : Holds(t, f)
      BY <2>1
    <3>2. Holders = {t}
      BY <3>1 DEF ClosureInv
    <3>3. closure # f /\ heap[f] = "owned"
      BY <3>1 DEF ClosureInv
    <3>4. Cardinality(Holders) = 1
      BY <3>2, FS_Singleton
    <3> QED BY <3>3, <3>4
  <2>2. CASE ~\E t \in Threads : Holds(t, f)
    <3>1. Holders = {}
      BY <2>2
    <3>2. heap[f] = "owned" <=> closure = f
      BY <2>2 DEF ClosureInv
    <3>3. Cardinality(Holders) = 0
      BY <3>1, FS_EmptySet
    <3> QED BY <3>2, <3>3
  <2> QED BY <2>1, <2>2
<1> QED BY <1>1, StaticInductive, PTL

\* A hooked call runs a closure that is alive, if the hook was enabled after
\* initialize and no closure was set beside it (__detour's transient reference).
THEOREM RunsLiveClosure == Spec => []NoUseAfterFree
<1>1. StaticInvariant => NoUseAfterFree
  BY DEF StaticInvariant, PointerInv, TypeOK, ClosureInv, BesideInv, NoUseAfterFree, RunsAlive
<1> QED BY <1>1, StaticInductive, PTL

\* A hooked call finds a closure, if the hook was enabled after initialize
\* (__detour's expect never panics).
THEOREM HookHasClosure == Spec => []HookedHasClosure
<1>1. StaticInvariant => HookedHasClosure
  BY DEF StaticInvariant, EarlyInv, HookedHasClosure
<1> QED BY <1>1, StaticInductive, PTL
=============================================================================
