-------------------------- MODULE DetourHomeProofs --------------------------
(***************************************************************************)
(* Proofs for Detour, continued: the order of a toggle's steps as its flag *)
(* shows it, the blocks of executable memory, and, for a client that       *)
(* nests, where the jumps in the code, in the instruction cache and in the *)
(* trampolines lead.                                                       *)
(***************************************************************************)
EXTENDS DetourProofs

USE DetourAssumption

\* While a toggle copies, nobody else writes to the code or saves it for the same
\* detour: what is copied stays copied.
LEMMA CopyStep ==
  ASSUME TypeOK, ControlInv, CopyInv, [Next]_vars
  PROVE  CopyInv'
<1> USE DEF CopyInv, TypeOK, ControlInv, LockInv, WorkInv, AloneInv, Goto, Return, Critical,
      NewSteps, ToggleSteps
<1>1. ASSUME NEW t \in Threads, NEW d \in Detours, NewCall(t, d)
       PROVE CopyInv'
  BY <1>1 DEF NewCall, memory
<1>2. ASSUME NEW t \in Threads, NEW d \in Detours, NEW w \in BOOLEAN, ToggleCall(t, d, w)
       PROVE CopyInv'
  BY <1>2 DEF ToggleCall, objects, memory
<1>3. ASSUME NEW t \in Threads, NEW d \in Detours, DropCall(t, d)
       PROVE CopyInv'
  BY <1>3 DEF DropCall, memory
<1>4. ASSUME NEW t \in Threads, NewLock(t)
       PROVE CopyInv'
  BY <1>4 DEF NewLock, objects, memory
<1>5. ASSUME NEW t \in Threads, NewPrepare(t)
       PROVE CopyInv'
  BY <1>5, AtWork DEF NewPrepare, memory
<1>6. ASSUME NEW t \in Threads, NewRelay(t)
       PROVE CopyInv'
  BY <1>6, AtWork DEF NewRelay, memory
<1>7. ASSUME NEW t \in Threads, NewPatcher(t)
       PROVE CopyInv'
  BY <1>7, AtWork DEF NewPatcher, memory
<1>8. ASSUME NEW t \in Threads, NewTrampoline(t)
       PROVE CopyInv'
  BY <1>8, AtWork DEF NewTrampoline, memory
<1>9. ASSUME NEW t \in Threads, NewError(t) \/ NewPanic(t)
       PROVE CopyInv'
  <2>1. /\ cur[t] \in Detours /\ \A u \in Threads \ {t} : cur[u] # cur[t]
        /\ pc' = [pc EXCEPT ![t] = "idle"] /\ cur' = [cur EXCEPT ![t] = NoDetour]
        /\ original' = [original EXCEPT ![cur[t]] = Pristine]
        /\ want' = [want EXCEPT ![t] = FALSE] /\ UNCHANGED <<todo, code>>
    BY <1>9, NewFailEffect
  <2>2. SUFFICES ASSUME NEW u \in Threads, pc'[u] = "toggleCopy",
        NEW c \in Area[cur'[u]] \ todo'[u]
                 PROVE  code'[c] = IF want'[u] THEN cur'[u] ELSE original'[cur'[u]][c]
    OBVIOUS
  <2>3. u # t /\ pc[u] = "toggleCopy" /\ cur'[u] = cur[u] /\ want'[u] = want[u] /\ cur[u] \in Detours
    BY <2>1, <2>2, AtWork
  <2>4. original'[cur[u]] = original[cur[u]]
    BY <2>1, <2>3
  <2> QED BY <2>1, <2>2, <2>3, <2>4
<1>10. ASSUME NEW t \in Threads, ToggleLock(t)
       PROVE CopyInv'
  BY <1>10 DEF ToggleLock, objects, memory
<1>11. ASSUME NEW t \in Threads, ToggleCheck(t)
       PROVE CopyInv'
  BY <1>11 DEF ToggleCheck, objects, memory
<1>12. ASSUME NEW t \in Threads, ToggleProtect(t)
       PROVE CopyInv'
  BY <1>12, AtWork DEF ToggleProtect, objects
<1>13. ASSUME NEW t \in Threads, NEW c \in Cells, ToggleCopy(t, c)
       PROVE CopyInv'
  BY <1>13, AtWork DEF ToggleCopy, objects
<1>14. ASSUME NEW t \in Threads, ToggleStore(t)
       PROVE CopyInv'
  BY <1>14, AtWork DEF ToggleStore, memory
<1>15. ASSUME NEW t \in Threads, ToggleFlush(t)
       PROVE CopyInv'
  BY <1>15, AtWork DEF ToggleFlush, objects
<1>16. ASSUME NEW t \in Threads, ToggleRestore(t)
       PROVE CopyInv'
  BY <1>16, AtWork DEF ToggleRestore, objects
<1>17. ASSUME NEW t \in Threads, ToggleEnd(t)
       PROVE CopyInv'
  BY <1>17, AtWork DEF ToggleEnd, ToggleReturn, objects, memory
<1>18. ASSUME NEW t \in Threads, DropRelay(t)
       PROVE CopyInv'
  BY <1>18, AtWork DEF DropRelay, memory
<1>19. ASSUME NEW t \in Threads, DropTrampoline(t)
       PROVE CopyInv'
  <2>1. \A u \in Threads \ {t} : cur[u] # cur[t] \/ cur[t] = NoDetour
    BY <1>19, Alone, AtWork DEF DropTrampoline
  <2>2. SUFFICES ASSUME NEW u \in Threads, u # t, pc[u] = "toggleCopy",
        NEW c \in Area[cur[u]] \ todo[u]
               PROVE  code[c] = IF want[u] THEN cur[u] ELSE original'[cur[u]][c]
    BY <1>19, <2>1 DEF DropTrampoline, memory
  <2>3. original'[cur[u]] = original[cur[u]]
    BY <1>19, <2>1, <2>2, AtWork DEF DropTrampoline
  <2> QED BY <2>2, <2>3
<1>20. ASSUME NEW c \in Cells, Refill(c)
       PROVE CopyInv'
  BY <1>20 DEF Refill, locals, objects
<1>21. CASE UNCHANGED vars
  BY <1>21 DEF vars
<1>22. ASSUME NEW t \in Threads, NewSameAddress(t)
       PROVE CopyInv'
  BY <1>22 DEF NewSameAddress, vars
<1> HIDE DEF CopyInv, TypeOK, ControlInv, LockInv, WorkInv, AloneInv, Goto, Return, Critical,
      NewSteps, ToggleSteps
<1> QED
  BY <1>1, <1>2, <1>3, <1>4, <1>5, <1>6, <1>7, <1>8, <1>9, <1>10, <1>11, <1>12,
     <1>13, <1>14, <1>15, <1>16, <1>17, <1>18, <1>19, <1>20, <1>21, <1>22,
     NextCases, Zenon

\* Between the store and the unlock the flag is as the toggle wants it.
LEMMA StoreStep ==
  ASSUME TypeOK, ControlInv, StoreInv, [Next]_vars
  PROVE  StoreInv'
<1> USE DEF StoreInv, TypeOK, ControlInv, LockInv, WorkInv, AloneInv, Goto, Return, Critical,
      NewSteps, ToggleSteps
<1>1. ASSUME NEW t \in Threads, NEW d \in Detours, NewCall(t, d)
       PROVE StoreInv'
  BY <1>1 DEF NewCall, memory
<1>2. ASSUME NEW t \in Threads, NEW d \in Detours, NEW w \in BOOLEAN, ToggleCall(t, d, w)
       PROVE StoreInv'
  BY <1>2 DEF ToggleCall, objects, memory
<1>3. ASSUME NEW t \in Threads, NEW d \in Detours, DropCall(t, d)
       PROVE StoreInv'
  BY <1>3 DEF DropCall, memory
<1>4. ASSUME NEW t \in Threads, NewLock(t)
       PROVE StoreInv'
  BY <1>4 DEF NewLock, objects, memory
<1>5. ASSUME NEW t \in Threads, NewPrepare(t)
       PROVE StoreInv'
  BY <1>5, AtWork DEF NewPrepare, memory
<1>6. ASSUME NEW t \in Threads, NewRelay(t)
       PROVE StoreInv'
  BY <1>6, AtWork DEF NewRelay, memory
<1>7. ASSUME NEW t \in Threads, NewPatcher(t)
       PROVE StoreInv'
  BY <1>7, AtWork DEF NewPatcher, memory
<1>8. ASSUME NEW t \in Threads, NewTrampoline(t)
       PROVE StoreInv'
  BY <1>8, AtWork DEF NewTrampoline, memory
<1>9. ASSUME NEW t \in Threads, NewError(t) \/ NewPanic(t)
       PROVE StoreInv'
  BY <1>9, NewFailEffect
<1>10. ASSUME NEW t \in Threads, ToggleLock(t)
       PROVE StoreInv'
  BY <1>10 DEF ToggleLock, objects, memory
<1>11. ASSUME NEW t \in Threads, ToggleCheck(t)
       PROVE StoreInv'
  BY <1>11 DEF ToggleCheck, objects, memory
<1>12. ASSUME NEW t \in Threads, ToggleProtect(t)
       PROVE StoreInv'
  BY <1>12, AtWork DEF ToggleProtect, objects
<1>13. ASSUME NEW t \in Threads, NEW c \in Cells, ToggleCopy(t, c)
       PROVE StoreInv'
  BY <1>13, AtWork DEF ToggleCopy, objects
<1>14. ASSUME NEW t \in Threads, ToggleStore(t)
       PROVE StoreInv'
  BY <1>14, AtWork DEF ToggleStore, memory
<1>15. ASSUME NEW t \in Threads, ToggleFlush(t)
       PROVE StoreInv'
  BY <1>15, AtWork DEF ToggleFlush, objects
<1>16. ASSUME NEW t \in Threads, ToggleRestore(t)
       PROVE StoreInv'
  BY <1>16, AtWork DEF ToggleRestore, objects
<1>17. ASSUME NEW t \in Threads, ToggleEnd(t)
       PROVE StoreInv'
  BY <1>17, AtWork DEF ToggleEnd, ToggleReturn, objects, memory
<1>18. ASSUME NEW t \in Threads, DropRelay(t)
       PROVE StoreInv'
  BY <1>18, AtWork DEF DropRelay, memory
<1>19. ASSUME NEW t \in Threads, DropTrampoline(t)
       PROVE StoreInv'
  BY <1>19, AtWork DEF DropTrampoline, memory
<1>20. ASSUME NEW c \in Cells, Refill(c)
       PROVE StoreInv'
  BY <1>20 DEF Refill, locals, objects
<1>21. CASE UNCHANGED vars
  BY <1>21 DEF vars
<1>22. ASSUME NEW t \in Threads, NewSameAddress(t)
       PROVE StoreInv'
  BY <1>22 DEF NewSameAddress, vars
<1> HIDE DEF StoreInv, TypeOK, ControlInv, LockInv, WorkInv, AloneInv, Goto, Return, Critical,
      NewSteps, ToggleSteps
<1> QED
  BY <1>1, <1>2, <1>3, <1>4, <1>5, <1>6, <1>7, <1>8, <1>9, <1>10, <1>11, <1>12,
     <1>13, <1>14, <1>15, <1>16, <1>17, <1>18, <1>19, <1>20, <1>21, <1>22,
     NextCases, Zenon

\* The toggle of a drop is a disable.
LEMMA DropStep ==
  ASSUME TypeOK, ControlInv, DropInv, [Next]_vars
  PROVE  DropInv'
<1> USE DEF DropInv, TypeOK, ControlInv, LockInv, WorkInv, AloneInv, Goto, Return, Critical,
      NewSteps, ToggleSteps
<1>1. ASSUME NEW t \in Threads, NEW d \in Detours, NewCall(t, d)
       PROVE DropInv'
  BY <1>1 DEF NewCall, memory
<1>2. ASSUME NEW t \in Threads, NEW d \in Detours, NEW w \in BOOLEAN, ToggleCall(t, d, w)
       PROVE DropInv'
  BY <1>2 DEF ToggleCall, objects, memory
<1>3. ASSUME NEW t \in Threads, NEW d \in Detours, DropCall(t, d)
       PROVE DropInv'
  BY <1>3 DEF DropCall, memory
<1>4. ASSUME NEW t \in Threads, NewLock(t)
       PROVE DropInv'
  BY <1>4 DEF NewLock, objects, memory
<1>5. ASSUME NEW t \in Threads, NewPrepare(t)
       PROVE DropInv'
  BY <1>5, AtWork DEF NewPrepare, memory
<1>6. ASSUME NEW t \in Threads, NewRelay(t)
       PROVE DropInv'
  BY <1>6, AtWork DEF NewRelay, memory
<1>7. ASSUME NEW t \in Threads, NewPatcher(t)
       PROVE DropInv'
  BY <1>7, AtWork DEF NewPatcher, memory
<1>8. ASSUME NEW t \in Threads, NewTrampoline(t)
       PROVE DropInv'
  BY <1>8, AtWork DEF NewTrampoline, memory
<1>9. ASSUME NEW t \in Threads, NewError(t) \/ NewPanic(t)
       PROVE DropInv'
  BY <1>9, NewFailEffect
<1>10. ASSUME NEW t \in Threads, ToggleLock(t)
       PROVE DropInv'
  BY <1>10 DEF ToggleLock, objects, memory
<1>11. ASSUME NEW t \in Threads, ToggleCheck(t)
       PROVE DropInv'
  BY <1>11 DEF ToggleCheck, objects, memory
<1>12. ASSUME NEW t \in Threads, ToggleProtect(t)
       PROVE DropInv'
  BY <1>12, AtWork DEF ToggleProtect, objects
<1>13. ASSUME NEW t \in Threads, NEW c \in Cells, ToggleCopy(t, c)
       PROVE DropInv'
  BY <1>13, AtWork DEF ToggleCopy, objects
<1>14. ASSUME NEW t \in Threads, ToggleStore(t)
       PROVE DropInv'
  BY <1>14, AtWork DEF ToggleStore, memory
<1>15. ASSUME NEW t \in Threads, ToggleFlush(t)
       PROVE DropInv'
  BY <1>15, AtWork DEF ToggleFlush, objects
<1>16. ASSUME NEW t \in Threads, ToggleRestore(t)
       PROVE DropInv'
  BY <1>16, AtWork DEF ToggleRestore, objects
<1>17. ASSUME NEW t \in Threads, ToggleEnd(t)
       PROVE DropInv'
  BY <1>17, AtWork DEF ToggleEnd, ToggleReturn, objects, memory
<1>18. ASSUME NEW t \in Threads, DropRelay(t)
       PROVE DropInv'
  BY <1>18, AtWork DEF DropRelay, memory
<1>19. ASSUME NEW t \in Threads, DropTrampoline(t)
       PROVE DropInv'
  BY <1>19, AtWork DEF DropTrampoline, memory
<1>20. ASSUME NEW c \in Cells, Refill(c)
       PROVE DropInv'
  BY <1>20 DEF Refill, locals, objects
<1>21. CASE UNCHANGED vars
  BY <1>21 DEF vars
<1>22. ASSUME NEW t \in Threads, NewSameAddress(t)
       PROVE DropInv'
  BY <1>22 DEF NewSameAddress, vars
<1> HIDE DEF DropInv, TypeOK, ControlInv, LockInv, WorkInv, AloneInv, Goto, Return, Critical,
      NewSteps, ToggleSteps
<1> QED
  BY <1>1, <1>2, <1>3, <1>4, <1>5, <1>6, <1>7, <1>8, <1>9, <1>10, <1>11, <1>12,
     <1>13, <1>14, <1>15, <1>16, <1>17, <1>18, <1>19, <1>20, <1>21, <1>22,
     NextCases, Zenon

\* Blocks come and go with the steps of new and drop, each for the thread's object.
LEMMA HeldStep ==
  ASSUME TypeOK, ControlInv, HeldInv, [Next]_vars
  PROVE  HeldInv'
<1> USE DEF HeldInv, ObjectHeld, ThreadHeld, Relay, Trampoline, Complete, TypeOK, ControlInv,
      LockInv, WorkInv, AloneInv, Goto, Return, Critical, NewSteps, ToggleSteps
<1>1. ASSUME NEW t \in Threads, NEW d \in Detours, NewCall(t, d)
       PROVE HeldInv'
  <2>1. ASSUME NEW e \in Detours
        PROVE  ObjectHeld(e)'
    BY <1>1 DEF HeldInv, NewCall, objects, memory
  <2>2. ASSUME NEW u \in Threads
        PROVE  ThreadHeld(u)'
    BY <1>1 DEF HeldInv, NewCall, objects, memory
  <2> QED BY <2>1, <2>2 DEF HeldInv
<1>2. ASSUME NEW t \in Threads, NEW d \in Detours, NEW w \in BOOLEAN, ToggleCall(t, d, w)
       PROVE HeldInv'
  <2>1. ASSUME NEW e \in Detours
        PROVE  ObjectHeld(e)'
    BY <1>2 DEF HeldInv, ToggleCall, objects, memory
  <2>2. ASSUME NEW u \in Threads
        PROVE  ThreadHeld(u)'
    BY <1>2 DEF HeldInv, ToggleCall, objects, memory
  <2> QED BY <2>1, <2>2 DEF HeldInv
<1>3. ASSUME NEW t \in Threads, NEW d \in Detours, DropCall(t, d)
       PROVE HeldInv'
  <2>1. ASSUME NEW e \in Detours
        PROVE  ObjectHeld(e)'
    BY <1>3 DEF HeldInv, DropCall, objects, memory
  <2>2. ASSUME NEW u \in Threads
        PROVE  ThreadHeld(u)'
    BY <1>3 DEF HeldInv, DropCall, objects, memory
  <2> QED BY <2>1, <2>2 DEF HeldInv
<1>4. ASSUME NEW t \in Threads, NewLock(t)
       PROVE HeldInv'
  BY <1>4 DEF NewLock, objects, memory
<1>5. ASSUME NEW t \in Threads, NewPrepare(t)
       PROVE HeldInv'
  BY <1>5, AtWork DEF NewPrepare, memory
<1>6. ASSUME NEW t \in Threads, NewRelay(t)
       PROVE HeldInv'
  BY <1>6, AtWork DEF NewRelay, memory
<1>7. ASSUME NEW t \in Threads, NewPatcher(t)
       PROVE HeldInv'
  BY <1>7, AtWork DEF NewPatcher, memory
<1>8. ASSUME NEW t \in Threads, NewTrampoline(t)
       PROVE HeldInv'
  <2>1. ASSUME NEW e \in Detours
        PROVE  ObjectHeld(e)'
    BY <1>8, AtWork, Alone DEF HeldInv, NewTrampoline, objects, memory
  <2>2. ASSUME NEW u \in Threads
        PROVE  ThreadHeld(u)'
    BY <1>8, AtWork, Alone DEF HeldInv, NewTrampoline, objects, memory
  <2> QED BY <2>1, <2>2 DEF HeldInv
<1>9. ASSUME NEW t \in Threads, NewError(t) \/ NewPanic(t)
       PROVE HeldInv'
  <2>1. /\ cur[t] \in Detours /\ \A u \in Threads \ {t} : cur[u] # cur[t]
        /\ pc[t] \in NewSteps \cup {"newLock"}
        /\ pc' = [pc EXCEPT ![t] = "idle"] /\ cur' = [cur EXCEPT ![t] = NoDetour]
        /\ state' = [state EXCEPT ![cur[t]] = "none"]
    BY <1>9, NewFailEffect
  <2>2. held' = held \ {<<cur[t], "relay">>}
    BY <1>9 DEF NewError, NewPanic, NewFail
  <2>3. /\ \A e \in Detours \ {cur[t]} : (Relay(e)' <=> Relay(e)) /\ (Trampoline(e)' <=> Trampoline(e))
        /\ \A e \in Detours : e = cur[t] => ~Relay(e)' /\ ~Trampoline(e)'
    BY <2>1, <2>2
  <2>4. ASSUME NEW e \in Detours
        PROVE  ObjectHeld(e)'
    <3>1. (\E u \in Threads : cur[u] = e /\ pc[u] = "dropTrampoline")
            => (\E u \in Threads : cur[u] = e /\ pc[u] = "dropTrampoline")'
      BY <2>1
    <3>2. ObjectHeld(e)
      OBVIOUS
    <3>3. state'[e] = IF e = cur[t] THEN "none" ELSE state[e]
      BY <2>1
    <3>4. CASE e = cur[t]
      BY ONLY <2>3, <3>3, <3>4, e \in Detours DEF ObjectHeld, Relay, Trampoline
    <3>5. CASE e # cur[t]
      <4>1. (Relay(e)' <=> Relay(e)) /\ (Trampoline(e)' <=> Trampoline(e))
        BY <2>3, <3>5, Zenon
      <4>2. state'[e] = state[e]
        BY <3>3, <3>5
      <4> QED BY ONLY <3>1, <3>2, <4>1, <4>2 DEF ObjectHeld, Complete, Relay, Trampoline
    <3> QED BY <3>4, <3>5
  <2>5. ASSUME NEW u \in Threads
        PROVE  ThreadHeld(u)'
    BY <2>1, <2>3
  <2> QED BY <2>4, <2>5
<1>10. ASSUME NEW t \in Threads, ToggleLock(t)
       PROVE HeldInv'
  BY <1>10 DEF ToggleLock, objects, memory
<1>11. ASSUME NEW t \in Threads, ToggleCheck(t)
       PROVE HeldInv'
  BY <1>11 DEF ToggleCheck, objects, memory
<1>12. ASSUME NEW t \in Threads, ToggleProtect(t)
       PROVE HeldInv'
  BY <1>12, AtWork DEF ToggleProtect, objects
<1>13. ASSUME NEW t \in Threads, NEW c \in Cells, ToggleCopy(t, c)
       PROVE HeldInv'
  BY <1>13, AtWork DEF ToggleCopy, objects
<1>14. ASSUME NEW t \in Threads, ToggleStore(t)
       PROVE HeldInv'
  BY <1>14, AtWork DEF ToggleStore, memory
<1>15. ASSUME NEW t \in Threads, ToggleFlush(t)
       PROVE HeldInv'
  BY <1>15, AtWork DEF ToggleFlush, objects
<1>16. ASSUME NEW t \in Threads, ToggleRestore(t)
       PROVE HeldInv'
  BY <1>16, AtWork DEF ToggleRestore, objects
<1>17. ASSUME NEW t \in Threads, ToggleEnd(t)
       PROVE HeldInv'
  <2>1. /\ pc[t] # "dropTrampoline" /\ held' = held /\ state' = state
        /\ \A u \in Threads \ {t} : pc'[u] = pc[u] /\ cur'[u] = cur[u]
        /\ pc'[t] \in {"idle", "dropRelay"}
    BY <1>17 DEF ToggleEnd, ToggleReturn, objects
  <2>2. ASSUME NEW e \in Detours
        PROVE  ObjectHeld(e)'
    <3>1. (\E u \in Threads : cur[u] = e /\ pc[u] = "dropTrampoline")
            => (\E u \in Threads : cur[u] = e /\ pc[u] = "dropTrampoline")'
      BY ONLY <2>1, t \in Threads
    <3>2. ObjectHeld(e)
      OBVIOUS
    <3> QED BY ONLY <2>1, <3>1, <3>2 DEF ObjectHeld, Complete, Relay, Trampoline
  <2>3. ASSUME NEW u \in Threads
        PROVE  ThreadHeld(u)'
    BY <2>1
  <2> QED BY <2>2, <2>3
<1>18. ASSUME NEW t \in Threads, DropRelay(t)
       PROVE HeldInv'
  BY <1>18, AtWork DEF DropRelay, memory
<1>19. ASSUME NEW t \in Threads, DropTrampoline(t)
       PROVE HeldInv'
  <2>1. ASSUME NEW e \in Detours
        PROVE  ObjectHeld(e)'
    BY <1>19, AtWork, Alone DEF HeldInv, DropTrampoline, objects, memory
  <2>2. ASSUME NEW u \in Threads
        PROVE  ThreadHeld(u)'
    BY <1>19, AtWork, Alone DEF HeldInv, DropTrampoline, objects, memory
  <2> QED BY <2>1, <2>2 DEF HeldInv
<1>20. ASSUME NEW c \in Cells, Refill(c)
       PROVE HeldInv'
  BY <1>20 DEF Refill, locals, objects
<1>21. CASE UNCHANGED vars
  BY <1>21 DEF vars
<1>22. ASSUME NEW t \in Threads, NewSameAddress(t)
       PROVE HeldInv'
  BY <1>22 DEF NewSameAddress, vars
<1> HIDE DEF HeldInv, ObjectHeld, ThreadHeld, Relay, Trampoline, Complete, TypeOK, ControlInv,
      LockInv, WorkInv, AloneInv, Goto, Return, Critical, NewSteps, ToggleSteps
<1> QED
  BY <1>1, <1>2, <1>3, <1>4, <1>5, <1>6, <1>7, <1>8, <1>9, <1>10, <1>11, <1>12,
     <1>13, <1>14, <1>15, <1>16, <1>17, <1>18, <1>19, <1>20, <1>21, <1>22,
     NextCases, Zenon

\* Where every drop disables, no object is gone while it is enabled.
LEMMA TidyStep ==
  ASSUME ClientNests, DropsDisabled, TypeOK, ControlInv, FlagInv, StoreInv, DropInv, TidyInv,
        [Next]_vars
  PROVE  TidyInv'
<1> USE DEF DropsDisabled, TidyObject, TidyThread, TidyInv, FlagInv, StoreInv, DropInv, TypeOK,
      ControlInv, LockInv, WorkInv, AloneInv, Goto, Return, Critical, NewSteps, ToggleSteps
<1>1. ASSUME NEW t \in Threads, NEW d \in Detours, NewCall(t, d)
       PROVE TidyInv'
  BY <1>1 DEF NewCall, memory
<1>2. ASSUME NEW t \in Threads, NEW d \in Detours, NEW w \in BOOLEAN, ToggleCall(t, d, w)
       PROVE TidyInv'
  BY <1>2 DEF ToggleCall, objects, memory
<1>3. ASSUME NEW t \in Threads, NEW d \in Detours, DropCall(t, d)
       PROVE TidyInv'
  <2>1. /\ pc[t] = "idle" /\ cur' = [cur EXCEPT ![t] = d]
        /\ state' = [state EXCEPT ![d] = "dropping"] /\ enabled' = enabled
        /\ pc' = [pc EXCEPT ![t] = IF DebugAssertions THEN "toggleLock" ELSE "dropRelay"]
        /\ \A u \in Threads : cur[u] # d
        /\ poisoned' = poisoned
    BY <1>3 DEF DropCall
  <2>2. DebugAssertions \/ ~enabled[d]
    BY <1>3 DEF DropCall, MayDrop
  <2>3. ASSUME NEW e \in Detours
        PROVE  TidyObject(e)'
    <3>1. CASE e = d
      BY <2>1, <3>1
    <3>2. CASE e # d
      <4>1. TidyObject(e) /\ state'[e] = state[e] /\ cur[t] # e
        BY <2>1, <3>2
      <4>2. (\E u \in Threads : cur[u] = e) => \E u \in Threads : cur'[u] = e
        BY <2>1, <4>1
      <4> QED BY ONLY <4>1, <4>2 DEF TidyObject
    <3> QED BY <3>1, <3>2
  <2>4. ASSUME NEW u \in Threads
        PROVE  TidyThread(u)'
    BY <2>1, <2>2
  <2> QED BY <2>1, <2>3, <2>4
<1>4. ASSUME NEW t \in Threads, NewLock(t)
       PROVE TidyInv'
  BY <1>4 DEF NewLock, objects, memory
<1>5. ASSUME NEW t \in Threads, NewPrepare(t)
       PROVE TidyInv'
  BY <1>5, AtWork DEF NewPrepare, memory
<1>6. ASSUME NEW t \in Threads, NewRelay(t)
       PROVE TidyInv'
  BY <1>6, AtWork DEF NewRelay, memory
<1>7. ASSUME NEW t \in Threads, NewPatcher(t)
       PROVE TidyInv'
  BY <1>7, AtWork DEF NewPatcher, memory
<1>8. ASSUME NEW t \in Threads, NewTrampoline(t)
       PROVE TidyInv'
  BY <1>8, AtWork DEF NewTrampoline, memory
<1>9. ASSUME NEW t \in Threads, NewError(t) \/ NewPanic(t)
       PROVE TidyInv'
  <2>1. /\ cur[t] \in Detours /\ state[cur[t]] = "building"
        /\ \A u \in Threads \ {t} : cur[u] # cur[t]
        /\ pc' = [pc EXCEPT ![t] = "idle"] /\ cur' = [cur EXCEPT ![t] = NoDetour]
        /\ state' = [state EXCEPT ![cur[t]] = "none"] /\ enabled' = enabled
    BY <1>9, NewFailEffect
  <2>2. poisoned' => "emit" \in Failures
    BY <1>9, Zenon DEF NewError, NewPanic, NewFail
  <2>3. ASSUME NEW d \in Detours
        PROVE  TidyObject(d)'
    <3>1. CASE d = cur[t]
      BY <2>1, <3>1
    <3>2. CASE d # cur[t]
      <4>1. TidyObject(d) /\ state'[d] = state[d]
        BY <2>1, <3>2
      <4>2. (\E u \in Threads : cur[u] = d) => \E u \in Threads : cur'[u] = d
        BY <2>1, <3>2
      <4> QED BY ONLY <4>1, <4>2 DEF TidyObject
    <3> QED BY <3>1, <3>2
  <2>4. ASSUME NEW u \in Threads
        PROVE  TidyThread(u)'
    BY <2>1
  <2> QED BY <2>2, <2>3, <2>4
<1>10. ASSUME NEW t \in Threads, ToggleLock(t)
       PROVE TidyInv'
  BY <1>10 DEF ToggleLock, objects, memory
<1>11. ASSUME NEW t \in Threads, ToggleCheck(t)
       PROVE TidyInv'
  BY <1>11 DEF ToggleCheck, objects, memory
<1>12. ASSUME NEW t \in Threads, ToggleProtect(t)
       PROVE TidyInv'
  BY <1>12, AtWork DEF ToggleProtect, objects
<1>13. ASSUME NEW t \in Threads, NEW c \in Cells, ToggleCopy(t, c)
       PROVE TidyInv'
  BY <1>13, AtWork DEF ToggleCopy, objects
<1>14. ASSUME NEW t \in Threads, ToggleStore(t)
       PROVE TidyInv'
  BY <1>14, AtWork DEF ToggleStore, memory
<1>15. ASSUME NEW t \in Threads, ToggleFlush(t)
       PROVE TidyInv'
  BY <1>15, AtWork DEF ToggleFlush, objects
<1>16. ASSUME NEW t \in Threads, ToggleRestore(t)
       PROVE TidyInv'
  BY <1>16, AtWork DEF ToggleRestore, objects
<1>17. ASSUME NEW t \in Threads, ToggleEnd(t)
       PROVE TidyInv'
  <2>1. /\ pc[t] \in ToggleSteps \cup {"toggleLock"}
        /\ UNCHANGED <<state, enabled, poisoned>> /\ cur[t] \in Detours
        /\ \A u \in Threads \ {t} : pc'[u] = pc[u] /\ cur'[u] = cur[u]
        /\ IF state[cur[t]] = "dropping"
           THEN pc'[t] = "dropRelay" /\ cur'[t] = cur[t]
           ELSE pc'[t] = "idle"
    BY <1>17, AtWork DEF ToggleEnd, ToggleReturn, objects
  <2>2. ASSUME state[cur[t]] = "dropping"
        PROVE  ~enabled[cur[t]]
    <3>1. ~want[t] /\ DebugAssertions /\ "protect" \notin Failures /\ ~poisoned
      BY <2>1, <2>2
    <3>2. enabled[cur[t]] = want[t]
      BY <1>17, <3>1 DEF ToggleEnd
    <3> QED BY <3>1, <3>2
  <2>3. ASSUME NEW d \in Detours
        PROVE  TidyObject(d)'
    <3>1. TidyObject(d) /\ state'[d] = state[d]
      BY <2>1
    <3>2. state[d] = "dropping" /\ (\E u \in Threads : cur[u] = d) => \E u \in Threads : cur'[u] = d
      BY ONLY <2>1, t \in Threads
    <3> QED BY ONLY <3>1, <3>2 DEF TidyObject
  <2>4. ASSUME NEW u \in Threads
        PROVE  TidyThread(u)'
    BY <2>1, <2>2
  <2> QED BY <2>1, <2>3, <2>4
<1>18. ASSUME NEW t \in Threads, DropRelay(t)
       PROVE TidyInv'
  BY <1>18, AtWork DEF DropRelay, memory
<1>19. ASSUME NEW t \in Threads, DropTrampoline(t)
       PROVE TidyInv'
  <2>1. /\ cur[t] \in Detours /\ state[cur[t]] = "dropping" /\ ~enabled[cur[t]]
        /\ \A u \in Threads \ {t} : cur[u] # cur[t]
    BY <1>19, AtWork, Alone DEF DropTrampoline
  <2>2. /\ pc' = [pc EXCEPT ![t] = "idle"] /\ cur' = [cur EXCEPT ![t] = NoDetour]
        /\ state' = [state EXCEPT ![cur[t]] = "none"] /\ enabled' = enabled
        /\ poisoned' = poisoned
    BY <1>19, <2>1 DEF DropTrampoline
  <2>3. ASSUME NEW d \in Detours
        PROVE  TidyObject(d)'
    <3>1. CASE d = cur[t]
      BY <2>1, <2>2, <3>1
    <3>2. CASE d # cur[t]
      <4>1. TidyObject(d) /\ state'[d] = state[d]
        BY <2>1, <2>2, <3>2
      <4>2. (\E u \in Threads : cur[u] = d) => \E u \in Threads : cur'[u] = d
        BY <2>1, <2>2, <3>2
      <4> QED BY ONLY <4>1, <4>2 DEF TidyObject
    <3> QED BY <3>1, <3>2
  <2>4. ASSUME NEW u \in Threads
        PROVE  TidyThread(u)'
    BY <2>1, <2>2
  <2> QED BY <2>2, <2>3, <2>4
<1>20. ASSUME NEW c \in Cells, Refill(c)
       PROVE TidyInv'
  BY <1>20 DEF Refill, locals, objects
<1>21. CASE UNCHANGED vars
  BY <1>21 DEF vars
<1>22. ASSUME NEW t \in Threads, NewSameAddress(t)
       PROVE TidyInv'
  BY <1>22 DEF NewSameAddress, vars
<1> HIDE DEF DropsDisabled, TidyObject, TidyThread, TidyInv, FlagInv, StoreInv, DropInv,
      TypeOK, ControlInv, LockInv, WorkInv, AloneInv, Goto, Return, Critical, NewSteps,
      ToggleSteps
<1> QED
  BY <1>1, <1>2, <1>3, <1>4, <1>5, <1>6, <1>7, <1>8, <1>9, <1>10, <1>11, <1>12,
     <1>13, <1>14, <1>15, <1>16, <1>17, <1>18, <1>19, <1>20, <1>21, <1>22,
     NextCases, Zenon

\* The newest enabled detour over a cell is unique.
LEMMA TopUnique ==
  ASSUME TypeOK, OrderInv, NEW D \in SUBSET Detours, NEW x, NEW y, TopOf(D, x), TopOf(D, y)
  PROVE  x = y
  BY DEF TypeOK, OrderInv, TopOf

\* A cell that a toggle has yet to copy holds the detour's jump or what it saved.
LEMMA BeforeCopy ==
  ASSUME TypeOK, ControlInv, QuietInv, StackInv,
         NEW t \in Threads, NEW d \in Detours, cur[t] = d, pc[t] = "toggleCopy",
         NEW c \in Area[d]
  PROVE  code[c] \in {d, original[d][c]}
<1>1. Present(d) /\ Captured(d) /\ \A e \in Detours : d \notin older[e]
  BY DEF ControlInv, WorkInv, ToggleSteps, Present, Captured, QuietInv, Newest
<1>2. \A e \in OnOver(Detours, c) : e = d \/ e \in older[d]
  <2> SUFFICES ASSUME NEW e \in Detours, e # d, c \in Area[e], Present(e)
               PROVE  e \in older[d]
    BY DEF OnOver
  <2>1. Overlap(d, e)
    BY DEF Overlap, Touched
  <2> QED BY <1>1, <2>1 DEF StackInv, OrderInv
<1>3. c \in Cells /\ TopOf(OnOver(Detours, c), code[c])
  BY DEF StackInv, CodeInv
<1>4. CASE On(d, c)
  <2>1. d \in OnOver(Detours, c)
    BY <1>1, <1>4 DEF OnOver
  <2>2. TopOf(OnOver(Detours, c), d)
    BY <1>2, <2>1 DEF TopOf
  <2>3. OnOver(Detours, c) \in SUBSET Detours
    BY DEF OnOver
  <2> QED BY <1>3, <2>2, <2>3, TopUnique DEF StackInv
<1>5. CASE ~On(d, c)
  <2>1. older[d] \in SUBSET Detours
    BY DEF TypeOK
  <2>2. OnOver(Detours, c) = OnOver(older[d], c)
    BY <1>2, <1>5, <2>1 DEF OnOver
  <2>3. TopOf(OnOver(older[d], c), original[d][c])
    BY <1>1 DEF StackInv, SavedInv
  <2>4. OnOver(older[d], c) \in SUBSET Detours
    BY <2>1 DEF OnOver
  <2> QED BY <1>3, <2>2, <2>3, <2>4, TopUnique DEF StackInv
<1> QED BY <1>4, <1>5

\* What a toggle overwrites is the detour's jump or what it saved; so is what the
\* cache still holds until the flush.
LEMMA StaleStep ==
  ASSUME TypeOK, ControlInv, ProtInv, QuietInv, StackInv, StaleInv, [Next]_vars
  PROVE  StaleInv'
<1> USE DEF StaleInv, TypeOK, ControlInv, LockInv, WorkInv, AloneInv, Goto, Return, Critical,
      NewSteps, ToggleSteps
<1>1. ASSUME NEW t \in Threads, NEW d \in Detours, NewCall(t, d)
       PROVE StaleInv'
  BY <1>1 DEF NewCall, memory
<1>2. ASSUME NEW t \in Threads, NEW d \in Detours, NEW w \in BOOLEAN, ToggleCall(t, d, w)
       PROVE StaleInv'
  BY <1>2 DEF ToggleCall, objects, memory
<1>3. ASSUME NEW t \in Threads, NEW d \in Detours, DropCall(t, d)
       PROVE StaleInv'
  BY <1>3 DEF DropCall, memory
<1>4. ASSUME NEW t \in Threads, NewLock(t)
       PROVE StaleInv'
  BY <1>4 DEF NewLock, objects, memory
<1>5. ASSUME NEW t \in Threads, NewPrepare(t)
       PROVE StaleInv'
  BY <1>5, AtWork DEF NewPrepare, memory
<1>6. ASSUME NEW t \in Threads, NewRelay(t)
       PROVE StaleInv'
  BY <1>6, AtWork DEF NewRelay, memory
<1>7. ASSUME NEW t \in Threads, NewPatcher(t)
       PROVE StaleInv'
  <2> SUFFICES ASSUME NEW c \in Cells, icache[c] # code[c]
               PROVE  \E u \in Threads : /\ pc'[u] \in {"toggleCopy", "toggleFlush"}
                                         /\ c \in Area[cur'[u]]
                                         /\ icache'[c] \in {cur'[u], original'[cur'[u]][c]}
    BY <1>7 DEF NewPatcher, memory
  <2>1. PICK u \in Threads : /\ pc[u] \in {"toggleCopy", "toggleFlush"}
                             /\ c \in Area[cur[u]]
                             /\ icache[c] \in {cur[u], original[cur[u]][c]}
    OBVIOUS
  <2>2. u # t /\ cur[u] # cur[t] /\ cur[u] \in Detours /\ cur[t] \in Detours
    BY <1>7, <2>1, AtWork, Alone DEF NewPatcher
  <2>3. pc'[u] = pc[u] /\ cur'[u] = cur[u] /\ original'[cur[u]] = original[cur[u]] /\ icache' = icache
    BY <1>7, <2>2 DEF NewPatcher, memory
  <2> QED BY <2>1, <2>3
<1>8. ASSUME NEW t \in Threads, NewTrampoline(t)
       PROVE StaleInv'
  BY <1>8, AtWork DEF NewTrampoline, memory
<1>9. ASSUME NEW t \in Threads, NewError(t) \/ NewPanic(t)
       PROVE StaleInv'
  <2> SUFFICES ASSUME NEW c \in Cells, icache[c] # code[c]
               PROVE  \E u \in Threads : /\ pc'[u] \in {"toggleCopy", "toggleFlush"}
                                         /\ c \in Area[cur'[u]]
                                         /\ icache'[c] \in {cur'[u], original'[cur'[u]][c]}
    BY <1>9, NewFailEffect
  <2>1. PICK u \in Threads : /\ pc[u] \in {"toggleCopy", "toggleFlush"}
                             /\ c \in Area[cur[u]]
                             /\ icache[c] \in {cur[u], original[cur[u]][c]}
    OBVIOUS
  <2>2. u # t /\ cur[u] # cur[t] /\ cur[u] \in Detours /\ cur[t] \in Detours
    BY <1>9, <2>1, AtWork, NewFailEffect
  <2>3. pc'[u] = pc[u] /\ cur'[u] = cur[u] /\ original'[cur[u]] = original[cur[u]] /\ icache' = icache
    BY <1>9, <2>2, NewFailEffect
  <2> QED BY <2>1, <2>3
<1>10. ASSUME NEW t \in Threads, ToggleLock(t)
       PROVE StaleInv'
  BY <1>10 DEF ToggleLock, objects, memory
<1>11. ASSUME NEW t \in Threads, ToggleCheck(t)
       PROVE StaleInv'
  BY <1>11 DEF ToggleCheck, objects, memory
<1>12. ASSUME NEW t \in Threads, ToggleProtect(t)
       PROVE StaleInv'
  BY <1>12, AtWork DEF ToggleProtect, objects
<1>13. ASSUME NEW t \in Threads, NEW c \in Cells, ToggleCopy(t, c)
       PROVE StaleInv'
  <2>1. PICK d \in Detours : cur[t] = d
    BY <1>13, AtWork DEF ToggleCopy
  <2>2. /\ pc[t] = "toggleCopy" /\ c \in Area[d]
        /\ \A b \in Cells \ {c} : code'[b] = code[b] /\ icache'[b] = icache[b]
        /\ icache'[c] \in {icache[c], code'[c]}
        /\ UNCHANGED <<pc, cur, original>>
    BY <1>13, <2>1 DEF ToggleCopy, objects, ProtInv, Writing
  <2>3. \A u \in Threads : pc[u] \in {"toggleCopy", "toggleFlush"} => u = t
    BY <2>2
  <2>4. icache[c] \in {d, original[d][c]}
    <3>1. code[c] \in {d, original[d][c]}
      BY <2>1, <2>2, BeforeCopy
    <3>2. icache[c] = code[c] \/ icache[c] \in {d, original[d][c]}
      BY <2>1, <2>3
    <3> QED BY <3>1, <3>2
  <2>5. \A b \in Cells : icache[b] # code[b] => b \in Area[d] /\ icache[b] \in {d, original[d][b]}
    BY <2>1, <2>3
  <2> SUFFICES ASSUME NEW b \in Cells, icache'[b] # code'[b]
               PROVE  b \in Area[d] /\ icache'[b] \in {d, original[d][b]}
    BY <2>1, <2>2
  <2>6. CASE b = c
    BY <2>2, <2>4, <2>6
  <2>7. CASE b # c
    BY <2>2, <2>5, <2>7
  <2> QED BY <2>6, <2>7
<1>14. ASSUME NEW t \in Threads, ToggleStore(t)
       PROVE StaleInv'
  BY <1>14, AtWork DEF ToggleStore, memory
<1>15. ASSUME NEW t \in Threads, ToggleFlush(t)
       PROVE StaleInv'
  BY <1>15, AtWork DEF ToggleFlush, objects
<1>16. ASSUME NEW t \in Threads, ToggleRestore(t)
       PROVE StaleInv'
  BY <1>16, AtWork DEF ToggleRestore, objects
<1>17. ASSUME NEW t \in Threads, ToggleEnd(t)
       PROVE StaleInv'
  BY <1>17, AtWork DEF ToggleEnd, ToggleReturn, objects, memory
<1>18. ASSUME NEW t \in Threads, DropRelay(t)
       PROVE StaleInv'
  BY <1>18, AtWork DEF DropRelay, memory
<1>19. ASSUME NEW t \in Threads, DropTrampoline(t)
       PROVE StaleInv'
  <2> SUFFICES ASSUME NEW c \in Cells, icache[c] # code[c]
               PROVE  \E u \in Threads : /\ pc'[u] \in {"toggleCopy", "toggleFlush"}
                                         /\ c \in Area[cur'[u]]
                                         /\ icache'[c] \in {cur'[u], original'[cur'[u]][c]}
    BY <1>19 DEF DropTrampoline, memory
  <2>1. PICK u \in Threads : /\ pc[u] \in {"toggleCopy", "toggleFlush"}
                             /\ c \in Area[cur[u]]
                             /\ icache[c] \in {cur[u], original[cur[u]][c]}
    OBVIOUS
  <2>2. u # t /\ cur[u] # cur[t] /\ cur[u] \in Detours /\ cur[t] \in Detours
    BY <1>19, <2>1, AtWork, Alone DEF DropTrampoline
  <2>3. pc'[u] = pc[u] /\ cur'[u] = cur[u] /\ original'[cur[u]] = original[cur[u]] /\ icache' = icache
    BY <1>19, <2>2 DEF DropTrampoline, memory
  <2> QED BY <2>1, <2>3
<1>20. ASSUME NEW c \in Cells, Refill(c)
       PROVE StaleInv'
  BY <1>20 DEF Refill, locals, objects
<1>21. CASE UNCHANGED vars
  BY <1>21 DEF vars
<1>22. ASSUME NEW t \in Threads, NewSameAddress(t)
       PROVE StaleInv'
  BY <1>22 DEF NewSameAddress, vars
<1> HIDE DEF StaleInv, TypeOK, ControlInv, LockInv, WorkInv, AloneInv, Goto, Return, Critical,
      NewSteps, ToggleSteps
<1> QED
  BY <1>1, <1>2, <1>3, <1>4, <1>5, <1>6, <1>7, <1>8, <1>9, <1>10, <1>11, <1>12,
     <1>13, <1>14, <1>15, <1>16, <1>17, <1>18, <1>19, <1>20, <1>21, <1>22,
     NextCases, Zenon

\* What a trampoline has relocated overlaps it, is not being toggled or dropped,
\* and a client that nests may neither toggle nor drop it.
LEMMA BuiltBusy ==
  ASSUME TypeOK, ControlInv, QuietInv, BuiltInv,
         NEW e \in Detours, NEW c \in Prolog[e], NEW x \in Detours, built[e][c] = x
  PROVE  /\ enabled[x] /\ state[x] = "live"
         /\ \A u \in Threads : pc[u] \in ToggleSteps => cur[u] # x
         /\ ~(Newest(x) /\ Undisturbed(x))
<1>1. Beneath(x, e, c)
  BY DEF BuiltInv
<1>2. Overlap(x, e) /\ Overlap(e, x)
  BY <1>1 DEF Beneath, Overlap, Touched
<1>3. CASE x \in older[e]
  BY <1>1, <1>3 DEF Beneath, QuietInv, Newest
<1>4. CASE Building(e)
  <2>1. PICK t \in Threads : cur[t] = e
    BY <1>4 DEF Building
  <2> QED BY <1>1, <1>2, <2>1 DEF Beneath, QuietInv, Undisturbed
<1> QED BY <1>1, <1>3, <1>4 DEF Beneath

\* A step that leaves the trampolines, and the detours they rely on, as they are.
LEMMA BuiltFrame ==
  ASSUME BuiltInv, UNCHANGED <<built, older>>,
         \A e \in Detours : Building(e) => Building(e)',
         \A e, x \in Detours : \A c \in Prolog[e] :
           built[e][c] = x /\ enabled[x] /\ state[x] = "live"
             => enabled'[x] /\ state'[x] = "live"
  PROVE  BuiltInv'
<1> SUFFICES ASSUME NEW e \in Detours, NEW c \in Prolog[e], built[e][c] # Orig
             PROVE  Beneath(built[e][c], e, c)'
  BY DEF BuiltInv
<1>1. Beneath(built[e][c], e, c)
  BY DEF BuiltInv
<1> QED BY <1>1 DEF Beneath

\* The builder reads the jumps of detours that are enabled and that nobody is at
\* work on.
LEMMA BuiltPrepare ==
  ASSUME TypeOK, ControlInv, QuietInv, StackInv, TidyInv, BuiltInv,
         NEW t \in Threads, NewPrepare(t)
  PROVE  BuiltInv'
<1>1. PICK d \in Detours : cur[t] = d
  BY AtWork DEF NewPrepare
<1>2. /\ pc[t] = "newPrepare" /\ pc' = [pc EXCEPT ![t] = "newRelay"]
      /\ built' = [built EXCEPT ![d] = code]
      /\ UNCHANGED <<cur, enabled, state, older, code>>
  BY <1>1 DEF NewPrepare, Goto, memory
<1>3. Building(d)' /\ \A e \in Detours : Building(e) => Building(e)'
  BY <1>1, <1>2 DEF Building, TypeOK
<1>4. ASSUME NEW c \in Prolog[d], code[c] # Orig
      PROVE  Beneath(code[c], d, c)'
  <2>1. c \in Cells /\ TopOf(OnOver(Detours, c), code[c])
    BY DEF StackInv, CodeInv
  <2>2. PICK x \in OnOver(Detours, c) : code[c] = x
    BY <1>4, <2>1 DEF TopOf
  <2>3. x \in Detours /\ c \in Area[x] /\ Present(x) /\ On(x, c)
    BY <2>2 DEF OnOver
  <2>4. x # d
    BY <1>1, <1>2, <2>3 DEF Present, ControlInv, WorkInv, NewSteps
  <2>5. \A u \in Threads : cur[u] # x
    BY <1>1, <2>3, <2>4 DEF QuietInv, Overlap, Touched
  <2>6. enabled[x]
    BY <2>3, <2>5 DEF On, Copied
  <2>7. state[x] = "live"
    <3>1. state[x] # "dangling" /\ state[x] # "dropping"
      BY <2>3, <2>5, Zenon DEF TidyInv, TidyObject
    <3> QED BY <2>3, <3>1 DEF Present
  <2> QED BY <1>2, <1>3, <2>2, <2>3, <2>4, <2>6, <2>7 DEF Beneath
<1>5. ASSUME NEW e \in Detours, e # d, NEW c \in Prolog[e], built[e][c] # Orig
      PROVE  Beneath(built[e][c], e, c)'
  <2>1. Beneath(built[e][c], e, c)
    BY <1>5 DEF BuiltInv
  <2>2. built'[e] = built[e]
    BY <1>2, <1>5 DEF TypeOK
  <2> QED BY <1>2, <1>3, <2>1, <2>2 DEF Beneath
<1>6. SUFFICES ASSUME NEW e \in Detours, NEW c \in Prolog[e], built'[e][c] # Orig
               PROVE  Beneath(built[e][c], e, c)'
  BY DEF BuiltInv
<1>7. CASE e = d
  <2>1. built'[e] = code
    BY <1>2, <1>7 DEF TypeOK
  <2>2. code[c] # Orig /\ Beneath(code[c], d, c)'
    BY <1>4, <1>6, <1>7, <2>1
  <2> QED BY <1>2, <1>7, <2>1, <2>2 DEF Beneath
<1>8. CASE e # d
  <2>1. built'[e] = built[e]
    BY <1>2, <1>8 DEF TypeOK
  <2> QED BY <1>5, <1>6, <1>8, <2>1
<1> QED BY <1>7, <1>8

\* The patcher records the detours beneath before the builder's thread moves on.
LEMMA BuiltPatcher ==
  ASSUME TypeOK, ControlInv, BuiltInv, NEW t \in Threads, NewPatcher(t)
  PROVE  BuiltInv'
<1>1. PICK d \in Detours : cur[t] = d
  BY AtWork DEF NewPatcher
<1>2. /\ pc[t] = "newPatcher" /\ pc' = [pc EXCEPT ![t] = "newTrampoline"]
      /\ older' = [older EXCEPT ![d] = {e \in Detours : Overlap(d, e) /\ Present(e)}]
      /\ UNCHANGED <<cur, enabled, state, built>>
  BY <1>1 DEF NewPatcher, Goto
<1>3. SUFFICES ASSUME NEW e \in Detours, NEW c \in Prolog[e], built[e][c] # Orig
               PROVE  Beneath(built[e][c], e, c)'
  BY <1>2 DEF BuiltInv
<1>4. Beneath(built[e][c], e, c)
  BY <1>3 DEF BuiltInv
<1>5. CASE e = d
  <2>1. Overlap(d, built[e][c]) /\ Present(built[e][c])
    BY <1>4, <1>5 DEF Beneath, Overlap, Touched, Present
  <2>2. built[e][c] \in older'[e]
    BY <1>2, <1>4, <1>5, <2>1 DEF TypeOK, Beneath
  <2> QED BY <1>2, <1>4, <2>2 DEF Beneath
<1>6. CASE e # d
  <2>1. older'[e] = older[e]
    BY <1>2, <1>6 DEF TypeOK
  <2>2. Building(e) => Building(e)'
    BY <1>1, <1>2, <1>6 DEF Building, TypeOK
  <2> QED BY <1>2, <1>4, <2>1, <2>2 DEF Beneath
<1> QED BY <1>5, <1>6

\* A detour that is gone leaves no trampoline, and none relied on it.
LEMMA BuiltForget ==
  ASSUME TypeOK, ControlInv, BuiltInv, NEW t \in Threads, NEW d \in Detours,
         cur[t] = d, state[d] # "live",
         pc' = [pc EXCEPT ![t] = "idle"], cur' = [cur EXCEPT ![t] = NoDetour],
         state' = [state EXCEPT ![d] = "none"], enabled' = enabled,
         built' = [built EXCEPT ![d] = Pristine], older' = [older EXCEPT ![d] = {}]
  PROVE  BuiltInv'
<1>1. SUFFICES ASSUME NEW e \in Detours, NEW c \in Prolog[e], built'[e][c] # Orig
               PROVE  Beneath(built[e][c], e, c)'
  BY DEF BuiltInv
<1>2. e # d
  BY <1>1 DEF TypeOK, Pristine
<1>3. built'[e] = built[e] /\ older'[e] = older[e]
  BY <1>2 DEF TypeOK
<1>4. Beneath(built[e][c], e, c)
  BY <1>1, <1>3 DEF BuiltInv
<1>5. state'[built[e][c]] = state[built[e][c]]
  BY <1>4 DEF Beneath, TypeOK
<1>6. Building(e) => Building(e)'
  BY <1>2 DEF Building, TypeOK
<1> QED BY <1>3, <1>4, <1>5, <1>6 DEF Beneath

\* The jumps a trampoline relocates stay those of older detours that are enabled.
LEMMA BuiltStep ==
  ASSUME ClientNests, TypeOK, ControlInv, FlagInv, QuietInv, StackInv, TidyInv, BuiltInv,
        [Next]_vars
  PROVE  BuiltInv'
<1>1. ASSUME NEW t \in Threads, NEW d \in Detours, NewCall(t, d)
       PROVE BuiltInv'
  <2>1. \A e \in Detours : Building(e) => Building(e)'
    BY <1>1 DEF Building, TypeOK, NewCall, Goto, Return
  <2>2. UNCHANGED <<built, older>>
    BY <1>1 DEF NewCall
  <2>3. ASSUME NEW x \in Detours, state[x] = "live", enabled[x]
        PROVE  enabled'[x] /\ state'[x] = "live"
    BY <1>1, <2>3 DEF NewCall, TypeOK
  <2> QED BY <2>1, <2>2, <2>3, BuiltFrame
<1>2. ASSUME NEW t \in Threads, NEW d \in Detours, NEW w \in BOOLEAN, ToggleCall(t, d, w)
       PROVE BuiltInv'
  <2>1. \A e \in Detours : Building(e) => Building(e)'
    BY <1>2 DEF Building, TypeOK, ToggleCall, objects, Goto, Return
  <2>2. UNCHANGED <<built, older>>
    BY <1>2 DEF ToggleCall, objects
  <2>3. ASSUME NEW x \in Detours, state[x] = "live", enabled[x]
        PROVE  enabled'[x] /\ state'[x] = "live"
    BY <1>2, <2>3 DEF ToggleCall, objects, TypeOK
  <2> QED BY <2>1, <2>2, <2>3, BuiltFrame
<1>3. ASSUME NEW t \in Threads, NEW d \in Detours, DropCall(t, d)
       PROVE BuiltInv'
  <2>1. \A e \in Detours : Building(e) => Building(e)'
    BY <1>3, AtWork DEF Building, TypeOK, DropCall, Goto, Return, ControlInv, WorkInv
  <2>2. UNCHANGED <<built, older>>
    BY <1>3 DEF DropCall
  <2>3. ASSUME NEW e \in Detours, NEW x \in Detours, NEW c \in Prolog[e], built[e][c] = x
        PROVE  enabled'[x] /\ state'[x] = "live"
    <3>1. /\ enabled[x] /\ state[x] = "live"
          /\ \A u \in Threads : pc[u] \in ToggleSteps => cur[u] # x
          /\ ~(Newest(x) /\ Undisturbed(x))
      BY <2>3, BuiltBusy
    <3> QED BY <1>3, <3>1, AtWork DEF DropCall, TypeOK, ToggleSteps, MayDrop, ControlInv,
          WorkInv, NewSteps
  <2> QED BY <2>1, <2>2, <2>3, BuiltFrame
<1>4. ASSUME NEW t \in Threads, NewLock(t)
       PROVE BuiltInv'
  <2>1. \A e \in Detours : Building(e) => Building(e)'
    BY <1>4 DEF Building, TypeOK, NewLock, objects, Goto, Return
  <2>2. UNCHANGED <<built, older>>
    BY <1>4 DEF NewLock, objects
  <2>3. ASSUME NEW x \in Detours, state[x] = "live", enabled[x]
        PROVE  enabled'[x] /\ state'[x] = "live"
    BY <1>4, <2>3 DEF NewLock, objects, TypeOK
  <2> QED BY <2>1, <2>2, <2>3, BuiltFrame
<1>5. ASSUME NEW t \in Threads, NewPrepare(t)
       PROVE BuiltInv'
  BY <1>5, BuiltPrepare
<1>6. ASSUME NEW t \in Threads, NewRelay(t)
       PROVE BuiltInv'
  <2>1. \A e \in Detours : Building(e) => Building(e)'
    BY <1>6 DEF Building, TypeOK, NewRelay, Goto, Return
  <2>2. UNCHANGED <<built, older>>
    BY <1>6 DEF NewRelay
  <2>3. ASSUME NEW x \in Detours, state[x] = "live", enabled[x]
        PROVE  enabled'[x] /\ state'[x] = "live"
    BY <1>6, <2>3 DEF NewRelay, TypeOK
  <2> QED BY <2>1, <2>2, <2>3, BuiltFrame
<1>7. ASSUME NEW t \in Threads, NewPatcher(t)
       PROVE BuiltInv'
  BY <1>7, BuiltPatcher
<1>8. ASSUME NEW t \in Threads, NewTrampoline(t)
       PROVE BuiltInv'
  <2>1. \A e \in Detours : Building(e) => Building(e)'
    BY <1>8, AtWork DEF Building, TypeOK, NewTrampoline, Goto, Return, ControlInv, WorkInv
  <2>2. UNCHANGED <<built, older>>
    BY <1>8 DEF NewTrampoline
  <2>3. ASSUME NEW e \in Detours, NEW x \in Detours, NEW c \in Prolog[e], built[e][c] = x
        PROVE  enabled'[x] /\ state'[x] = "live"
    <3>1. /\ enabled[x] /\ state[x] = "live"
          /\ \A u \in Threads : pc[u] \in ToggleSteps => cur[u] # x
          /\ ~(Newest(x) /\ Undisturbed(x))
      BY <2>3, BuiltBusy
    <3> QED BY <1>8, <3>1, AtWork DEF NewTrampoline, TypeOK, ToggleSteps, MayDrop, ControlInv,
          WorkInv, NewSteps
  <2> QED BY <2>1, <2>2, <2>3, BuiltFrame
<1>9. ASSUME NEW t \in Threads, NewError(t) \/ NewPanic(t)
       PROVE BuiltInv'
  <2>1. PICK d \in Detours : cur[t] = d
    BY <1>9, NewFailEffect
  <2>2. state[d] = "building"
    BY <1>9, <2>1, NewFailEffect
  <2> QED BY <1>9, <2>1, <2>2, NewFailEffect, BuiltForget
<1>10. ASSUME NEW t \in Threads, ToggleLock(t)
       PROVE BuiltInv'
  <2>1. \A e \in Detours : Building(e) => Building(e)'
    BY <1>10 DEF Building, TypeOK, ToggleLock, objects, Goto, Return
  <2>2. UNCHANGED <<built, older>>
    BY <1>10 DEF ToggleLock, objects
  <2>3. ASSUME NEW x \in Detours, state[x] = "live", enabled[x]
        PROVE  enabled'[x] /\ state'[x] = "live"
    BY <1>10, <2>3 DEF ToggleLock, objects, TypeOK
  <2> QED BY <2>1, <2>2, <2>3, BuiltFrame
<1>11. ASSUME NEW t \in Threads, ToggleCheck(t)
       PROVE BuiltInv'
  <2>1. \A e \in Detours : Building(e) => Building(e)'
    BY <1>11 DEF Building, TypeOK, ToggleCheck, objects, Goto, Return
  <2>2. UNCHANGED <<built, older>>
    BY <1>11 DEF ToggleCheck, objects
  <2>3. ASSUME NEW x \in Detours, state[x] = "live", enabled[x]
        PROVE  enabled'[x] /\ state'[x] = "live"
    BY <1>11, <2>3 DEF ToggleCheck, objects, TypeOK
  <2> QED BY <2>1, <2>2, <2>3, BuiltFrame
<1>12. ASSUME NEW t \in Threads, ToggleProtect(t)
       PROVE BuiltInv'
  <2>1. \A e \in Detours : Building(e) => Building(e)'
    BY <1>12 DEF Building, TypeOK, ToggleProtect, objects, Goto, Return
  <2>2. UNCHANGED <<built, older>>
    BY <1>12 DEF ToggleProtect, objects
  <2>3. ASSUME NEW x \in Detours, state[x] = "live", enabled[x]
        PROVE  enabled'[x] /\ state'[x] = "live"
    BY <1>12, <2>3 DEF ToggleProtect, objects, TypeOK
  <2> QED BY <2>1, <2>2, <2>3, BuiltFrame
<1>13. ASSUME NEW t \in Threads, NEW c \in Cells, ToggleCopy(t, c)
       PROVE BuiltInv'
  <2>1. \A e \in Detours : Building(e) => Building(e)'
    BY <1>13 DEF Building, TypeOK, ToggleCopy, objects, Goto, Return
  <2>2. UNCHANGED <<built, older>>
    BY <1>13 DEF ToggleCopy, objects
  <2>3. ASSUME NEW x \in Detours, state[x] = "live", enabled[x]
        PROVE  enabled'[x] /\ state'[x] = "live"
    BY <1>13, <2>3 DEF ToggleCopy, objects, TypeOK
  <2> QED BY <2>1, <2>2, <2>3, BuiltFrame
<1>14. ASSUME NEW t \in Threads, ToggleStore(t)
       PROVE BuiltInv'
  <2>1. \A e \in Detours : Building(e) => Building(e)'
    BY <1>14, AtWork DEF Building, TypeOK, ToggleStore, Goto, Return, ControlInv, WorkInv
  <2>2. UNCHANGED <<built, older>>
    BY <1>14 DEF ToggleStore
  <2>3. ASSUME NEW e \in Detours, NEW x \in Detours, NEW c \in Prolog[e], built[e][c] = x
        PROVE  enabled'[x] /\ state'[x] = "live"
    <3>1. /\ enabled[x] /\ state[x] = "live"
          /\ \A u \in Threads : pc[u] \in ToggleSteps => cur[u] # x
          /\ ~(Newest(x) /\ Undisturbed(x))
      BY <2>3, BuiltBusy
    <3> QED BY <1>14, <3>1, AtWork DEF ToggleStore, TypeOK, ToggleSteps, MayDrop, ControlInv,
          WorkInv, NewSteps
  <2> QED BY <2>1, <2>2, <2>3, BuiltFrame
<1>15. ASSUME NEW t \in Threads, ToggleFlush(t)
       PROVE BuiltInv'
  <2>1. \A e \in Detours : Building(e) => Building(e)'
    BY <1>15 DEF Building, TypeOK, ToggleFlush, objects, Goto, Return
  <2>2. UNCHANGED <<built, older>>
    BY <1>15 DEF ToggleFlush, objects
  <2>3. ASSUME NEW x \in Detours, state[x] = "live", enabled[x]
        PROVE  enabled'[x] /\ state'[x] = "live"
    BY <1>15, <2>3 DEF ToggleFlush, objects, TypeOK
  <2> QED BY <2>1, <2>2, <2>3, BuiltFrame
<1>16. ASSUME NEW t \in Threads, ToggleRestore(t)
       PROVE BuiltInv'
  <2>1. \A e \in Detours : Building(e) => Building(e)'
    BY <1>16 DEF Building, TypeOK, ToggleRestore, objects, Goto, Return
  <2>2. UNCHANGED <<built, older>>
    BY <1>16 DEF ToggleRestore, objects
  <2>3. ASSUME NEW x \in Detours, state[x] = "live", enabled[x]
        PROVE  enabled'[x] /\ state'[x] = "live"
    BY <1>16, <2>3 DEF ToggleRestore, objects, TypeOK
  <2> QED BY <2>1, <2>2, <2>3, BuiltFrame
<1>17. ASSUME NEW t \in Threads, ToggleEnd(t)
       PROVE BuiltInv'
  <2>1. \A e \in Detours : Building(e) => Building(e)'
    BY <1>17 DEF Building, TypeOK, ToggleEnd, ToggleReturn, objects, Goto, Return
  <2>2. UNCHANGED <<built, older>>
    BY <1>17 DEF ToggleEnd, ToggleReturn, objects
  <2>3. ASSUME NEW x \in Detours, state[x] = "live", enabled[x]
        PROVE  enabled'[x] /\ state'[x] = "live"
    BY <1>17, <2>3 DEF ToggleEnd, ToggleReturn, objects, TypeOK
  <2> QED BY <2>1, <2>2, <2>3, BuiltFrame
<1>18. ASSUME NEW t \in Threads, DropRelay(t)
       PROVE BuiltInv'
  <2>1. \A e \in Detours : Building(e) => Building(e)'
    BY <1>18 DEF Building, TypeOK, DropRelay, Goto, Return
  <2>2. UNCHANGED <<built, older>>
    BY <1>18 DEF DropRelay
  <2>3. ASSUME NEW x \in Detours, state[x] = "live", enabled[x]
        PROVE  enabled'[x] /\ state'[x] = "live"
    BY <1>18, <2>3 DEF DropRelay, TypeOK
  <2> QED BY <2>1, <2>2, <2>3, BuiltFrame
<1>19. ASSUME NEW t \in Threads, DropTrampoline(t)
       PROVE BuiltInv'
  <2>1. PICK d \in Detours : cur[t] = d
    BY <1>19, AtWork DEF DropTrampoline
  <2>2. state[d] = "dropping" /\ ~enabled[d]
    BY <1>19, <2>1 DEF DropTrampoline, ControlInv, WorkInv, TidyInv, TidyThread
  <2>3. /\ pc' = [pc EXCEPT ![t] = "idle"] /\ cur' = [cur EXCEPT ![t] = NoDetour]
        /\ state' = [state EXCEPT ![d] = "none"] /\ enabled' = enabled
        /\ built' = [built EXCEPT ![d] = Pristine] /\ older' = [older EXCEPT ![d] = {}]
    BY <1>19, <2>1, <2>2 DEF DropTrampoline, Return, Goto
  <2> QED BY <2>1, <2>2, <2>3, BuiltForget
<1>20. ASSUME NEW c \in Cells, Refill(c)
       PROVE BuiltInv'
  <2>1. \A e \in Detours : Building(e) => Building(e)'
    BY <1>20 DEF Building, TypeOK, Refill, objects, locals, Goto, Return
  <2>2. UNCHANGED <<built, older>>
    BY <1>20 DEF Refill, objects, locals
  <2>3. ASSUME NEW x \in Detours, state[x] = "live", enabled[x]
        PROVE  enabled'[x] /\ state'[x] = "live"
    BY <1>20, <2>3 DEF Refill, objects, locals, TypeOK
  <2> QED BY <2>1, <2>2, <2>3, BuiltFrame
<1>21. CASE UNCHANGED vars
  BY <1>21 DEF vars, BuiltInv, Beneath, Building
<1>22. ASSUME NEW t \in Threads, NewSameAddress(t)
       PROVE BuiltInv'
  <2>1. \A e \in Detours : Building(e) => Building(e)'
    BY <1>22 DEF Building, TypeOK, NewSameAddress, vars, Goto, Return
  <2>2. UNCHANGED <<built, older>>
    BY <1>22 DEF NewSameAddress, vars
  <2>3. ASSUME NEW x \in Detours, state[x] = "live", enabled[x]
        PROVE  enabled'[x] /\ state'[x] = "live"
    BY <1>22, <2>3 DEF NewSameAddress, vars, TypeOK
  <2> QED BY <2>1, <2>2, <2>3, BuiltFrame
<1> QED
  BY <1>1, <1>2, <1>3, <1>4, <1>5, <1>6, <1>7, <1>8, <1>9, <1>10, <1>11, <1>12,
     <1>13, <1>14, <1>15, <1>16, <1>17, <1>18, <1>19, <1>20, <1>21, <1>22,
     NextCases, Zenon

-----------------------------------------------------------------------------
(***************************************************************************)
(* For every client                                                        *)
(***************************************************************************)
\* Only a toggle that owns POOL changes the flag of a detour; new sets it where it
\* is not set.
LEMMA FlagChanges ==
  ASSUME TypeOK, ControlInv, FlagInv, [Next]_vars, NEW d \in Detours, enabled'[d] # enabled[d]
  PROVE  \E t \in Threads : ToggleStore(t) /\ cur[t] = d
<1>1. ASSUME NEW t \in Threads, NewTrampoline(t)
      PROVE  enabled'[d] = enabled[d]
  <2>1. PICK e \in Detours : cur[t] = e
    BY <1>1, AtWork DEF NewTrampoline
  <2>2. ~Present(e)
    BY <1>1, <2>1 DEF NewTrampoline, ControlInv, WorkInv, NewSteps, Present
  <2>3. enabled[e] = FALSE /\ enabled' = [enabled EXCEPT ![e] = FALSE]
    BY <1>1, <2>1, <2>2, Zenon DEF NewTrampoline, FlagInv, TypeOK
  <2> QED BY <2>3 DEF TypeOK
<1>2. ASSUME NEW t \in Threads, NewError(t) \/ NewPanic(t)
      PROVE  enabled' = enabled
  BY <1>2, NewFailEffect
<1>3. ASSUME NEW t \in Threads, NEW e \in Detours, NEW w \in BOOLEAN, ToggleCall(t, e, w)
      PROVE  enabled' = enabled
  BY <1>3 DEF ToggleCall, objects
<1>4. ASSUME NEW t \in Threads, NEW e \in Detours, NewCall(t, e) \/ DropCall(t, e)
      PROVE  enabled' = enabled
  BY <1>4 DEF NewCall, DropCall
<1>5. ASSUME NEW t \in Threads, NewSameAddress(t)
      PROVE  enabled' = enabled
  BY <1>5 DEF NewSameAddress, vars
<1>6. ASSUME NEW t \in Threads,
             \/ NewLock(t) \/ NewPrepare(t) \/ NewRelay(t) \/ NewPatcher(t)
             \/ ToggleLock(t) \/ ToggleCheck(t) \/ ToggleProtect(t) \/ ToggleFlush(t)
             \/ ToggleRestore(t) \/ ToggleEnd(t) \/ DropRelay(t) \/ DropTrampoline(t)
      PROVE  enabled' = enabled
  BY <1>6 DEF NewLock, NewPrepare, NewRelay, NewPatcher, ToggleLock, ToggleCheck,
              ToggleProtect, ToggleFlush, ToggleRestore, ToggleEnd, DropRelay,
              DropTrampoline, objects
<1>7. ASSUME NEW c \in Cells, Refill(c)
      PROVE  enabled' = enabled
  BY <1>7 DEF Refill, objects
<1>8. ASSUME NEW t \in Threads, NEW c \in Cells, ToggleCopy(t, c)
      PROVE  enabled' = enabled
  BY <1>8 DEF ToggleCopy, objects
<1>9. CASE UNCHANGED vars
  BY <1>9 DEF vars
<1>10. PICK t \in Threads : ToggleStore(t)
  BY <1>1, <1>2, <1>3, <1>4, <1>5, <1>6, <1>7, <1>8, <1>9, NextCases, Zenon
<1>11. cur[t] = d
  BY <1>10, AtWork DEF ToggleStore, TypeOK
<1> QED BY <1>10, <1>11

\* A thread gets to the fields of a drop from the call, where debug_assert! is
\* compiled out, or by leaving toggle.
LEMMA DropBegins ==
  ASSUME TypeOK, ControlInv, [Next]_vars, NEW t \in Threads,
         pc[t] # "dropRelay", pc'[t] = "dropRelay"
  PROVE  ~DebugAssertions \/ ToggleEnd(t)
<1> USE DEF TypeOK, Goto, Return
<1>1. ASSUME NEW u \in Threads, NEW d \in Detours, DropCall(u, d)
      PROVE  ~DebugAssertions
  BY <1>1 DEF DropCall
<1>2. ASSUME NEW u \in Threads, NewError(u) \/ NewPanic(u)
      PROVE  FALSE
  BY <1>2, NewFailEffect
<1>3. ASSUME NEW u \in Threads, NEW d \in Detours, NEW w \in BOOLEAN, ToggleCall(u, d, w)
      PROVE  FALSE
  BY <1>3 DEF ToggleCall
<1>4. ASSUME NEW u \in Threads, NEW d \in Detours, NewCall(u, d)
      PROVE  FALSE
  BY <1>4 DEF NewCall
<1>5. ASSUME NEW u \in Threads, NewSameAddress(u)
      PROVE  FALSE
  BY <1>5 DEF NewSameAddress, vars
<1>6. ASSUME NEW u \in Threads,
             \/ NewLock(u) \/ NewPrepare(u) \/ NewRelay(u) \/ NewPatcher(u)
             \/ NewTrampoline(u) \/ ToggleLock(u) \/ ToggleCheck(u) \/ ToggleProtect(u)
             \/ ToggleStore(u) \/ ToggleFlush(u) \/ ToggleRestore(u) \/ DropRelay(u)
             \/ DropTrampoline(u)
      PROVE  FALSE
  BY <1>6 DEF NewLock, NewPrepare, NewRelay, NewPatcher, NewTrampoline, ToggleLock,
              ToggleCheck, ToggleProtect, ToggleStore, ToggleFlush, ToggleRestore,
              DropRelay, DropTrampoline
<1>7. ASSUME NEW c \in Cells, Refill(c)
      PROVE  FALSE
  BY <1>7 DEF Refill, locals
<1>8. ASSUME NEW u \in Threads, NEW c \in Cells, ToggleCopy(u, c)
      PROVE  FALSE
  BY <1>8 DEF ToggleCopy
<1>9. CASE UNCHANGED vars
  BY <1>9 DEF vars
<1>10. ASSUME NEW u \in Threads, ToggleEnd(u)
       PROVE  ToggleEnd(t)
  <2>1. u = t
    BY <1>10 DEF ToggleEnd, ToggleReturn
  <2> QED BY <1>10, <2>1
<1> HIDE DEF TypeOK, Goto, Return
<1> QED BY <1>1, <1>2, <1>3, <1>4, <1>5, <1>6, <1>7, <1>8, <1>9, <1>10, NextCases, Zenon

\* Every client: who has which block, through every exit of new and drop, and where
\* a toggle is with its flag (Detour::new, Detour::toggle, Drop::drop).
THEOREM AnyObject == Spec => [](AnyInv /\ ObjectInv)
<1>1. Init => ObjectInv
  <2> SUFFICES ASSUME Init PROVE ObjectInv
    OBVIOUS
  <2>1. FlagInv /\ OrderedInv
    BY DEF Init, FlagInv, WantInv, OrderedInv, CopyInv, StoreInv, DropInv
  <2>2. HeldInv
    BY DEF Init, HeldInv, ObjectHeld, ThreadHeld, Relay, Trampoline, NewSteps
  <2> QED BY <2>1, <2>2 DEF ObjectInv
<1>2. AnyInv /\ ObjectInv /\ [Next]_vars => ObjectInv'
  <2> SUFFICES ASSUME AnyInv, ObjectInv, [Next]_vars PROVE ObjectInv'
    OBVIOUS
  <2>1. TypeOK /\ ControlInv /\ FlagInv /\ CopyInv /\ StoreInv /\ DropInv /\ HeldInv
    BY DEF AnyInv, ObjectInv, OrderedInv
  <2>2. FlagInv' /\ CopyInv' /\ StoreInv' /\ DropInv' /\ HeldInv'
    BY <2>1, FlagStep, CopyStep, StoreStep, DropStep, HeldStep
  <2> QED BY <2>2 DEF ObjectInv, OrderedInv
<1> QED BY <1>1, <1>2, AnyClient, PTL DEF Spec

\* The flag of a detour changes only once its whole area holds what the flag says
\* (toggle: the copy before the store, which is_enabled reads without POOL).
THEOREM FlagAfterCode == Spec => FlagFollowsCode
<1>1. AnyInv /\ ObjectInv /\ [Next]_vars =>
        [\A d \in Detours : enabled'[d] # enabled[d] =>
           \A c \in Area[d] : code[c] = IF enabled'[d] THEN d ELSE original[d][c]]_vars
  <2> SUFFICES ASSUME AnyInv, ObjectInv, [Next]_vars,
                      NEW d \in Detours, enabled'[d] # enabled[d], NEW c \in Area[d]
               PROVE  code[c] = IF enabled'[d] THEN d ELSE original[d][c]
    OBVIOUS
  <2>1. PICK t \in Threads : ToggleStore(t) /\ cur[t] = d
    BY FlagChanges DEF AnyInv, ObjectInv
  <2>2. pc[t] = "toggleCopy" /\ todo[t] = {} /\ enabled'[d] = want[t]
    BY <2>1 DEF ToggleStore, AnyInv, TypeOK
  <2>3. code[c] = IF want[t] THEN d ELSE original[d][c]
    BY <2>1, <2>2 DEF ObjectInv, OrderedInv, CopyInv
  <2> QED BY <2>2, <2>3
<1> QED BY <1>1, AnyObject, PTL DEF Spec, FlagFollowsCode

\* With debug assertions, a drop frees the blocks of an enabled detour only after a
\* refused protection or a poisoned POOL (Drop::drop, no race with an enable).
THEOREM DropLeavesJumpOnlyByPanic == Spec => DropLeavesJump
<1>1. AnyInv /\ ObjectInv /\ [Next]_vars =>
        [\A t \in Threads :
           /\ DebugAssertions
           /\ pc[t] # "dropRelay" /\ pc'[t] = "dropRelay"
           /\ enabled'[cur'[t]]
           => \/ pc[t] = "toggleProtect"
              \/ pc[t] = "toggleLock" /\ poisoned]_vars
  <2> SUFFICES ASSUME AnyInv, ObjectInv, [Next]_vars, NEW t \in Threads, DebugAssertions,
                      pc[t] # "dropRelay", pc'[t] = "dropRelay", enabled'[cur'[t]]
               PROVE  pc[t] = "toggleProtect" \/ (pc[t] = "toggleLock" /\ poisoned)
    OBVIOUS
  <2>1. ToggleEnd(t)
    BY DropBegins DEF AnyInv
  <2>2. cur[t] \in Detours
    BY <2>1, AtWork DEF ToggleEnd, AnyInv
  <2>3. state[cur[t]] = "dropping" /\ cur' = cur /\ enabled' = enabled
    BY <2>1 DEF ToggleEnd, ToggleReturn, Return, Goto, objects, AnyInv, TypeOK
  <2>4. want[t] = FALSE
    BY <2>2, <2>3, Zenon DEF ObjectInv, OrderedInv, DropInv, AnyInv, TypeOK
  <2>5. CASE pc[t] = "toggleUnlock"
    BY <2>3, <2>4, <2>5 DEF ObjectInv, OrderedInv, StoreInv
  <2>6. CASE pc[t] = "toggleCheck"
    BY <2>1, <2>3, <2>4, <2>6 DEF ToggleEnd
  <2> QED BY <2>1, <2>5, <2>6 DEF ToggleEnd
<1> QED BY <1>1, AnyObject, PTL DEF Spec, DropLeavesJump

\* No block of executable memory outlives its object, and a live detour has all of
\* its blocks (the early returns and panics of Detour::new, the fields of Detour).
THEOREM BlocksAreOwned == Spec => []NothingLeaks
<1>1. AnyInv /\ ObjectInv => NothingLeaks
  <2> SUFFICES ASSUME AnyInv, ObjectInv PROVE NothingLeaks
    OBVIOUS
  <2>1. ASSUME NEW m \in held
        PROVE  state[m[1]] \in {"building", "live", "dropping"}
    <3>1. PICK d \in Detours, k \in Kinds : m = <<d, k>>
      BY DEF AnyInv, TypeOK
    <3>2. Relay(d) \/ Trampoline(d)
      BY <2>1, <3>1 DEF Kinds, Relay, Trampoline
    <3>3. state[d] \in States /\ state[d] \notin {"none", "dangling"}
      BY <3>2 DEF AnyInv, TypeOK, ObjectInv, HeldInv, ObjectHeld
    <3> QED BY <3>1, <3>3 DEF States
  <2>2. ASSUME NEW d \in Detours, state[d] = "live"
        PROVE  <<d, "trampoline">> \in held /\ (<<d, "relay">> \in held <=> d \in Far)
    BY <2>2 DEF ObjectInv, HeldInv, ObjectHeld, Complete, Relay, Trampoline
  <2> QED BY <2>1, <2>2 DEF NothingLeaks
<1> QED BY <1>1, AnyObject, PTL

-----------------------------------------------------------------------------
(***************************************************************************)
(* For a client that nests                                                 *)
(***************************************************************************)
LEMMA HomeInit ==
  ASSUME Init
  PROVE  HomeInv
  BY DEF Init, HomeInv, TidyInv, TidyObject, TidyThread, StaleInv, BuiltInv, Pristine,
         ToggleSteps

\* Where every drop disables, nothing dangles, the instruction cache is at most one
\* toggle behind, and a trampoline relocates jumps of older detours only (Drop::drop,
\* flush_instruction_cache, Trampoline::new).
THEOREM HomeClient ==
  ASSUME ClientNests, DropsDisabled
  PROVE  Spec => [](AnyInv /\ ObjectInv /\ NestInv /\ HomeInv)
<1>1. Init => HomeInv
  BY HomeInit
<1>2. AnyInv /\ ObjectInv /\ NestInv /\ HomeInv /\ [Next]_vars => HomeInv'
  <2> SUFFICES ASSUME AnyInv, ObjectInv, NestInv, HomeInv, [Next]_vars PROVE HomeInv'
    OBVIOUS
  <2>1. /\ TypeOK /\ ControlInv /\ ProtInv /\ FlagInv /\ StoreInv /\ DropInv
        /\ QuietInv /\ StackInv /\ TidyInv /\ StaleInv /\ BuiltInv
    BY DEF AnyInv, ObjectInv, OrderedInv, NestInv, HomeInv
  <2>2. TidyInv' /\ StaleInv' /\ BuiltInv'
    BY <2>1, TidyStep, StaleStep, BuiltStep
  <2> QED BY <2>2 DEF HomeInv
<1> QED BY <1>1, <1>2, AnyObject, NestingClient, PTL DEF Spec

\* A detour that is on over a cell exists, with its relay.
LEMMA OnIsHome ==
  ASSUME TypeOK, ControlInv, HeldInv, TidyInv,
         NEW d \in Detours, NEW c \in Cells, Present(d), On(d, c)
  PROVE  state[d] \in {"live", "dropping"} /\ (d \in Far => Relay(d))
<1>1. state[d] \in {"live", "dropping"}
  BY DEF TidyInv, TidyObject, Present
<1>2. ASSUME NEW t \in Threads, cur[t] = d, pc[t] = "dropTrampoline"
      PROVE  FALSE
  <2>1. state[d] = "dropping" /\ ~enabled[d]
    BY <1>2 DEF ControlInv, WorkInv, TidyInv, TidyThread
  <2>2. PICK u \in Threads : pc[u] = "toggleCopy" /\ cur[u] = d
    BY <2>1 DEF On, Copied
  <2>3. u # t /\ cur[u] = cur[t]
    BY <1>2, <2>2
  <2> QED BY <1>2, <2>1, <2>3 DEF ControlInv, AloneInv
<1>3. Complete(d)
  BY <1>1, <1>2 DEF HeldInv, ObjectHeld
<1> QED BY <1>1, <1>3 DEF Complete

\* No jump leads nowhere, from the code, the instruction cache or a trampoline, once
\* Drop::drop has freed a detour and its relay.
THEOREM EveryJumpHome ==
  ASSUME ClientNests, DropsDisabled
  PROVE  Spec => []JumpsLeadHome
<1> DEFINE Home(d) == /\ state[d] \in {"live", "dropping"}
                      /\ d \in Far => <<d, "relay">> \in held
<1>1. AnyInv /\ ObjectInv /\ NestInv /\ HomeInv => JumpsLeadHome
  <2> SUFFICES ASSUME AnyInv, ObjectInv, NestInv, HomeInv PROVE JumpsLeadHome
    OBVIOUS
  <2>0. /\ TypeOK /\ ControlInv /\ HeldInv /\ QuietInv /\ StackInv
        /\ TidyInv /\ StaleInv /\ BuiltInv
    BY DEF AnyInv, ObjectInv, NestInv, HomeInv
  <2>1. ASSUME NEW D \in SUBSET Detours, NEW c \in Cells, NEW x, x # Orig,
               TopOf(OnOver(D, c), x)
        PROVE  Home(x)
    <3>1. x \in Detours /\ Present(x) /\ On(x, c)
      BY <2>1 DEF TopOf, OnOver
    <3> QED BY <2>0, <3>1, OnIsHome DEF Relay
  <2>2. ASSUME NEW c \in Cells, code[c] # Orig
        PROVE  Home(code[c])
    BY <2>0, <2>1, <2>2 DEF StackInv, CodeInv
  <2>3. ASSUME NEW c \in Cells, icache[c] # Orig
        PROVE  Home(icache[c])
    <3>1. CASE icache[c] = code[c]
      BY <2>2, <2>3, <3>1
    <3>2. CASE icache[c] # code[c]
      <4>1. PICK t \in Threads : /\ pc[t] \in {"toggleCopy", "toggleFlush"}
                                 /\ c \in Area[cur[t]]
                                 /\ icache[c] \in {cur[t], original[cur[t]][c]}
        BY <2>0, <3>2 DEF StaleInv
      <4>2. PICK d \in Detours : cur[t] = d
        BY <2>0, <4>1, AtWork
      <4>3. state[d] \in {"live", "dropping"}
        BY <2>0, <4>1, <4>2 DEF ControlInv, WorkInv, ToggleSteps
      <4>4. ASSUME NEW u \in Threads, cur[u] = d
            PROVE  pc[u] # "dropTrampoline"
        BY <2>0, <4>1, <4>2, <4>4 DEF ControlInv, AloneInv, WorkInv
      <4>5. Home(d)
        BY <2>0, <4>3, <4>4 DEF HeldInv, ObjectHeld, Complete, Relay
      <4>6. original[d][c] # Orig => Home(original[d][c])
        <5>1. Captured(d) /\ older[d] \in SUBSET Detours
          BY <2>0, <4>3 DEF Captured, Present, TypeOK
        <5>2. TopOf(OnOver(older[d], c), original[d][c])
          BY <2>0, <4>1, <4>2, <5>1 DEF StackInv, SavedInv
        <5> QED BY <2>1, <5>1, <5>2
      <4> QED BY <2>3, <4>1, <4>2, <4>5, <4>6
    <3> QED BY <3>1, <3>2
  <2>4. ASSUME NEW e \in Detours, NEW c \in Prolog[e], built[e][c] # Orig
        PROVE  Home(built[e][c])
    BY <2>0, <2>4 DEF BuiltInv, Beneath, HeldInv, ObjectHeld, Complete, Relay
  <2> QED BY <2>2, <2>3, <2>4 DEF JumpsLeadHome
<1> QED BY <1>1, HomeClient, PTL
=============================================================================
