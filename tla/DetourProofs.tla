---------------------------- MODULE DetourProofs ----------------------------
(***************************************************************************)
(* Proofs about Detour, for every set of threads, detours, cells and pages *)
(* and every layout of the areas the detours patch.                        *)
(***************************************************************************)
EXTENDS DetourInv, TLAPS

USE DetourAssumption

\* The actions, as one disjunction: what a step of Next can be.
LEMMA NextCases ==
  ASSUME Next
  PROVE  \/ \E t \in Threads, d \in Detours : NewCall(t, d)
         \/ \E t \in Threads, d \in Detours, w \in BOOLEAN : ToggleCall(t, d, w)
         \/ \E t \in Threads, d \in Detours : DropCall(t, d)
         \/ \E t \in Threads : NewSameAddress(t)
         \/ \E t \in Threads : NewLock(t)
         \/ \E t \in Threads : NewPrepare(t)
         \/ \E t \in Threads : NewRelay(t)
         \/ \E t \in Threads : NewPatcher(t)
         \/ \E t \in Threads : NewTrampoline(t)
         \/ \E t \in Threads : NewError(t)
         \/ \E t \in Threads : NewPanic(t)
         \/ \E t \in Threads : ToggleLock(t)
         \/ \E t \in Threads : ToggleCheck(t)
         \/ \E t \in Threads : ToggleProtect(t)
         \/ \E t \in Threads, c \in Cells : ToggleCopy(t, c)
         \/ \E t \in Threads : ToggleStore(t)
         \/ \E t \in Threads : ToggleFlush(t)
         \/ \E t \in Threads : ToggleRestore(t)
         \/ \E t \in Threads : ToggleEnd(t)
         \/ \E t \in Threads : DropRelay(t)
         \/ \E t \in Threads : DropTrampoline(t)
         \/ \E c \in Cells : Refill(c)
  BY Zenon DEF Next, Call, Step

\* A thread that is inside an operation works on a detour.
LEMMA AtWork ==
  ASSUME TypeOK, ControlInv, NEW t \in Threads, pc[t] # "idle"
  PROVE  cur[t] \in Detours
  BY DEF TypeOK, ControlInv, WorkInv

\* Type correctness is inductive together with ControlInv.
LEMMA TypeStep ==
  ASSUME TypeOK, ControlInv, [Next]_vars
  PROVE  TypeOK'
<1> USE DEF TypeOK
<1>1. ASSUME NEW t \in Threads, NEW d \in Detours, NewCall(t, d)
      PROVE TypeOK'
  BY <1>1 DEF NewCall, Goto, memory, PCs, States
<1>2. ASSUME NEW t \in Threads, NEW d \in Detours, NEW w \in BOOLEAN, ToggleCall(t, d, w)
      PROVE TypeOK'
  BY <1>2 DEF ToggleCall, Goto, memory, objects, PCs
<1>3. ASSUME NEW t \in Threads, NEW d \in Detours, DropCall(t, d)
      PROVE TypeOK'
  BY <1>3 DEF DropCall, Goto, memory, PCs, States
<1>4. ASSUME NEW t \in Threads, NewLock(t)
      PROVE TypeOK'
  BY <1>4 DEF NewLock, Goto, memory, objects, PCs, Critical, NewSteps
<1>5. ASSUME NEW t \in Threads, NewPrepare(t)
      PROVE TypeOK'
  BY <1>5, AtWork DEF NewPrepare, Goto, memory, PCs, Critical, NewSteps
<1>6. ASSUME NEW t \in Threads, NewRelay(t)
      PROVE TypeOK'
  BY <1>6, AtWork DEF NewRelay, Goto, memory, PCs, Critical, NewSteps, Kinds
<1>7. ASSUME NEW t \in Threads, NewPatcher(t)
      PROVE TypeOK'
  BY <1>7, AtWork DEF NewPatcher, Goto, memory, PCs, Critical, NewSteps
<1>8. ASSUME NEW t \in Threads, NewTrampoline(t)
      PROVE TypeOK'
  BY <1>8, AtWork DEF NewTrampoline, Return, Goto, memory, PCs, Kinds, States
<1>9. ASSUME NEW t \in Threads, NewError(t) \/ NewPanic(t)
      PROVE TypeOK'
  <2>1. cur[t] \in Detours
    BY <1>9, AtWork DEF NewError, NewPanic
  <2>2. PICK panics \in BOOLEAN : NewFail(t, panics)
    BY <1>9 DEF NewError, NewPanic
  <2> USE <2>1, <2>2 DEF NewFail, Return, Goto, memory
  <2>3. (poisoned \in BOOLEAN)' /\ (want \in [Threads -> BOOLEAN])'
    BY Zenon
  <2>4. (pc \in [Threads -> PCs])' /\ (state \in [Detours -> States])'
    BY DEF PCs, States
  <2>5. (cur \in [Threads -> Detours \cup {NoDetour}])' /\ (lock \in Threads \cup {NoThread})'
    OBVIOUS
  <2>6. /\ (built \in [Detours -> [Cells -> Content]])'
        /\ (original \in [Detours -> [Cells -> Content]])'
    BY DEF Pristine, Content
  <2>7. (older \in [Detours -> SUBSET Detours])' /\ (held \in SUBSET (Detours \X Kinds))'
    OBVIOUS
  <2> QED BY <2>3, <2>4, <2>5, <2>6, <2>7
<1>10. ASSUME NEW t \in Threads, ToggleLock(t)
       PROVE TypeOK'
  BY <1>10 DEF ToggleLock, Goto, memory, objects, PCs, Critical, ToggleSteps
<1>11. ASSUME NEW t \in Threads, ToggleCheck(t)
       PROVE TypeOK'
  BY <1>11 DEF ToggleCheck, Goto, memory, objects, PCs, Critical, ToggleSteps
<1>12. ASSUME NEW t \in Threads, ToggleProtect(t)
       PROVE TypeOK'
  BY <1>12, AtWork DEF ToggleProtect, Goto, objects, PCs, Critical, ToggleSteps,
     Protections
<1>13. ASSUME NEW t \in Threads, NEW c \in Cells, ToggleCopy(t, c)
       PROVE TypeOK'
  BY <1>13, AtWork DEF ToggleCopy, objects, Content
<1>14. ASSUME NEW t \in Threads, ToggleStore(t)
       PROVE TypeOK'
  BY <1>14, AtWork DEF ToggleStore, Goto, memory, PCs, Critical, ToggleSteps
<1>15. ASSUME NEW t \in Threads, ToggleFlush(t)
       PROVE TypeOK'
  BY <1>15, AtWork DEF ToggleFlush, Goto, objects, PCs, Critical, ToggleSteps
<1>16. ASSUME NEW t \in Threads, ToggleRestore(t)
       PROVE TypeOK'
  BY <1>16, AtWork DEF ToggleRestore, Goto, objects, PCs, Critical, ToggleSteps
<1>17. ASSUME NEW t \in Threads, ToggleEnd(t)
       PROVE TypeOK'
  BY <1>17 DEF ToggleEnd, ToggleReturn, Return, Goto, memory, objects, PCs
<1>18. ASSUME NEW t \in Threads, DropRelay(t)
       PROVE TypeOK'
  BY <1>18, AtWork DEF DropRelay, Goto, memory, PCs
<1>19. ASSUME NEW t \in Threads, DropTrampoline(t)
       PROVE TypeOK'
  <2>1. cur[t] \in Detours
    BY <1>19, AtWork DEF DropTrampoline
  <2>2. (held \in SUBSET (Detours \X Kinds))'
    BY <1>19 DEF DropTrampoline
  <2>3. Pristine \in [Cells -> Content]
    BY DEF Pristine, Content
  <2>4. /\ (built \in [Detours -> [Cells -> Content]])'
        /\ (original \in [Detours -> [Cells -> Content]])'
        /\ (older \in [Detours -> SUBSET Detours])'
    <3>1. CASE enabled[cur[t]]
      BY <1>19, <3>1 DEF DropTrampoline
    <3>2. CASE ~enabled[cur[t]]
      <4>1. /\ built' = [built EXCEPT ![cur[t]] = Pristine]
            /\ original' = [original EXCEPT ![cur[t]] = Pristine]
            /\ older' = [older EXCEPT ![cur[t]] = {}]
        BY <1>19, <3>2 DEF DropTrampoline
      <4>2. (older \in [Detours -> SUBSET Detours])'
        BY <2>1, <4>1
      <4>3. (built \in [Detours -> [Cells -> Content]])'
        BY <2>1, <2>3, <4>1
      <4>4. (original \in [Detours -> [Cells -> Content]])'
        BY <2>1, <2>3, <4>1
      <4> QED BY <4>2, <4>3, <4>4
    <3> QED BY <3>1, <3>2
  <2>5. (state \in [Detours -> States])'
    BY <1>19, <2>1 DEF DropTrampoline, States
  <2> QED BY <1>19, <2>2, <2>4, <2>5 DEF DropTrampoline, Return, Goto, memory, PCs
<1>20. ASSUME NEW c \in Cells, Refill(c)
       PROVE TypeOK'
  BY <1>20 DEF Refill, locals, objects
<1>21. CASE UNCHANGED vars
  BY <1>21 DEF vars
<1>22. ASSUME NEW t \in Threads, NewSameAddress(t)
       PROVE TypeOK'
  BY <1>22 DEF NewSameAddress, vars
<1> HIDE DEF TypeOK
<1> QED
  BY <1>1, <1>2, <1>3, <1>4, <1>5, <1>6, <1>7, <1>8, <1>9, <1>10, <1>11, <1>12,
     <1>13, <1>14, <1>15, <1>16, <1>17, <1>18, <1>19, <1>20, <1>21, <1>22,
     NextCases, Zenon
-----------------------------------------------------------------------------
\* Control: who owns POOL and what each thread works on.
LEMMA ControlStep ==
  ASSUME TypeOK, ControlInv, [Next]_vars
  PROVE  ControlInv'
<1> USE DEF TypeOK, ControlInv, LockInv, WorkInv, AloneInv, Goto, Return, PCs, Critical,
           NewSteps, ToggleSteps
<1>1. ASSUME NEW t \in Threads, NEW d \in Detours, NewCall(t, d)
      PROVE ControlInv'
  <2>1. ASSUME NEW u \in Threads, cur[u] = d
        PROVE  FALSE
    <3>1. pc[u] \in PCs /\ pc[u] # "idle" /\ state[cur[u]] = "none"
      BY <1>1, <2>1 DEF NewCall
    <3> QED BY <3>1
  <2>2. LockInv'
    BY <1>1 DEF NewCall
  <2>3. WorkInv'
    BY <1>1, <2>1 DEF NewCall
  <2>4. AloneInv'
    BY <1>1, <2>1 DEF NewCall
  <2> QED BY <2>2, <2>3, <2>4
<1>2. ASSUME NEW t \in Threads, NEW d \in Detours, NEW w \in BOOLEAN, ToggleCall(t, d, w)
      PROVE ControlInv'
  BY <1>2 DEF ToggleCall, objects
<1>3. ASSUME NEW t \in Threads, NEW d \in Detours, DropCall(t, d)
      PROVE ControlInv'
  BY <1>3 DEF DropCall, objects
<1>4. ASSUME NEW t \in Threads, NewLock(t)
      PROVE ControlInv'
  BY <1>4 DEF NewLock, objects
<1>5. ASSUME NEW t \in Threads, NewPrepare(t)
      PROVE ControlInv'
  BY <1>5 DEF NewPrepare, objects
<1>6. ASSUME NEW t \in Threads, NewRelay(t)
      PROVE ControlInv'
  BY <1>6 DEF NewRelay, objects
<1>7. ASSUME NEW t \in Threads, NewPatcher(t)
      PROVE ControlInv'
  BY <1>7 DEF NewPatcher, objects
<1>8. ASSUME NEW t \in Threads, NewTrampoline(t)
      PROVE ControlInv'
  BY <1>8 DEF NewTrampoline, objects
<1>9. ASSUME NEW t \in Threads, NewError(t) \/ NewPanic(t)
      PROVE ControlInv'
  <2>1. /\ pc[t] \in NewSteps \/ (pc[t] = "newLock" /\ lock = NoThread)
        /\ pc' = [pc EXCEPT ![t] = "idle"] /\ cur' = [cur EXCEPT ![t] = NoDetour]
        /\ state' = [state EXCEPT ![cur[t]] = "none"] /\ lock' = NoThread
    BY <1>9 DEF NewError, NewPanic, NewFail
  <2>2. cur[t] \in Detours /\ \A u \in Threads \ {t} : cur[u] # cur[t]
    BY <2>1
  <2>3. LockInv'
    BY <2>1
  <2>4. WorkInv'
    BY <2>1, <2>2
  <2>5. AloneInv'
    BY <2>1, <2>2
  <2> QED BY <2>3, <2>4, <2>5
<1>10. ASSUME NEW t \in Threads, ToggleLock(t)
      PROVE ControlInv'
  BY <1>10 DEF ToggleLock, objects
<1>11. ASSUME NEW t \in Threads, ToggleCheck(t)
      PROVE ControlInv'
  BY <1>11 DEF ToggleCheck, objects
<1>12. ASSUME NEW t \in Threads, ToggleProtect(t)
      PROVE ControlInv'
  BY <1>12 DEF ToggleProtect, objects
<1>13. ASSUME NEW t \in Threads, NEW c \in Cells, ToggleCopy(t, c)
      PROVE ControlInv'
  BY <1>13 DEF ToggleCopy, objects
<1>14. ASSUME NEW t \in Threads, ToggleStore(t)
      PROVE ControlInv'
  BY <1>14 DEF ToggleStore, objects
<1>15. ASSUME NEW t \in Threads, ToggleFlush(t)
      PROVE ControlInv'
  BY <1>15 DEF ToggleFlush, objects
<1>16. ASSUME NEW t \in Threads, ToggleRestore(t)
      PROVE ControlInv'
  BY <1>16 DEF ToggleRestore, objects
<1>17. ASSUME NEW t \in Threads, ToggleEnd(t)
      PROVE ControlInv'
  <2>1. /\ pc[t] \in ToggleSteps \/ (pc[t] = "toggleLock" /\ lock = NoThread)
        /\ lock' = NoThread /\ state' = state
    BY <1>17 DEF ToggleEnd, objects
  <2>2. LockInv'
    BY <1>17, <2>1 DEF ToggleEnd, ToggleReturn
  <2>3. WorkInv'
    BY <1>17, <2>1 DEF ToggleEnd, ToggleReturn
  <2>4. AloneInv'
    BY <1>17, <2>1 DEF ToggleEnd, ToggleReturn
  <2> QED BY <2>2, <2>3, <2>4
<1>18. ASSUME NEW t \in Threads, DropRelay(t)
      PROVE ControlInv'
  BY <1>18 DEF DropRelay, objects
<1>19. ASSUME NEW t \in Threads, DropTrampoline(t)
      PROVE ControlInv'
  BY <1>19 DEF DropTrampoline, objects
<1>20. ASSUME NEW c \in Cells, Refill(c)
      PROVE ControlInv'
  BY <1>20 DEF Refill, locals, objects
<1>21. CASE UNCHANGED vars
  BY <1>21 DEF vars
<1>22. ASSUME NEW t \in Threads, NewSameAddress(t)
      PROVE ControlInv'
  BY <1>22 DEF NewSameAddress, vars
<1> HIDE DEF TypeOK, ControlInv, LockInv, WorkInv, AloneInv, Goto, Return, PCs, Critical,
            NewSteps, ToggleSteps
<1> QED
  BY <1>1, <1>2, <1>3, <1>4, <1>5, <1>6, <1>7, <1>8, <1>9, <1>10, <1>11, <1>12,
     <1>13, <1>14, <1>15, <1>16, <1>17, <1>18, <1>19, <1>20, <1>21, <1>22,
     NextCases, Zenon
-----------------------------------------------------------------------------
\* What an error or a panic of new does: the object is forgotten.
LEMMA NewFailEffect ==
  ASSUME TypeOK, ControlInv, NEW t \in Threads, NewError(t) \/ NewPanic(t)
  PROVE  /\ cur[t] \in Detours /\ state[cur[t]] = "building"
         /\ pc[t] \in NewSteps \/ (pc[t] = "newLock" /\ lock = NoThread)
         /\ \A u \in Threads \ {t} : cur[u] # cur[t]
         /\ pc' = [pc EXCEPT ![t] = "idle"]
         /\ cur' = [cur EXCEPT ![t] = NoDetour]
         /\ state' = [state EXCEPT ![cur[t]] = "none"]
         /\ built' = [built EXCEPT ![cur[t]] = Pristine]
         /\ original' = [original EXCEPT ![cur[t]] = Pristine]
         /\ older' = [older EXCEPT ![cur[t]] = {}]
         /\ lock' = NoThread
         /\ want' = [want EXCEPT ![t] = FALSE]
         /\ UNCHANGED <<todo, saved, enabled, code, icache, prot>>
<1>1. pc[t] \in NewSteps \/ (pc[t] = "newLock" /\ lock = NoThread)
  BY DEF NewError, NewPanic, NewSteps
<1>2. cur[t] \in Detours /\ state[cur[t]] = "building"
  BY <1>1 DEF TypeOK, ControlInv, WorkInv, NewSteps
<1>3. \A u \in Threads \ {t} : cur[u] # cur[t]
  BY <1>2 DEF ControlInv, AloneInv
<1>4. PICK panics \in BOOLEAN : NewFail(t, panics)
  BY DEF NewError, NewPanic
<1> QED BY <1>1, <1>2, <1>3, <1>4 DEF NewFail, Return, Goto, memory
\* The pages are writable under a toggle and nowhere else.
LEMMA ProtStep ==
  ASSUME TypeOK, ControlInv, ProtInv, [Next]_vars
  PROVE  ProtInv'
<1> USE DEF TypeOK, ControlInv, LockInv, WorkInv, ProtInv, Writing,
           Goto, Return, Critical, NewSteps, ToggleSteps
<1>1. ASSUME NEW t \in Threads, NEW d \in Detours, NewCall(t, d)
       PROVE ProtInv'
  BY <1>1 DEF NewCall, objects, memory
<1>2. ASSUME NEW t \in Threads, NEW d \in Detours, NEW w \in BOOLEAN, ToggleCall(t, d, w)
       PROVE ProtInv'
  BY <1>2 DEF ToggleCall, objects, memory
<1>3. ASSUME NEW t \in Threads, NEW d \in Detours, DropCall(t, d)
       PROVE ProtInv'
  BY <1>3 DEF DropCall, objects, memory
<1>4. ASSUME NEW t \in Threads, NewLock(t)
       PROVE ProtInv'
  BY <1>4 DEF NewLock, objects, memory
<1>5. ASSUME NEW t \in Threads, NewPrepare(t)
       PROVE ProtInv'
  BY <1>5 DEF NewPrepare, objects, memory
<1>6. ASSUME NEW t \in Threads, NewRelay(t)
       PROVE ProtInv'
  BY <1>6 DEF NewRelay, objects, memory
<1>7. ASSUME NEW t \in Threads, NewPatcher(t)
       PROVE ProtInv'
  BY <1>7 DEF NewPatcher, objects, memory
<1>8. ASSUME NEW t \in Threads, NewTrampoline(t)
       PROVE ProtInv'
  BY <1>8 DEF NewTrampoline, objects, memory
<1>9. ASSUME NEW t \in Threads, NewError(t) \/ NewPanic(t)
       PROVE ProtInv'
  <2>1. /\ pc[t] \in NewSteps \/ (pc[t] = "newLock" /\ lock = NoThread)
        /\ pc' = [pc EXCEPT ![t] = "idle"]
        /\ cur' = [cur EXCEPT ![t] = NoDetour]
        /\ UNCHANGED <<todo, saved, prot>>
    BY <1>9, NewFailEffect
  <2> QED BY <2>1
<1>10. ASSUME NEW t \in Threads, ToggleLock(t)
       PROVE ProtInv'
  BY <1>10 DEF ToggleLock, objects, memory
<1>11. ASSUME NEW t \in Threads, ToggleCheck(t)
       PROVE ProtInv'
  BY <1>11 DEF ToggleCheck, objects, memory
<1>12. ASSUME NEW t \in Threads, ToggleProtect(t)
       PROVE ProtInv'
  BY <1>12 DEF ToggleProtect, objects, memory
<1>13. ASSUME NEW t \in Threads, NEW c \in Cells, ToggleCopy(t, c)
       PROVE ProtInv'
  BY <1>13 DEF ToggleCopy, objects, memory
<1>14. ASSUME NEW t \in Threads, ToggleStore(t)
       PROVE ProtInv'
  BY <1>14 DEF ToggleStore, objects, memory
<1>15. ASSUME NEW t \in Threads, ToggleFlush(t)
       PROVE ProtInv'
  BY <1>15 DEF ToggleFlush, objects, memory
<1>16. ASSUME NEW t \in Threads, ToggleRestore(t)
       PROVE ProtInv'
  BY <1>16 DEF ToggleRestore, objects, memory
<1>17. ASSUME NEW t \in Threads, ToggleEnd(t)
       PROVE ProtInv'
  BY <1>17 DEF ToggleEnd, ToggleReturn, objects, memory
<1>18. ASSUME NEW t \in Threads, DropRelay(t)
       PROVE ProtInv'
  BY <1>18 DEF DropRelay, objects, memory
<1>19. ASSUME NEW t \in Threads, DropTrampoline(t)
       PROVE ProtInv'
  BY <1>19 DEF DropTrampoline, objects, memory
<1>20. ASSUME NEW c \in Cells, Refill(c)
       PROVE ProtInv'
  BY <1>20 DEF Refill, locals, objects, memory
<1>21. CASE UNCHANGED vars
  BY <1>21 DEF vars
<1>22. ASSUME NEW t \in Threads, NewSameAddress(t)
       PROVE ProtInv'
  BY <1>22 DEF NewSameAddress, vars, objects, memory
<1> HIDE DEF TypeOK, ControlInv, LockInv, WorkInv, ProtInv, Writing,
            Goto, Return, Critical, NewSteps, ToggleSteps
<1> QED
  BY <1>1, <1>2, <1>3, <1>4, <1>5, <1>6, <1>7, <1>8, <1>9, <1>10, <1>11, <1>12,
     <1>13, <1>14, <1>15, <1>16, <1>17, <1>18, <1>19, <1>20, <1>21, <1>22,
     NextCases, Zenon
\* The two snapshots of a detour agree: no other thread can write between them.
LEMMA SnapStep ==
  ASSUME TypeOK, ControlInv, SnapInv, [Next]_vars
  PROVE  SnapInv'
<1> USE DEF TypeOK, ControlInv, LockInv, WorkInv, SnapInv, Present,
           Goto, Return, Critical, NewSteps, ToggleSteps
<1>1. ASSUME NEW t \in Threads, NEW d \in Detours, NewCall(t, d)
       PROVE SnapInv'
  BY <1>1 DEF NewCall, objects, memory
<1>2. ASSUME NEW t \in Threads, NEW d \in Detours, NEW w \in BOOLEAN, ToggleCall(t, d, w)
       PROVE SnapInv'
  BY <1>2 DEF ToggleCall, objects, memory
<1>3. ASSUME NEW t \in Threads, NEW d \in Detours, DropCall(t, d)
       PROVE SnapInv'
  BY <1>3 DEF DropCall, objects, memory
<1>4. ASSUME NEW t \in Threads, NewLock(t)
       PROVE SnapInv'
  BY <1>4 DEF NewLock, objects, memory
<1>5. ASSUME NEW t \in Threads, NewPrepare(t)
       PROVE SnapInv'
  BY <1>5 DEF NewPrepare, objects, memory
<1>6. ASSUME NEW t \in Threads, NewRelay(t)
       PROVE SnapInv'
  BY <1>6 DEF NewRelay, objects, memory
<1>7. ASSUME NEW t \in Threads, NewPatcher(t)
       PROVE SnapInv'
  BY <1>7 DEF NewPatcher, objects, memory
<1>8. ASSUME NEW t \in Threads, NewTrampoline(t)
       PROVE SnapInv'
  BY <1>8 DEF NewTrampoline, objects, memory
<1>9. ASSUME NEW t \in Threads, NewError(t) \/ NewPanic(t)
       PROVE SnapInv'
  <2>1. /\ pc[t] \in NewSteps \/ (pc[t] = "newLock" /\ lock = NoThread)
        /\ pc' = [pc EXCEPT ![t] = "idle"]
        /\ cur' = [cur EXCEPT ![t] = NoDetour]
        /\ state' = [state EXCEPT ![cur[t]] = "none"]
        /\ built' = [built EXCEPT ![cur[t]] = Pristine]
        /\ original' = [original EXCEPT ![cur[t]] = Pristine]
        /\ \A u \in Threads \ {t} : cur[u] # cur[t]
        /\ code' = code
    BY <1>9, NewFailEffect
  <2> QED BY <2>1
<1>10. ASSUME NEW t \in Threads, ToggleLock(t)
       PROVE SnapInv'
  BY <1>10 DEF ToggleLock, objects, memory
<1>11. ASSUME NEW t \in Threads, ToggleCheck(t)
       PROVE SnapInv'
  BY <1>11 DEF ToggleCheck, objects, memory
<1>12. ASSUME NEW t \in Threads, ToggleProtect(t)
       PROVE SnapInv'
  BY <1>12 DEF ToggleProtect, objects, memory
<1>13. ASSUME NEW t \in Threads, NEW c \in Cells, ToggleCopy(t, c)
       PROVE SnapInv'
  BY <1>13 DEF ToggleCopy, objects, memory
<1>14. ASSUME NEW t \in Threads, ToggleStore(t)
       PROVE SnapInv'
  BY <1>14 DEF ToggleStore, objects, memory
<1>15. ASSUME NEW t \in Threads, ToggleFlush(t)
       PROVE SnapInv'
  BY <1>15 DEF ToggleFlush, objects, memory
<1>16. ASSUME NEW t \in Threads, ToggleRestore(t)
       PROVE SnapInv'
  BY <1>16 DEF ToggleRestore, objects, memory
<1>17. ASSUME NEW t \in Threads, ToggleEnd(t)
       PROVE SnapInv'
  BY <1>17 DEF ToggleEnd, ToggleReturn, objects, memory
<1>18. ASSUME NEW t \in Threads, DropRelay(t)
       PROVE SnapInv'
  BY <1>18 DEF DropRelay, objects, memory
<1>19. ASSUME NEW t \in Threads, DropTrampoline(t)
       PROVE SnapInv'
  <2>1. pc[t] = "dropTrampoline" /\ cur[t] \in Detours /\ state[cur[t]] = "dropping"
    BY <1>19 DEF DropTrampoline
  <2>2. /\ pc' = [pc EXCEPT ![t] = "idle"] /\ cur' = [cur EXCEPT ![t] = NoDetour]
        /\ code' = code
    BY <1>19 DEF DropTrampoline, memory
  <2>3. CASE enabled[cur[t]]
    <3>1. /\ state' = [state EXCEPT ![cur[t]] = "dangling"]
          /\ UNCHANGED <<built, original>>
      BY <1>19, <2>3 DEF DropTrampoline
    <3> QED BY <2>1, <2>2, <3>1
  <2>4. CASE ~enabled[cur[t]]
    <3>1. /\ state' = [state EXCEPT ![cur[t]] = "none"]
          /\ built' = [built EXCEPT ![cur[t]] = Pristine]
          /\ original' = [original EXCEPT ![cur[t]] = Pristine]
      BY <1>19, <2>4 DEF DropTrampoline
    <3> QED BY <2>1, <2>2, <3>1
  <2> QED BY <2>3, <2>4
<1>20. ASSUME NEW c \in Cells, Refill(c)
       PROVE SnapInv'
  BY <1>20 DEF Refill, locals, objects, memory
<1>21. CASE UNCHANGED vars
  BY <1>21 DEF vars
<1>22. ASSUME NEW t \in Threads, NewSameAddress(t)
       PROVE SnapInv'
  BY <1>22 DEF NewSameAddress, vars, objects, memory
<1> HIDE DEF TypeOK, ControlInv, LockInv, WorkInv, SnapInv, Present,
            Goto, Return, Critical, NewSteps, ToggleSteps
<1> QED
  BY <1>1, <1>2, <1>3, <1>4, <1>5, <1>6, <1>7, <1>8, <1>9, <1>10, <1>11, <1>12,
     <1>13, <1>14, <1>15, <1>16, <1>17, <1>18, <1>19, <1>20, <1>21, <1>22,
     NextCases, Zenon
\* The instruction cache lags under a toggle and nowhere else.
LEMMA ICacheStep ==
  ASSUME TypeOK, ControlInv, ICacheInv, ProtInv, [Next]_vars
  PROVE  ICacheInv'
<1> USE DEF TypeOK, ControlInv, LockInv, WorkInv, ICacheInv,
           Goto, Return, Critical, NewSteps, ToggleSteps
<1>1. ASSUME NEW t \in Threads, NEW d \in Detours, NewCall(t, d)
       PROVE ICacheInv'
  BY <1>1 DEF NewCall, objects, memory
<1>2. ASSUME NEW t \in Threads, NEW d \in Detours, NEW w \in BOOLEAN, ToggleCall(t, d, w)
       PROVE ICacheInv'
  BY <1>2 DEF ToggleCall, objects, memory
<1>3. ASSUME NEW t \in Threads, NEW d \in Detours, DropCall(t, d)
       PROVE ICacheInv'
  BY <1>3 DEF DropCall, objects, memory
<1>4. ASSUME NEW t \in Threads, NewLock(t)
       PROVE ICacheInv'
  BY <1>4 DEF NewLock, objects, memory
<1>5. ASSUME NEW t \in Threads, NewPrepare(t)
       PROVE ICacheInv'
  BY <1>5 DEF NewPrepare, objects, memory
<1>6. ASSUME NEW t \in Threads, NewRelay(t)
       PROVE ICacheInv'
  BY <1>6 DEF NewRelay, objects, memory
<1>7. ASSUME NEW t \in Threads, NewPatcher(t)
       PROVE ICacheInv'
  BY <1>7 DEF NewPatcher, objects, memory
<1>8. ASSUME NEW t \in Threads, NewTrampoline(t)
       PROVE ICacheInv'
  BY <1>8 DEF NewTrampoline, objects, memory
<1>9. ASSUME NEW t \in Threads, NewError(t) \/ NewPanic(t)
       PROVE ICacheInv'
  <2>1. /\ pc[t] \in NewSteps \/ (pc[t] = "newLock" /\ lock = NoThread)
        /\ pc' = [pc EXCEPT ![t] = "idle"]
        /\ cur' = [cur EXCEPT ![t] = NoDetour]
        /\ UNCHANGED <<code, icache>>
    BY <1>9, NewFailEffect
  <2> QED BY <2>1
<1>10. ASSUME NEW t \in Threads, ToggleLock(t)
       PROVE ICacheInv'
  BY <1>10 DEF ToggleLock, objects, memory
<1>11. ASSUME NEW t \in Threads, ToggleCheck(t)
       PROVE ICacheInv'
  BY <1>11 DEF ToggleCheck, objects, memory
<1>12. ASSUME NEW t \in Threads, ToggleProtect(t)
       PROVE ICacheInv'
  BY <1>12 DEF ToggleProtect, objects, memory
<1>13. ASSUME NEW t \in Threads, NEW c \in Cells, ToggleCopy(t, c)
       PROVE ICacheInv'
  <2>1. /\ pc[t] = "toggleCopy" /\ c \in Area[cur[t]]
        /\ pc' = pc /\ cur' = cur
    BY <1>13 DEF ToggleCopy, ProtInv, Writing
  <2>2. \A b \in Cells \ {c} : icache'[b] = icache[b] /\ code'[b] = code[b]
    BY <1>13 DEF ToggleCopy
  <2>3. SUFFICES ASSUME NEW b \in Cells
                 PROVE  \/ icache'[b] = code'[b]
                        \/ \E u \in Threads : /\ pc'[u] \in {"toggleCopy", "toggleFlush"}
                                               /\ b \in Area[cur'[u]]
    OBVIOUS
  <2>4. CASE b = c
    BY <2>1, <2>4
  <2>5. CASE b # c
    BY <2>1, <2>2, <2>5
  <2> QED BY <2>4, <2>5
<1>14. ASSUME NEW t \in Threads, ToggleStore(t)
       PROVE ICacheInv'
  BY <1>14 DEF ToggleStore, objects, memory
<1>15. ASSUME NEW t \in Threads, ToggleFlush(t)
       PROVE ICacheInv'
  BY <1>15 DEF ToggleFlush, objects, memory
<1>16. ASSUME NEW t \in Threads, ToggleRestore(t)
       PROVE ICacheInv'
  BY <1>16 DEF ToggleRestore, objects, memory
<1>17. ASSUME NEW t \in Threads, ToggleEnd(t)
       PROVE ICacheInv'
  BY <1>17 DEF ToggleEnd, ToggleReturn, objects, memory
<1>18. ASSUME NEW t \in Threads, DropRelay(t)
       PROVE ICacheInv'
  BY <1>18 DEF DropRelay, objects, memory
<1>19. ASSUME NEW t \in Threads, DropTrampoline(t)
       PROVE ICacheInv'
  BY <1>19 DEF DropTrampoline, objects, memory
<1>20. ASSUME NEW c \in Cells, Refill(c)
       PROVE ICacheInv'
  BY <1>20 DEF Refill, locals, objects, memory
<1>21. CASE UNCHANGED vars
  BY <1>21 DEF vars
<1>22. ASSUME NEW t \in Threads, NewSameAddress(t)
       PROVE ICacheInv'
  BY <1>22 DEF NewSameAddress, vars, objects, memory
<1> HIDE DEF TypeOK, ControlInv, LockInv, WorkInv, ICacheInv,
            Goto, Return, Critical, NewSteps, ToggleSteps
<1> QED
  BY <1>1, <1>2, <1>3, <1>4, <1>5, <1>6, <1>7, <1>8, <1>9, <1>10, <1>11, <1>12,
     <1>13, <1>14, <1>15, <1>16, <1>17, <1>18, <1>19, <1>20, <1>21, <1>22,
     NextCases, Zenon
-----------------------------------------------------------------------------
(***************************************************************************)
(* From here on the client nests its overlapping detours.                  *)
(***************************************************************************)
LEMMA OverlapSymmetric ==
  ASSUME NEW d, NEW e, Overlap(d, e)
  PROVE  Overlap(e, d)
  BY DEF Overlap

\* A step that moves one thread away from its writes keeps WantInv.
LEMMA WantFrame ==
  ASSUME WantInv, NEW t \in Threads,
         pc'[t] \notin {"toggleProtect", "toggleCopy"},
         \A u \in Threads \ {t} : pc'[u] = pc[u] /\ cur'[u] = cur[u] /\ want'[u] = want[u],
         enabled' = enabled
  PROVE  WantInv'
<1> SUFFICES ASSUME NEW u \in Threads, pc'[u] \in {"toggleProtect", "toggleCopy"}
             PROVE  enabled'[cur'[u]] # want'[u]
  BY DEF WantInv
<1>1. /\ u # t
      /\ pc'[u] = pc[u] /\ cur'[u] = cur[u] /\ want'[u] = want[u]
  BY Zenon
<1>2. enabled[cur[u]] # want[u]
  BY <1>1, Zenon DEF WantInv
<1> QED BY <1>1, <1>2, Zenon
\* An enabled detour is present, and a toggle under way changes the flag.
LEMMA FlagStep ==
  ASSUME TypeOK, ControlInv, FlagInv, [Next]_vars
  PROVE  FlagInv'
<1> USE DEF TypeOK, ControlInv, LockInv, WorkInv, FlagInv, WantInv, Present,
           Goto, Return, Critical, NewSteps, ToggleSteps
<1>1. ASSUME NEW t \in Threads, NEW d \in Detours, NewCall(t, d)
       PROVE FlagInv'
  BY <1>1 DEF NewCall, objects, memory
<1>2. ASSUME NEW t \in Threads, NEW d \in Detours, NEW w \in BOOLEAN, ToggleCall(t, d, w)
       PROVE FlagInv'
  BY <1>2 DEF ToggleCall, objects, memory
<1>3. ASSUME NEW t \in Threads, NEW d \in Detours, DropCall(t, d)
       PROVE FlagInv'
  <2>1. /\ pc'[t] \in {"toggleLock", "dropRelay"}
        /\ \A u \in Threads \ {t} : pc'[u] = pc[u] /\ cur'[u] = cur[u] /\ want'[u] = want[u]
        /\ state' = [state EXCEPT ![d] = "dropping"] /\ enabled' = enabled
    BY <1>3 DEF DropCall
  <2>2. \A e \in Detours : enabled'[e] => Present(e)'
    BY <2>1
  <2>3. WantInv'
    BY <2>1, WantFrame
  <2> QED BY <2>2, <2>3
<1>4. ASSUME NEW t \in Threads, NewLock(t)
       PROVE FlagInv'
  BY <1>4 DEF NewLock, objects, memory
<1>5. ASSUME NEW t \in Threads, NewPrepare(t)
       PROVE FlagInv'
  BY <1>5 DEF NewPrepare, objects, memory
<1>6. ASSUME NEW t \in Threads, NewRelay(t)
       PROVE FlagInv'
  BY <1>6 DEF NewRelay, objects, memory
<1>7. ASSUME NEW t \in Threads, NewPatcher(t)
       PROVE FlagInv'
  BY <1>7 DEF NewPatcher, objects, memory
<1>8. ASSUME NEW t \in Threads, NewTrampoline(t)
       PROVE FlagInv'
  <2>1. cur[t] \in Detours /\ state[cur[t]] = "building"
    BY <1>8 DEF NewTrampoline
  <2>2. \A e \in Detours : enabled'[e] => Present(e)'
    BY <1>8, <2>1 DEF NewTrampoline
  <2>3. \A u \in Threads : pc'[u] \notin {"toggleProtect", "toggleCopy"}
    BY <1>8 DEF NewTrampoline
  <2> QED BY <2>2, <2>3
<1>9. ASSUME NEW t \in Threads, NewError(t) \/ NewPanic(t)
       PROVE FlagInv'
  <2>1. /\ pc' = [pc EXCEPT ![t] = "idle"]
        /\ cur' = [cur EXCEPT ![t] = NoDetour]
        /\ state[cur[t]] = "building" /\ state' = [state EXCEPT ![cur[t]] = "none"]
        /\ want' = [want EXCEPT ![t] = FALSE]
        /\ enabled' = enabled
    BY <1>9, NewFailEffect
  <2>2. \A d \in Detours : enabled'[d] => Present(d)'
    BY <2>1
  <2>3. /\ pc'[t] = "idle" /\ enabled' = enabled
        /\ \A u \in Threads \ {t} : pc'[u] = pc[u] /\ cur'[u] = cur[u] /\ want'[u] = want[u]
    BY <2>1
  <2>4. WantInv'
    BY <2>3, WantFrame
  <2> QED BY <2>2, <2>4
<1>10. ASSUME NEW t \in Threads, ToggleLock(t)
       PROVE FlagInv'
  BY <1>10 DEF ToggleLock, objects, memory
<1>11. ASSUME NEW t \in Threads, ToggleCheck(t)
       PROVE FlagInv'
  BY <1>11 DEF ToggleCheck, objects, memory
<1>12. ASSUME NEW t \in Threads, ToggleProtect(t)
       PROVE FlagInv'
  BY <1>12 DEF ToggleProtect, objects, memory
<1>13. ASSUME NEW t \in Threads, NEW c \in Cells, ToggleCopy(t, c)
       PROVE FlagInv'
  BY <1>13 DEF ToggleCopy, objects, memory
<1>14. ASSUME NEW t \in Threads, ToggleStore(t)
       PROVE FlagInv'
  BY <1>14 DEF ToggleStore, objects, memory
<1>15. ASSUME NEW t \in Threads, ToggleFlush(t)
       PROVE FlagInv'
  BY <1>15 DEF ToggleFlush, objects, memory
<1>16. ASSUME NEW t \in Threads, ToggleRestore(t)
       PROVE FlagInv'
  BY <1>16 DEF ToggleRestore, objects, memory
<1>17. ASSUME NEW t \in Threads, ToggleEnd(t)
       PROVE FlagInv'
  BY <1>17 DEF ToggleEnd, ToggleReturn, objects, memory
<1>18. ASSUME NEW t \in Threads, DropRelay(t)
       PROVE FlagInv'
  BY <1>18 DEF DropRelay, objects, memory
<1>19. ASSUME NEW t \in Threads, DropTrampoline(t)
       PROVE FlagInv'
  <2>1. pc[t] = "dropTrampoline" /\ cur[t] \in Detours
    BY <1>19 DEF DropTrampoline
  <2>2. /\ pc' = [pc EXCEPT ![t] = "idle"] /\ cur' = [cur EXCEPT ![t] = NoDetour]
        /\ want' = [want EXCEPT ![t] = FALSE] /\ enabled' = enabled
        /\ \/ enabled[cur[t]] /\ state' = [state EXCEPT ![cur[t]] = "dangling"]
           \/ ~enabled[cur[t]] /\ state' = [state EXCEPT ![cur[t]] = "none"]
    BY <1>19 DEF DropTrampoline
  <2>3. ASSUME NEW e \in Detours, enabled'[e]
        PROVE  Present(e)'
    <3>1. enabled[e] /\ Present(e)
      BY <2>2, <2>3
    <3>2. CASE e = cur[t]
      BY <2>1, <2>2, <3>1, <3>2
    <3>3. CASE e # cur[t]
      BY <2>1, <2>2, <3>1, <3>3
    <3> QED BY <3>2, <3>3
  <2>4. /\ pc'[t] = "idle"
        /\ \A u \in Threads \ {t} : pc'[u] = pc[u] /\ cur'[u] = cur[u] /\ want'[u] = want[u]
    BY <2>2
  <2>5. WantInv'
    BY <2>2, <2>4, WantFrame
  <2> QED BY <2>3, <2>5
<1>20. ASSUME NEW c \in Cells, Refill(c)
       PROVE FlagInv'
  BY <1>20 DEF Refill, locals, objects, memory
<1>21. CASE UNCHANGED vars
  BY <1>21 DEF vars
<1>22. ASSUME NEW t \in Threads, NewSameAddress(t)
       PROVE FlagInv'
  BY <1>22 DEF NewSameAddress, vars, objects, memory
<1> HIDE DEF TypeOK, ControlInv, LockInv, WorkInv, FlagInv, WantInv, Present,
            Goto, Return, Critical, NewSteps, ToggleSteps
<1> QED
  BY <1>1, <1>2, <1>3, <1>4, <1>5, <1>6, <1>7, <1>8, <1>9, <1>10, <1>11, <1>12,
     <1>13, <1>14, <1>15, <1>16, <1>17, <1>18, <1>19, <1>20, <1>21, <1>22,
     NextCases, Zenon
\* No two threads work on overlapping detours, and the newest is toggled first.
LEMMA QuietStep ==
  ASSUME ClientNests, TypeOK, ControlInv, QuietInv, [Next]_vars
  PROVE  QuietInv'
<1> USE DEF TypeOK, ControlInv, WorkInv, QuietInv, Newest, Undisturbed,
           Goto, Return, Critical, NewSteps, ToggleSteps
<1>1. ASSUME NEW t \in Threads, NEW d \in Detours, NewCall(t, d)
       PROVE QuietInv'
  <2>1. /\ pc' = [pc EXCEPT ![t] = "newLock"] /\ cur' = [cur EXCEPT ![t] = d]
        /\ older' = older
    BY <1>1 DEF NewCall, objects
  <2>2. \A u \in Threads : cur[u] # NoDetour => ~Overlap(d, cur[u]) /\ ~Overlap(cur[u], d)
    BY <1>1, OverlapSymmetric DEF NewCall, MayNew
  <2>3. ~Overlap(d, d)
    BY DEF Overlap
  <2>5. \A u, v \in Threads :
          cur'[u] # NoDetour /\ cur'[v] # NoDetour => ~Overlap(cur'[u], cur'[v])
    BY <2>1, <2>2, <2>3
  <2>6. \A u \in Threads :
          pc'[u] \in ToggleSteps \cup {"toggleLock", "dropRelay", "dropTrampoline"}
            => \A e \in Detours : cur'[u] \notin older'[e]
    BY <2>1
  <2> QED BY <2>5, <2>6
<1>2. ASSUME NEW t \in Threads, NEW d \in Detours, NEW w \in BOOLEAN, ToggleCall(t, d, w)
       PROVE QuietInv'
  <2>1. /\ pc' = [pc EXCEPT ![t] = "toggleLock"] /\ cur' = [cur EXCEPT ![t] = d]
        /\ older' = older
    BY <1>2 DEF ToggleCall, objects
  <2>2. \A u \in Threads : cur[u] # NoDetour => ~Overlap(d, cur[u]) /\ ~Overlap(cur[u], d)
    BY <1>2, OverlapSymmetric DEF ToggleCall, MayToggle
  <2>3. ~Overlap(d, d)
    BY DEF Overlap
  <2>4. Newest(d)
    BY <1>2 DEF ToggleCall, MayToggle
  <2>5. \A u, v \in Threads :
          cur'[u] # NoDetour /\ cur'[v] # NoDetour => ~Overlap(cur'[u], cur'[v])
    BY <2>1, <2>2, <2>3
  <2>6. \A u \in Threads :
          pc'[u] \in ToggleSteps \cup {"toggleLock", "dropRelay", "dropTrampoline"}
            => \A e \in Detours : cur'[u] \notin older'[e]
    BY <2>1, <2>4
  <2> QED BY <2>5, <2>6
<1>3. ASSUME NEW t \in Threads, NEW d \in Detours, DropCall(t, d)
       PROVE QuietInv'
  <2>1. /\ pc' = [pc EXCEPT ![t] = IF DebugAssertions THEN "toggleLock" ELSE "dropRelay"] /\ cur' = [cur EXCEPT ![t] = d]
        /\ older' = older
    BY <1>3 DEF DropCall, objects
  <2>2. \A u \in Threads : cur[u] # NoDetour => ~Overlap(d, cur[u]) /\ ~Overlap(cur[u], d)
    BY <1>3, OverlapSymmetric DEF DropCall, MayDrop
  <2>3. ~Overlap(d, d)
    BY DEF Overlap
  <2>4. Newest(d)
    BY <1>3 DEF DropCall, MayDrop
  <2>5. \A u, v \in Threads :
          cur'[u] # NoDetour /\ cur'[v] # NoDetour => ~Overlap(cur'[u], cur'[v])
    BY <2>1, <2>2, <2>3
  <2>6. \A u \in Threads :
          pc'[u] \in ToggleSteps \cup {"toggleLock", "dropRelay", "dropTrampoline"}
            => \A e \in Detours : cur'[u] \notin older'[e]
    BY <2>1, <2>4
  <2> QED BY <2>5, <2>6
<1>4. ASSUME NEW t \in Threads, NewLock(t)
       PROVE QuietInv'
  BY <1>4 DEF NewLock, objects, memory
<1>5. ASSUME NEW t \in Threads, NewPrepare(t)
       PROVE QuietInv'
  BY <1>5 DEF NewPrepare, objects, memory
<1>6. ASSUME NEW t \in Threads, NewRelay(t)
       PROVE QuietInv'
  BY <1>6 DEF NewRelay, objects, memory
<1>7. ASSUME NEW t \in Threads, NewPatcher(t)
       PROVE QuietInv'
  BY <1>7 DEF NewPatcher, objects, memory
<1>8. ASSUME NEW t \in Threads, NewTrampoline(t)
       PROVE QuietInv'
  BY <1>8 DEF NewTrampoline, objects, memory
<1>9. ASSUME NEW t \in Threads, NewError(t) \/ NewPanic(t)
       PROVE QuietInv'
  <2>1. /\ pc' = [pc EXCEPT ![t] = "idle"]
        /\ cur' = [cur EXCEPT ![t] = NoDetour]
        /\ older' = [older EXCEPT ![cur[t]] = {}]
    BY <1>9, NewFailEffect
  <2> QED BY <2>1
<1>10. ASSUME NEW t \in Threads, ToggleLock(t)
       PROVE QuietInv'
  BY <1>10 DEF ToggleLock, objects, memory
<1>11. ASSUME NEW t \in Threads, ToggleCheck(t)
       PROVE QuietInv'
  BY <1>11 DEF ToggleCheck, objects, memory
<1>12. ASSUME NEW t \in Threads, ToggleProtect(t)
       PROVE QuietInv'
  BY <1>12 DEF ToggleProtect, objects, memory
<1>13. ASSUME NEW t \in Threads, NEW c \in Cells, ToggleCopy(t, c)
       PROVE QuietInv'
  BY <1>13 DEF ToggleCopy, objects, memory
<1>14. ASSUME NEW t \in Threads, ToggleStore(t)
       PROVE QuietInv'
  BY <1>14 DEF ToggleStore, objects, memory
<1>15. ASSUME NEW t \in Threads, ToggleFlush(t)
       PROVE QuietInv'
  BY <1>15 DEF ToggleFlush, objects, memory
<1>16. ASSUME NEW t \in Threads, ToggleRestore(t)
       PROVE QuietInv'
  BY <1>16 DEF ToggleRestore, objects, memory
<1>17. ASSUME NEW t \in Threads, ToggleEnd(t)
       PROVE QuietInv'
  <2>1. /\ pc[t] \in ToggleSteps \cup {"toggleLock"} /\ older' = older
        /\ \/ pc' = [pc EXCEPT ![t] = "dropRelay"] /\ cur' = cur
           \/ pc' = [pc EXCEPT ![t] = "idle"] /\ cur' = [cur EXCEPT ![t] = NoDetour]
    BY <1>17 DEF ToggleEnd, ToggleReturn, objects
  <2>2. \A u \in Threads :
          /\ cur'[u] # NoDetour => cur'[u] = cur[u]
          /\ pc'[u] \in ToggleSteps \cup {"toggleLock", "dropRelay", "dropTrampoline"} =>
               /\ pc[u] \in ToggleSteps \cup {"toggleLock", "dropRelay", "dropTrampoline"}
               /\ cur'[u] = cur[u]
    BY <2>1
  <2> QED BY <2>1, <2>2
<1>18. ASSUME NEW t \in Threads, DropRelay(t)
       PROVE QuietInv'
  BY <1>18 DEF DropRelay, objects, memory
<1>19. ASSUME NEW t \in Threads, DropTrampoline(t)
       PROVE QuietInv'
  BY <1>19 DEF DropTrampoline, objects, memory
<1>20. ASSUME NEW c \in Cells, Refill(c)
       PROVE QuietInv'
  BY <1>20 DEF Refill, locals, objects, memory
<1>21. CASE UNCHANGED vars
  BY <1>21 DEF vars
<1>22. ASSUME NEW t \in Threads, NewSameAddress(t)
       PROVE QuietInv'
  BY <1>22 DEF NewSameAddress, vars, objects, memory
<1> HIDE DEF TypeOK, ControlInv, WorkInv, QuietInv, Newest, Undisturbed,
            Goto, Return, Critical, NewSteps, ToggleSteps
<1> QED
  BY <1>1, <1>2, <1>3, <1>4, <1>5, <1>6, <1>7, <1>8, <1>9, <1>10, <1>11, <1>12,
     <1>13, <1>14, <1>15, <1>16, <1>17, <1>18, <1>19, <1>20, <1>21, <1>22,
     NextCases, Zenon
-----------------------------------------------------------------------------
(***************************************************************************)
(* The stack of detours: StackInv is about `older', `original' and `code', *)
(* and about which detours are present, captured and on.                   *)
(***************************************************************************)
LEMMA StackFrame ==
  ASSUME TypeOK, StackInv, UNCHANGED <<older, original, code>>,
         \A d \in Detours : Present(d)' <=> Present(d),
         \A d \in Detours : Captured(d)' <=> Captured(d),
         \A d \in Detours : \A c \in Area[d] : On(d, c)' <=> On(d, c)
  PROVE  StackInv'
<1>1. \A D \in SUBSET Detours, c \in Cells : OnOver(D, c)' = OnOver(D, c)
  BY DEF OnOver
<1>2. OrderInv'
  BY DEF StackInv, OrderInv, TypeOK
<1>3. CodeInv'
  BY <1>1 DEF StackInv, CodeInv, TopOf
<1>4. SavedInv'
  <2> SUFFICES ASSUME NEW d \in Detours, Captured(d)', NEW c \in Area[d]
               PROVE  TopOf(OnOver(older[d], c), original[d][c])'
    BY DEF SavedInv
  <2>1. TopOf(OnOver(older[d], c), original[d][c])
    BY DEF StackInv, SavedInv
  <2>2. older[d] \in SUBSET Detours /\ c \in Cells
    BY DEF TypeOK
  <2>3. OnOver(older[d], c)' = OnOver(older[d], c)
    BY <2>2 DEF OnOver
  <2> QED BY <2>1, <2>3 DEF TopOf
<1> QED BY <1>2, <1>3, <1>4 DEF StackInv

\* A step of a thread that neither copies nor captures.
LEMMA StackMove ==
  ASSUME TypeOK, StackInv, NEW t \in Threads,
         pc[t] \notin {"toggleCopy", "newTrampoline"},
         pc'[t] \notin {"toggleCopy", "newTrampoline"},
         \A u \in Threads \ {t} : pc'[u] = pc[u] /\ cur'[u] = cur[u] /\ todo'[u] = todo[u],
         UNCHANGED <<enabled, older, original, code>>,
         \A d \in Detours : Present(d)' <=> Present(d)
  PROVE  StackInv'
<1>1. \A d, c : Copied(d, c)' <=> Copied(d, c)
  BY DEF Copied
<1>2. \A d \in Detours : Captured(d)' <=> Captured(d)
  BY DEF Captured
<1>3. \A d \in Detours : \A c \in Area[d] : On(d, c)' <=> On(d, c)
  BY <1>1 DEF On
<1> QED BY <1>2, <1>3, StackFrame
\* A thread that builds or drops an object has it for itself.
LEMMA Alone ==
  ASSUME TypeOK, ControlInv, NEW t \in Threads, cur[t] \in Detours,
         state[cur[t]] # "live", NEW u \in Threads, u # t
  PROVE  cur[u] # cur[t]
  BY DEF TypeOK, ControlInv, AloneInv

\* NewPatcher puts a new detour on top of the stack.
LEMMA StackPatcher ==
  ASSUME TypeOK, ControlInv, StackInv, NEW t \in Threads, NewPatcher(t)
  PROVE  StackInv'
<1>0. PICK d \in Detours : cur[t] = d
  BY AtWork DEF NewPatcher
<1>1. state[d] = "building" /\ ~Present(d) /\ lock = t
  BY <1>0 DEF NewPatcher, TypeOK, ControlInv, WorkInv, LockInv, Critical, NewSteps, Present
<1>2. /\ pc[t] = "newPatcher" /\ pc' = [pc EXCEPT ![t] = "newTrampoline"] /\ cur' = cur
      /\ original' = [original EXCEPT ![d] = code]
      /\ older' = [older EXCEPT ![d] = {e \in Detours : Overlap(d, e) /\ Present(e)}]
      /\ UNCHANGED <<code, enabled, state, todo>>
  BY <1>0 DEF NewPatcher, Goto, memory
<1>3. \A u \in Threads \ {t} : cur[u] # d
  BY <1>0, <1>1, Alone
<1>4. \A e \in Detours : Present(e)' <=> Present(e)
  BY <1>2 DEF Present
<1>5. \A e, c : On(e, c)' <=> On(e, c)
  <2>1. \A e, c : Copied(e, c)' <=> Copied(e, c)
    BY <1>2 DEF Copied, TypeOK
  <2> QED BY <1>2, <2>1 DEF On
<1>6. Captured(d)' /\ \A e \in Detours \ {d} : Captured(e)' <=> Captured(e)
  BY <1>0, <1>1, <1>2, <1>4 DEF Captured, TypeOK
<1>7. \A e \in Detours : d \notin older[e]
  BY <1>1 DEF StackInv, OrderInv
<1>8. /\ older'[d] = {e \in Detours : Overlap(d, e) /\ Present(e)}
      /\ \A e \in Detours \ {d} : older'[e] = older[e]
  BY <1>1, <1>2 DEF TypeOK
<1>9. OrderInv'
  <2>1. ASSUME NEW x \in Detours, NEW e \in older'[x]
        PROVE  Captured(x)' /\ Present(e)' /\ Overlap(x, e) /\ x \notin older'[e]
    <3>1. CASE x = d
      <4>1. e \in Detours /\ Overlap(d, e) /\ Present(e) /\ e # d
        BY <1>1, <1>8, <2>1, <3>1
      <4>2. d \notin older'[e]
        BY <1>7, <1>8, <4>1
      <4> QED BY <1>4, <1>6, <3>1, <4>1, <4>2
    <3>2. CASE x # d
      <4>1. e \in older[x] /\ e \in Detours
        BY <1>8, <2>1, <3>2 DEF TypeOK
      <4>2. Captured(x) /\ Present(e) /\ Overlap(x, e) /\ x \notin older[e]
        BY <4>1 DEF StackInv, OrderInv
      <4> QED BY <1>1, <1>4, <1>6, <1>8, <3>2, <4>1, <4>2
    <3> QED BY <3>1, <3>2
  <2>2. ASSUME NEW x \in Detours, NEW e \in Detours,
               Captured(x)', Present(e)', Overlap(x, e)
        PROVE  e \in older'[x] \/ x \in older'[e]
    <3>1. CASE x = d
      BY <1>4, <1>8, <2>2, <3>1
    <3>2. CASE x # d
      <4>1. Captured(x) /\ Present(e) /\ e # d
        BY <1>1, <1>4, <1>6, <2>2, <3>2
      <4> QED BY <1>8, <2>2, <3>2, <4>1 DEF StackInv, OrderInv
    <3> QED BY <3>1, <3>2
  <2> QED BY <2>1, <2>2 DEF OrderInv
<1>10. \A D \in SUBSET Detours, c \in Cells : OnOver(D, c)' = OnOver(D, c)
  BY <1>4, <1>5 DEF OnOver
<1>11. \A D \in SUBSET Detours, c \in Cells : \A x : TopOf(OnOver(D, c), x) =>
         \/ OnOver(D, c) = {} /\ x = Orig
         \/ x \in OnOver(D, c) /\ \A e \in OnOver(D, c) : e = x \/ e \in older'[x]
  BY <1>1, <1>8 DEF TopOf, OnOver
<1>12. CodeInv'
  <2> SUFFICES ASSUME NEW c \in Cells
               PROVE  TopOf(OnOver(Detours, c), code[c])'
    BY DEF CodeInv
  <2>1. TopOf(OnOver(Detours, c), code[c])
    BY DEF StackInv, CodeInv
  <2>2. OnOver(Detours, c)' = OnOver(Detours, c)
    BY <1>10
  <2> QED BY <1>2, <1>11, <2>1, <2>2 DEF TopOf
<1>13. SavedInv'
  <2> SUFFICES ASSUME NEW x \in Detours, Captured(x)', NEW c \in Area[x]
               PROVE  TopOf(OnOver(older[x], c), original[x][c])'
    BY DEF SavedInv
  <2>1. c \in Cells
    OBVIOUS
  <2>2. CASE x = d
    <3>1. OnOver(older[x], c)' = OnOver(Detours, c)
      BY <1>1, <1>4, <1>5, <1>8, <2>2 DEF OnOver, Overlap, Touched
    <3>2. original'[x][c] = code[c]
      BY <1>1, <1>2, <2>2 DEF TypeOK
    <3>3. TopOf(OnOver(Detours, c), code[c])
      BY <2>1 DEF StackInv, CodeInv
    <3> QED BY <1>11, <2>1, <3>1, <3>2, <3>3 DEF TopOf
  <2>3. CASE x # d
    <3>1. Captured(x) /\ older'[x] = older[x] /\ original'[x] = original[x]
      BY <1>1, <1>2, <1>6, <1>8, <2>3 DEF TypeOK
    <3>2. TopOf(OnOver(older[x], c), original[x][c])
      BY <3>1 DEF StackInv, SavedInv
    <3>3. OnOver(older[x], c)' = OnOver(older[x], c) /\ older[x] \in SUBSET Detours
      BY <1>4, <1>5, <3>1 DEF OnOver, TypeOK
    <3> QED BY <1>11, <2>1, <3>1, <3>2, <3>3 DEF TopOf
  <2> QED BY <2>2, <2>3
<1> QED BY <1>9, <1>12, <1>13 DEF StackInv
\* A detour that is off, and that no newer one rests on, is forgotten: by an
\* error of new, or at the end of a drop.
LEMMA StackForget ==
  ASSUME TypeOK, ControlInv, StackInv, NEW t \in Threads, NEW d \in Detours,
         cur[t] = d, state[d] # "live", pc[t] # "toggleCopy", ~enabled[d],
         \A e \in Detours : d \notin older[e],
         pc' = [pc EXCEPT ![t] = "idle"],
         cur' = [cur EXCEPT ![t] = NoDetour],
         state' = [state EXCEPT ![d] = "none"],
         original' = [original EXCEPT ![d] = Pristine],
         older' = [older EXCEPT ![d] = {}],
         UNCHANGED <<code, enabled, todo>>
  PROVE  StackInv'
<1>1. \A u \in Threads \ {t} : cur[u] # d
  BY Alone
<1>2. ~Present(d)' /\ \A e \in Detours \ {d} : Present(e)' <=> Present(e)
  BY DEF Present, TypeOK
<1>3. \A e \in Detours : \A c : Copied(e, c)' <=> Copied(e, c)
  BY DEF Copied, TypeOK
<1>4. \A c : ~On(d, c)
  BY <1>1 DEF On, Copied
<1>5. \A e \in Detours : \A c : On(e, c)' <=> On(e, c)
  BY <1>3 DEF On
<1>6. ~Captured(d)' /\ \A e \in Detours \ {d} : Captured(e)' <=> Captured(e)
  BY <1>1, <1>2 DEF Captured, TypeOK
<1>7. /\ older'[d] = {} /\ \A e \in Detours \ {d} : older'[e] = older[e]
      /\ \A e \in Detours \ {d} : original'[e] = original[e]
  BY DEF TypeOK
<1>8. OrderInv'
  <2>1. ASSUME NEW x \in Detours, NEW e \in older'[x]
        PROVE  Captured(x)' /\ Present(e)' /\ Overlap(x, e) /\ x \notin older'[e]
    <3>1. x # d /\ e \in older[x] /\ e # d /\ e \in Detours
      BY <1>7, <2>1 DEF TypeOK
    <3>2. Captured(x) /\ Present(e) /\ Overlap(x, e) /\ x \notin older[e]
      BY <3>1 DEF StackInv, OrderInv
    <3> QED BY <1>2, <1>6, <1>7, <3>1, <3>2
  <2>2. ASSUME NEW x \in Detours, NEW e \in Detours,
               Captured(x)', Present(e)', Overlap(x, e)
        PROVE  e \in older'[x] \/ x \in older'[e]
    <3>1. x # d /\ e # d /\ Captured(x) /\ Present(e)
      BY <1>2, <1>6, <2>2
    <3> QED BY <1>7, <2>2, <3>1 DEF StackInv, OrderInv
  <2> QED BY <2>1, <2>2 DEF OrderInv
<1>9. \A D \in SUBSET Detours, c \in Cells :
        d \notin OnOver(D, c) /\ OnOver(D, c)' = OnOver(D, c)
  BY <1>2, <1>4, <1>5 DEF OnOver
<1>10. CodeInv'
  <2> SUFFICES ASSUME NEW c \in Cells
               PROVE  TopOf(OnOver(Detours, c), code[c])'
    BY DEF CodeInv
  <2>1. TopOf(OnOver(Detours, c), code[c])
    BY DEF StackInv, CodeInv
  <2>2. OnOver(Detours, c)' = OnOver(Detours, c) /\ d \notin OnOver(Detours, c)
        /\ OnOver(Detours, c) \subseteq Detours
    BY <1>9 DEF OnOver
  <2> QED BY <1>7, <2>1, <2>2 DEF TopOf
<1>11. SavedInv'
  <2> SUFFICES ASSUME NEW x \in Detours, Captured(x)', NEW c \in Area[x]
               PROVE  TopOf(OnOver(older[x], c), original[x][c])'
    BY DEF SavedInv
  <2>1. x # d /\ Captured(x) /\ older'[x] = older[x] /\ original'[x] = original[x]
    BY <1>6, <1>7
  <2>2. TopOf(OnOver(older[x], c), original[x][c])
    BY <2>1 DEF StackInv, SavedInv
  <2>3. older[x] \in SUBSET Detours /\ c \in Cells
    BY DEF TypeOK
  <2>4. /\ OnOver(older[x], c)' = OnOver(older[x], c)
        /\ d \notin OnOver(older[x], c) /\ OnOver(older[x], c) \subseteq Detours
    BY <1>2, <1>5, <2>1, <2>3, <1>9 DEF OnOver
  <2> QED BY <1>7, <2>1, <2>2, <2>4 DEF TopOf
<1> QED BY <1>8, <1>10, <1>11 DEF StackInv

\* NewTrampoline makes a detour present that is off.
LEMMA StackTrampoline ==
  ASSUME TypeOK, ControlInv, StackInv, NEW t \in Threads, NewTrampoline(t)
  PROVE  StackInv'
<1>0. PICK d \in Detours : cur[t] = d
  BY AtWork DEF NewTrampoline
<1>1. state[d] = "building" /\ ~Present(d) /\ lock = t /\ pc[t] = "newTrampoline"
  BY <1>0 DEF NewTrampoline, TypeOK, ControlInv, WorkInv, LockInv, Critical, NewSteps, Present
<1>2. /\ pc' = [pc EXCEPT ![t] = "idle"] /\ cur' = [cur EXCEPT ![t] = NoDetour]
      /\ state' = [state EXCEPT ![d] = "live"]
      /\ enabled' = [enabled EXCEPT ![d] = FALSE]
      /\ UNCHANGED <<code, older, original, todo>>
  BY <1>0 DEF NewTrampoline, Return, Goto, memory
<1>3. \A u \in Threads : pc[u] # "toggleCopy" /\ pc'[u] # "toggleCopy"
  BY <1>1, <1>2 DEF TypeOK, ControlInv, LockInv, Critical, ToggleSteps
<1>4. \A u \in Threads : pc[u] = "newTrampoline" => u = t
  BY <1>1 DEF ControlInv, LockInv, Critical, NewSteps
<1>5. Present(d)' /\ \A e \in Detours \ {d} : Present(e)' <=> Present(e)
  BY <1>2 DEF Present, TypeOK
<1>6. \A e \in Detours : Captured(e)' <=> Captured(e)
  BY <1>0, <1>1, <1>2, <1>4, <1>5 DEF Captured, TypeOK
<1>7. \A e \in Detours \ {d} : \A c : On(e, c)' <=> On(e, c)
  BY <1>2, <1>3 DEF On, Copied, TypeOK
<1>8. \A c : ~On(d, c)'
  BY <1>2, <1>3 DEF On, Copied, TypeOK
<1>9. OrderInv'
  <2>1. ASSUME NEW x \in Detours, NEW e \in older'[x]
        PROVE  Captured(x)' /\ Present(e)' /\ Overlap(x, e) /\ x \notin older'[e]
    <3>1. e \in older[x] /\ e \in Detours
      BY <1>2, <2>1 DEF TypeOK
    <3>2. Captured(x) /\ Present(e) /\ Overlap(x, e) /\ x \notin older[e]
      BY <3>1 DEF StackInv, OrderInv
    <3> QED BY <1>1, <1>2, <1>5, <1>6, <3>1, <3>2
  <2>2. ASSUME NEW x \in Detours, NEW e \in Detours,
               Captured(x)', Present(e)', Overlap(x, e)
        PROVE  e \in older'[x] \/ x \in older'[e]
    <3>1. CASE e = d
      <4>1. Captured(d) /\ x # d
        BY <1>0, <1>1, <2>2, <3>1 DEF Captured, Overlap
      <4>2. Present(x)
        BY <1>0, <1>4, <1>6, <2>2, <4>1 DEF Captured
      <4>3. Overlap(d, x)
        BY <2>2, <3>1, OverlapSymmetric
      <4> QED BY <1>2, <3>1, <4>1, <4>2, <4>3 DEF StackInv, OrderInv
    <3>2. CASE e # d
      BY <1>2, <1>5, <1>6, <2>2, <3>2 DEF StackInv, OrderInv
    <3> QED BY <3>1, <3>2
  <2> QED BY <2>1, <2>2 DEF OrderInv
<1>10. \A D \in SUBSET Detours, c \in Cells : OnOver(D, c)' = OnOver(D, c)
  BY <1>1, <1>5, <1>7, <1>8 DEF OnOver
<1>11. CodeInv'
  BY <1>2, <1>10 DEF StackInv, CodeInv, TopOf
<1>12. SavedInv'
  <2> SUFFICES ASSUME NEW x \in Detours, Captured(x)', NEW c \in Area[x]
               PROVE  TopOf(OnOver(older[x], c), original[x][c])'
    BY DEF SavedInv
  <2>1. TopOf(OnOver(older[x], c), original[x][c])
    BY <1>6 DEF StackInv, SavedInv
  <2>2. older[x] \in SUBSET Detours /\ c \in Cells
    BY DEF TypeOK
  <2>3. OnOver(older[x], c)' = OnOver(older[x], c)
    BY <1>1, <1>2, <1>5, <1>7, <1>8, <2>2 DEF OnOver
  <2> QED BY <1>2, <2>1, <2>3 DEF TopOf
<1> QED BY <1>9, <1>11, <1>12 DEF StackInv
\* ToggleCopy turns the newest detour over a cell on or off.
LEMMA StackCopy ==
  ASSUME TypeOK, ControlInv, ProtInv, FlagInv, QuietInv, StackInv,
         NEW t \in Threads, NEW c \in Cells, ToggleCopy(t, c)
  PROVE  StackInv'
<1>0. PICK d \in Detours : cur[t] = d
  BY AtWork DEF ToggleCopy
<1>1. /\ pc[t] = "toggleCopy" /\ lock = t /\ Present(d)
      /\ \A e \in Detours : d \notin older[e]
      /\ enabled[d] # want[t] /\ c \in Area[d] /\ c \in todo[t]
  <2>1. pc[t] = "toggleCopy" /\ c \in todo[t]
    BY DEF ToggleCopy
  <2>2. lock = t
    BY <2>1 DEF ControlInv, LockInv, Critical, ToggleSteps
  <2>3. Present(d)
    BY <1>0, <2>1 DEF ControlInv, WorkInv, ToggleSteps, Present
  <2>4. \A e \in Detours : d \notin older[e]
    BY <1>0, <2>1 DEF QuietInv, Newest, ToggleSteps
  <2>5. enabled[d] # want[t]
    BY <1>0, <2>1, Zenon DEF FlagInv, WantInv
  <2>6. c \in Area[d]
    BY <1>0, <2>1 DEF ProtInv, Writing
  <2> QED BY <2>1, <2>2, <2>3, <2>4, <2>5, <2>6
<1>2. /\ code' = [code EXCEPT ![c] = IF want[t] THEN d ELSE original[d][c]]
      /\ todo' = [todo EXCEPT ![t] = todo[t] \ {c}]
      /\ UNCHANGED <<pc, cur, state, enabled, older, original>>
  BY <1>0 DEF ToggleCopy, objects
<1>3. \A u \in Threads \ {t} : pc[u] # "toggleCopy"
  BY <1>1 DEF ControlInv, LockInv, Critical, ToggleSteps
<1>4. /\ \A e \in Detours : Present(e)' <=> Present(e)
      /\ \A e \in Detours : Captured(e)' <=> Captured(e)
  BY <1>2 DEF Present, Captured
<1>5. ~Copied(d, c) /\ Copied(d, c)'
  BY <1>0, <1>1, <1>2, <1>3 DEF Copied, TypeOK
<1>6. \A e \in Detours, b \in Cells : e # d \/ b # c => (Copied(e, b)' <=> Copied(e, b))
  BY <1>0, <1>1, <1>2, <1>3 DEF Copied, TypeOK
<1>7. (On(d, c) <=> enabled[d]) /\ (On(d, c)' <=> ~enabled[d])
  BY <1>2, <1>5 DEF On, TypeOK
<1>8. \A e \in Detours, b \in Cells : e # d \/ b # c => (On(e, b)' <=> On(e, b))
  BY <1>2, <1>6 DEF On
<1>9. \A b \in Cells \ {c}, D \in SUBSET Detours : OnOver(D, b)' = OnOver(D, b)
  BY <1>4, <1>8 DEF OnOver
<1>10. \A D \in SUBSET (Detours \ {d}) : OnOver(D, c)' = OnOver(D, c)
  BY <1>4, <1>8 DEF OnOver
<1>11. \A e \in OnOver(Detours, c) \cup OnOver(Detours, c)' : e = d \/ e \in older[d]
  <2> SUFFICES ASSUME NEW e \in Detours, e # d, c \in Area[e], Present(e)
               PROVE  e \in older[d]
    BY <1>4 DEF OnOver
  <2>1. Overlap(d, e)
    BY <1>1 DEF Overlap, Touched
  <2>2. Captured(d)
    BY <1>1 DEF Captured
  <2> QED BY <1>1, <2>1, <2>2 DEF StackInv, OrderInv
<1>12. OrderInv'
  BY <1>2, <1>4 DEF StackInv, OrderInv, TypeOK
<1>13. TopOf(OnOver(Detours, c), code[c])'
  <2>1. CASE want[t]
    <3>1. On(d, c)'
      BY <1>1, <1>7, <2>1, Zenon DEF TypeOK
    <3>2. code'[c] = d
      BY <1>2, <2>1 DEF TypeOK
    <3>3. d \in OnOver(Detours, c)'
      BY <1>1, <1>4, <3>1 DEF OnOver
    <3> QED BY <1>2, <1>11, <3>2, <3>3 DEF TopOf
  <2>2. CASE ~want[t]
    <3>1. ~On(d, c)'
      <4>1. want[t] = FALSE /\ enabled[d] \in BOOLEAN
        BY <2>2 DEF TypeOK
      <4>2. enabled[d]
        BY <1>1, <4>1, Zenon
      <4> QED BY <1>7, <4>2
    <3>2. code'[c] = original[d][c]
      BY <1>2, <2>2 DEF TypeOK
    <3>3. older[d] \in SUBSET (Detours \ {d})
      BY <1>1 DEF TypeOK
    <3>4. OnOver(Detours, c)' = OnOver(older[d], c)
      <4>1. OnOver(Detours, c)' = OnOver(older[d], c)'
        BY <1>2, <1>11, <3>1, <3>3 DEF OnOver
      <4>2. OnOver(older[d], c)' = OnOver(older[d], c)
        BY <1>2, <1>4, <1>8, <3>3 DEF OnOver
      <4> QED BY <4>1, <4>2
    <3>5. TopOf(OnOver(older[d], c), original[d][c])
      BY <1>1 DEF StackInv, SavedInv, Captured
    <3> QED BY <1>2, <3>2, <3>4, <3>5 DEF TopOf
  <2> QED BY <2>1, <2>2
<1>14. CodeInv'
  <2> SUFFICES ASSUME NEW b \in Cells, b # c
               PROVE  TopOf(OnOver(Detours, b), code[b])'
    BY <1>13 DEF CodeInv
  <2>1. TopOf(OnOver(Detours, b), code[b])
    BY DEF StackInv, CodeInv
  <2>2. code'[b] = code[b]
    BY <1>2 DEF TypeOK
  <2>3. OnOver(Detours, b)' = OnOver(Detours, b)
    BY <1>9
  <2> QED BY <1>2, <2>1, <2>2, <2>3 DEF TopOf
<1>15. SavedInv'
  <2> SUFFICES ASSUME NEW x \in Detours, Captured(x)', NEW b \in Area[x]
               PROVE  TopOf(OnOver(older[x], b), original[x][b])'
    BY DEF SavedInv
  <2>1. TopOf(OnOver(older[x], b), original[x][b])
    BY <1>4 DEF StackInv, SavedInv
  <2>2. older[x] \in SUBSET (Detours \ {d}) /\ b \in Cells
    BY <1>1 DEF TypeOK
  <2>3. OnOver(older[x], b)' = OnOver(older[x], b)
    BY <1>2, <1>4, <1>8, <2>2 DEF OnOver
  <2> QED BY <1>2, <2>1, <2>3 DEF TopOf
<1> QED BY <1>12, <1>14, <1>15 DEF StackInv
\* The stack is inductive, for a client that nests.
LEMMA StackStep ==
  ASSUME TypeOK, ControlInv, ProtInv, FlagInv, QuietInv, StackInv, [Next]_vars
  PROVE  StackInv'
<1>1. ASSUME NEW t \in Threads, NEW d \in Detours, NewCall(t, d)
       PROVE StackInv'
  <2>1. /\ pc[t] \notin {"toggleCopy", "newTrampoline"}
        /\ pc'[t] \notin {"toggleCopy", "newTrampoline"}
        /\ \A u \in Threads \ {t} : pc'[u] = pc[u] /\ cur'[u] = cur[u] /\ todo'[u] = todo[u]
        /\ UNCHANGED <<enabled, older, original, code>>
    BY <1>1 DEF NewCall, Goto, objects, memory, TypeOK
  <2>2. \A e \in Detours : Present(e)' <=> Present(e)
    BY <1>1, AtWork DEF NewCall, Goto, objects, memory, Present, TypeOK
  <2> QED BY <1>1, <2>1, <2>2, StackMove
<1>2. ASSUME NEW t \in Threads, NEW d \in Detours, NEW w \in BOOLEAN, ToggleCall(t, d, w)
       PROVE StackInv'
  <2>1. /\ pc[t] \notin {"toggleCopy", "newTrampoline"}
        /\ pc'[t] \notin {"toggleCopy", "newTrampoline"}
        /\ \A u \in Threads \ {t} : pc'[u] = pc[u] /\ cur'[u] = cur[u] /\ todo'[u] = todo[u]
        /\ UNCHANGED <<enabled, older, original, code>>
    BY <1>2 DEF ToggleCall, Goto, objects, memory, TypeOK
  <2>2. \A e \in Detours : Present(e)' <=> Present(e)
    BY <1>2, AtWork DEF ToggleCall, Goto, objects, memory, Present, TypeOK
  <2> QED BY <1>2, <2>1, <2>2, StackMove
<1>3. ASSUME NEW t \in Threads, NEW d \in Detours, DropCall(t, d)
       PROVE StackInv'
  <2>1. /\ pc[t] \notin {"toggleCopy", "newTrampoline"}
        /\ pc'[t] \notin {"toggleCopy", "newTrampoline"}
        /\ \A u \in Threads \ {t} : pc'[u] = pc[u] /\ cur'[u] = cur[u] /\ todo'[u] = todo[u]
        /\ UNCHANGED <<enabled, older, original, code>>
    BY <1>3 DEF DropCall, Goto, objects, memory, TypeOK
  <2>2. \A e \in Detours : Present(e)' <=> Present(e)
    BY <1>3, AtWork DEF DropCall, Goto, objects, memory, Present, TypeOK
  <2> QED BY <1>3, <2>1, <2>2, StackMove
<1>4. ASSUME NEW t \in Threads, NewLock(t)
       PROVE StackInv'
  <2>1. /\ pc[t] \notin {"toggleCopy", "newTrampoline"}
        /\ pc'[t] \notin {"toggleCopy", "newTrampoline"}
        /\ \A u \in Threads \ {t} : pc'[u] = pc[u] /\ cur'[u] = cur[u] /\ todo'[u] = todo[u]
        /\ UNCHANGED <<enabled, older, original, code>>
    BY <1>4 DEF NewLock, Goto, objects, memory, TypeOK
  <2>2. \A e \in Detours : Present(e)' <=> Present(e)
    BY <1>4, AtWork DEF NewLock, Goto, objects, memory, Present, TypeOK
  <2> QED BY <1>4, <2>1, <2>2, StackMove
<1>5. ASSUME NEW t \in Threads, NewPrepare(t)
       PROVE StackInv'
  <2>1. /\ pc[t] \notin {"toggleCopy", "newTrampoline"}
        /\ pc'[t] \notin {"toggleCopy", "newTrampoline"}
        /\ \A u \in Threads \ {t} : pc'[u] = pc[u] /\ cur'[u] = cur[u] /\ todo'[u] = todo[u]
        /\ UNCHANGED <<enabled, older, original, code>>
    BY <1>5 DEF NewPrepare, Goto, objects, memory, TypeOK
  <2>2. \A e \in Detours : Present(e)' <=> Present(e)
    BY <1>5, AtWork DEF NewPrepare, Goto, objects, memory, Present, TypeOK
  <2> QED BY <1>5, <2>1, <2>2, StackMove
<1>6. ASSUME NEW t \in Threads, NewRelay(t)
       PROVE StackInv'
  <2>1. /\ pc[t] \notin {"toggleCopy", "newTrampoline"}
        /\ pc'[t] \notin {"toggleCopy", "newTrampoline"}
        /\ \A u \in Threads \ {t} : pc'[u] = pc[u] /\ cur'[u] = cur[u] /\ todo'[u] = todo[u]
        /\ UNCHANGED <<enabled, older, original, code>>
    BY <1>6 DEF NewRelay, Goto, objects, memory, TypeOK
  <2>2. \A e \in Detours : Present(e)' <=> Present(e)
    BY <1>6, AtWork DEF NewRelay, Goto, objects, memory, Present, TypeOK
  <2> QED BY <1>6, <2>1, <2>2, StackMove
<1>7. ASSUME NEW t \in Threads, NewPatcher(t)
       PROVE StackInv'
  BY <1>7, StackPatcher
<1>8. ASSUME NEW t \in Threads, NewTrampoline(t)
       PROVE StackInv'
  BY <1>8, StackTrampoline
<1>9. ASSUME NEW t \in Threads, NewError(t) \/ NewPanic(t)
       PROVE StackInv'
  <2>0. PICK d \in Detours : cur[t] = d
    BY <1>9, AtWork DEF NewError, NewPanic
  <2>1. state[d] = "building" /\ pc[t] # "toggleCopy"
    BY <1>9, <2>0 DEF NewError, NewPanic, ControlInv, WorkInv, NewSteps
  <2>2. ~enabled[d] /\ \A e \in Detours : d \notin older[e]
    BY <2>1 DEF FlagInv, StackInv, OrderInv, Present
  <2>3. /\ pc' = [pc EXCEPT ![t] = "idle"] /\ cur' = [cur EXCEPT ![t] = NoDetour]
        /\ state' = [state EXCEPT ![d] = "none"]
        /\ original' = [original EXCEPT ![d] = Pristine]
        /\ older' = [older EXCEPT ![d] = {}]
        /\ UNCHANGED <<code, enabled, todo>>
    BY <1>9, <2>0 DEF NewError, NewPanic, NewFail, Return, Goto, memory
  <2> QED BY <2>0, <2>1, <2>2, <2>3, StackForget
<1>10. ASSUME NEW t \in Threads, ToggleLock(t)
       PROVE StackInv'
  <2>1. /\ pc[t] \notin {"toggleCopy", "newTrampoline"}
        /\ pc'[t] \notin {"toggleCopy", "newTrampoline"}
        /\ \A u \in Threads \ {t} : pc'[u] = pc[u] /\ cur'[u] = cur[u] /\ todo'[u] = todo[u]
        /\ UNCHANGED <<enabled, older, original, code>>
    BY <1>10 DEF ToggleLock, Goto, objects, memory, TypeOK
  <2>2. \A e \in Detours : Present(e)' <=> Present(e)
    BY <1>10, AtWork DEF ToggleLock, Goto, objects, memory, Present, TypeOK
  <2> QED BY <1>10, <2>1, <2>2, StackMove
<1>11. ASSUME NEW t \in Threads, ToggleCheck(t)
       PROVE StackInv'
  <2>1. /\ pc[t] \notin {"toggleCopy", "newTrampoline"}
        /\ pc'[t] \notin {"toggleCopy", "newTrampoline"}
        /\ \A u \in Threads \ {t} : pc'[u] = pc[u] /\ cur'[u] = cur[u] /\ todo'[u] = todo[u]
        /\ UNCHANGED <<enabled, older, original, code>>
    BY <1>11 DEF ToggleCheck, Goto, objects, memory, TypeOK
  <2>2. \A e \in Detours : Present(e)' <=> Present(e)
    BY <1>11, AtWork DEF ToggleCheck, Goto, objects, memory, Present, TypeOK
  <2> QED BY <1>11, <2>1, <2>2, StackMove
<1>12. ASSUME NEW t \in Threads, ToggleProtect(t)
       PROVE StackInv'
  <2>0. PICK d \in Detours : cur[t] = d
    BY <1>12, AtWork DEF ToggleProtect
  <2>1. /\ pc[t] = "toggleProtect" /\ pc' = [pc EXCEPT ![t] = "toggleCopy"]
        /\ todo' = [todo EXCEPT ![t] = Area[d]]
        /\ UNCHANGED <<cur, state, enabled, older, original, code>>
    BY <1>12, <2>0 DEF ToggleProtect, Goto, objects
  <2>2. \A e \in Detours : (Present(e)' <=> Present(e)) /\ (Captured(e)' <=> Captured(e))
    BY <2>1 DEF Present, Captured, TypeOK
  <2>3. \A e \in Detours : \A c \in Area[e] : Copied(e, c)' <=> Copied(e, c)
    BY <2>0, <2>1 DEF Copied, TypeOK
  <2>4. \A e \in Detours : \A c \in Area[e] : On(e, c)' <=> On(e, c)
    BY <2>1, <2>3 DEF On
  <2> QED BY <2>1, <2>2, <2>4, StackFrame
<1>13. ASSUME NEW t \in Threads, NEW c \in Cells, ToggleCopy(t, c)
       PROVE StackInv'
  BY <1>13, StackCopy
<1>14. ASSUME NEW t \in Threads, ToggleStore(t)
       PROVE StackInv'
  <2>0. PICK d \in Detours : cur[t] = d
    BY <1>14, AtWork DEF ToggleStore
  <2>1. /\ pc[t] = "toggleCopy" /\ todo[t] = {} /\ pc' = [pc EXCEPT ![t] = "toggleFlush"]
        /\ enabled' = [enabled EXCEPT ![d] = want[t]]
        /\ UNCHANGED <<cur, todo, state, older, original, code>>
    BY <1>14, <2>0 DEF ToggleStore, Goto, memory
  <2>2. lock = t /\ \A u \in Threads \ {t} : pc[u] # "toggleCopy"
    BY <2>1 DEF ControlInv, LockInv, Critical, ToggleSteps
  <2>3. \A e \in Detours : (Present(e)' <=> Present(e)) /\ (Captured(e)' <=> Captured(e))
    BY <2>1 DEF Present, Captured, TypeOK
  <2>4. \A e \in Detours : \A c : ~Copied(e, c)' /\ (Copied(e, c) <=> e = d)
    BY <2>0, <2>1, <2>2 DEF Copied, TypeOK
  <2>5. want[t] = ~enabled[d]
    <3>1. enabled[d] # want[t]
      BY <2>0, <2>1, Zenon DEF FlagInv, WantInv
    <3>2. enabled[d] \in BOOLEAN /\ want[t] \in BOOLEAN
      BY DEF TypeOK
    <3> QED BY <3>1, <3>2, Zenon
  <2>6. enabled'[d] = ~enabled[d] /\ \A e \in Detours \ {d} : enabled'[e] = enabled[e]
    BY <2>1, <2>5 DEF TypeOK
  <2>7. \A e \in Detours : \A c \in Area[e] : On(e, c)' <=> On(e, c)
    BY <2>4, <2>6 DEF On
  <2> QED BY <2>1, <2>3, <2>7, StackFrame
<1>15. ASSUME NEW t \in Threads, ToggleFlush(t)
       PROVE StackInv'
  <2>1. /\ pc[t] \notin {"toggleCopy", "newTrampoline"}
        /\ pc'[t] \notin {"toggleCopy", "newTrampoline"}
        /\ \A u \in Threads \ {t} : pc'[u] = pc[u] /\ cur'[u] = cur[u] /\ todo'[u] = todo[u]
        /\ UNCHANGED <<enabled, older, original, code>>
    BY <1>15 DEF ToggleFlush, Goto, objects, memory, TypeOK
  <2>2. \A e \in Detours : Present(e)' <=> Present(e)
    BY <1>15, AtWork DEF ToggleFlush, Goto, objects, memory, Present, TypeOK
  <2> QED BY <1>15, <2>1, <2>2, StackMove
<1>16. ASSUME NEW t \in Threads, ToggleRestore(t)
       PROVE StackInv'
  <2>1. /\ pc[t] \notin {"toggleCopy", "newTrampoline"}
        /\ pc'[t] \notin {"toggleCopy", "newTrampoline"}
        /\ \A u \in Threads \ {t} : pc'[u] = pc[u] /\ cur'[u] = cur[u] /\ todo'[u] = todo[u]
        /\ UNCHANGED <<enabled, older, original, code>>
    BY <1>16 DEF ToggleRestore, Goto, objects, memory, TypeOK
  <2>2. \A e \in Detours : Present(e)' <=> Present(e)
    BY <1>16, AtWork DEF ToggleRestore, Goto, objects, memory, Present, TypeOK
  <2> QED BY <1>16, <2>1, <2>2, StackMove
<1>17. ASSUME NEW t \in Threads, ToggleEnd(t)
       PROVE StackInv'
  <2>1. /\ pc[t] \notin {"toggleCopy", "newTrampoline"}
        /\ pc'[t] \notin {"toggleCopy", "newTrampoline"}
        /\ \A u \in Threads \ {t} : pc'[u] = pc[u] /\ cur'[u] = cur[u] /\ todo'[u] = todo[u]
        /\ UNCHANGED <<enabled, older, original, code>>
    BY <1>17 DEF ToggleEnd, ToggleReturn, Return, Goto, objects, memory, TypeOK
  <2>2. \A e \in Detours : Present(e)' <=> Present(e)
    BY <1>17, AtWork DEF ToggleEnd, ToggleReturn, Return, Goto, objects, memory, Present, TypeOK
  <2> QED BY <1>17, <2>1, <2>2, StackMove
<1>18. ASSUME NEW t \in Threads, DropRelay(t)
       PROVE StackInv'
  <2>1. /\ pc[t] \notin {"toggleCopy", "newTrampoline"}
        /\ pc'[t] \notin {"toggleCopy", "newTrampoline"}
        /\ \A u \in Threads \ {t} : pc'[u] = pc[u] /\ cur'[u] = cur[u] /\ todo'[u] = todo[u]
        /\ UNCHANGED <<enabled, older, original, code>>
    BY <1>18 DEF DropRelay, Goto, objects, memory, TypeOK
  <2>2. \A e \in Detours : Present(e)' <=> Present(e)
    BY <1>18, AtWork DEF DropRelay, Goto, objects, memory, Present, TypeOK
  <2> QED BY <1>18, <2>1, <2>2, StackMove
<1>19. ASSUME NEW t \in Threads, DropTrampoline(t)
       PROVE StackInv'
  <2>0. PICK d \in Detours : cur[t] = d
    BY <1>19, AtWork DEF DropTrampoline
  <2>1. /\ state[d] = "dropping" /\ pc[t] = "dropTrampoline"
        /\ \A e \in Detours : d \notin older[e]
    BY <1>19, <2>0 DEF DropTrampoline, ControlInv, WorkInv, QuietInv, Newest
  <2>2. /\ pc' = [pc EXCEPT ![t] = "idle"] /\ cur' = [cur EXCEPT ![t] = NoDetour]
        /\ UNCHANGED <<code, enabled, todo>>
    BY <1>19 DEF DropTrampoline, Return, Goto, memory
  <2>3. CASE enabled[d]
    <3>1. state' = [state EXCEPT ![d] = "dangling"] /\ UNCHANGED <<original, older>>
      BY <1>19, <2>0, <2>3 DEF DropTrampoline
    <3>2. \A e \in Detours : Present(e)' <=> Present(e)
      BY <2>1, <3>1 DEF Present, TypeOK
    <3>3. /\ pc[t] \notin {"toggleCopy", "newTrampoline"}
          /\ pc'[t] \notin {"toggleCopy", "newTrampoline"}
          /\ \A u \in Threads \ {t} : pc'[u] = pc[u] /\ cur'[u] = cur[u] /\ todo'[u] = todo[u]
      BY <2>1, <2>2 DEF TypeOK
    <3> QED BY <2>2, <3>1, <3>2, <3>3, StackMove
  <2>4. CASE ~enabled[d]
    <3>1. /\ state' = [state EXCEPT ![d] = "none"]
          /\ original' = [original EXCEPT ![d] = Pristine]
          /\ older' = [older EXCEPT ![d] = {}]
      BY <1>19, <2>0, <2>4 DEF DropTrampoline
    <3> QED BY <2>0, <2>1, <2>2, <2>4, <3>1, StackForget
  <2> QED BY <2>3, <2>4
<1>20. ASSUME NEW c \in Cells, Refill(c)
       PROVE StackInv'
  <2>1. UNCHANGED <<pc, cur, todo, state, enabled, older, original, code>>
    BY <1>20 DEF Refill, locals, objects
  <2>2. \A e \in Detours : (Present(e)' <=> Present(e)) /\ (Captured(e)' <=> Captured(e))
    BY <2>1 DEF Present, Captured
  <2>3. \A e \in Detours : \A b \in Area[e] : On(e, b)' <=> On(e, b)
    BY <2>1 DEF On, Copied
  <2> QED BY <2>1, <2>2, <2>3, StackFrame
<1>21. CASE UNCHANGED vars
  <2>1. UNCHANGED <<pc, cur, todo, state, enabled, older, original, code>>
    BY <1>21 DEF vars
  <2>2. \A e \in Detours : (Present(e)' <=> Present(e)) /\ (Captured(e)' <=> Captured(e))
    BY <2>1 DEF Present, Captured
  <2>3. \A e \in Detours : \A c \in Area[e] : On(e, c)' <=> On(e, c)
    BY <2>1 DEF On, Copied
  <2> QED BY <2>1, <2>2, <2>3, StackFrame
<1>22. ASSUME NEW t \in Threads, NewSameAddress(t)
       PROVE StackInv'
  <2>1. UNCHANGED <<pc, cur, todo, state, enabled, older, original, code>>
    BY <1>22 DEF NewSameAddress, vars
  <2>2. \A e \in Detours : (Present(e)' <=> Present(e)) /\ (Captured(e)' <=> Captured(e))
    BY <2>1 DEF Present, Captured
  <2>3. \A e \in Detours : \A c \in Area[e] : On(e, c)' <=> On(e, c)
    BY <2>1 DEF On, Copied
  <2> QED BY <2>1, <2>2, <2>3, StackFrame
<1> QED
  BY <1>1, <1>2, <1>3, <1>4, <1>5, <1>6, <1>7, <1>8, <1>9, <1>10, <1>11, <1>12,
     <1>13, <1>14, <1>15, <1>16, <1>17, <1>18, <1>19, <1>20, <1>21, <1>22,
     NextCases, Zenon
-----------------------------------------------------------------------------
(***************************************************************************)
(* The theorems                                                            *)
(***************************************************************************)
\* Initially nobody is inside an operation and nothing is patched.
LEMMA AnyInit ==
  ASSUME Init
  PROVE  AnyInv
<1>1. TypeOK
  BY DEF Init, TypeOK, PCs, States, Protections, Pristine, Content
<1>2. ControlInv
  BY DEF Init, ControlInv, LockInv, WorkInv, AloneInv, Critical, NewSteps, ToggleSteps
<1>3. ProtInv
  BY DEF Init, ProtInv, Writing
<1>4. SnapInv
  BY DEF Init, SnapInv, Present
<1>5. ICacheInv
  BY DEF Init, ICacheInv
<1> QED BY <1>1, <1>2, <1>3, <1>4, <1>5 DEF AnyInv

LEMMA NestInit ==
  ASSUME Init
  PROVE  NestInv
<1>1. \A d \in Detours : ~Present(d) /\ ~Captured(d)
  BY DEF Init, Present, Captured
<1>2. FlagInv
  BY DEF Init, FlagInv, WantInv
<1>3. QuietInv
  BY DEF Init, QuietInv, ToggleSteps
<1>4. OrderInv
  BY <1>1 DEF Init, OrderInv
<1>5. CodeInv
  BY <1>1 DEF Init, CodeInv, TopOf, OnOver, Pristine
<1>6. SavedInv
  BY <1>1 DEF SavedInv
<1> QED BY <1>2, <1>3, <1>4, <1>5, <1>6 DEF NestInv, StackInv

\* In every reachable state of every client: the types are right, POOL's
\* owner is the one thread inside an operation, the writable pages are those
\* of the area being patched, the two readings of the code in Detour::new
\* agree, and the instruction cache lags only under an unfinished toggle.
THEOREM AnyClient == Spec => []AnyInv
<1>1. Init => AnyInv
  BY AnyInit
<1>2. AnyInv /\ [Next]_vars => AnyInv'
  <2> SUFFICES ASSUME AnyInv, [Next]_vars PROVE AnyInv'
    OBVIOUS
  <2>1. TypeOK /\ ControlInv /\ ProtInv /\ SnapInv /\ ICacheInv
    BY DEF AnyInv
  <2>2. TypeOK' /\ ControlInv'
    BY <2>1, TypeStep, ControlStep
  <2>3. ProtInv' /\ SnapInv' /\ ICacheInv'
    BY <2>1, ProtStep, SnapStep, ICacheStep
  <2> QED BY <2>2, <2>3 DEF AnyInv
<1> QED BY <1>1, <1>2, PTL DEF Spec

\* The types of the state, for every client.
THEOREM TypeCorrect == Spec => []TypeOK
  BY AnyClient, PTL DEF AnyInv

\* No thread is inside an operation while POOL is free.
LEMMA FreeIsIdle ==
  ASSUME TypeOK, ControlInv, lock = NoThread, NEW t \in Threads
  PROVE  pc[t] \notin Critical
  BY DEF TypeOK, ControlInv, LockInv

\* Whenever POOL is free every page has its first protection, whatever the
\* clients do and whatever fails.
THEOREM PagesRestored == Spec => []PagesRestoredAtRest
<1>1. AnyInv => PagesRestoredAtRest
  <2> SUFFICES ASSUME AnyInv, lock = NoThread
               PROVE  \A p \in Pages : prot[p] = "rx"
    BY DEF PagesRestoredAtRest
  <2>1. \A t \in Threads : ~Writing(t)
    BY FreeIsIdle DEF AnyInv, Writing, Critical, ToggleSteps
  <2> QED BY <2>1 DEF AnyInv, ProtInv
<1> QED BY <1>1, AnyClient, PTL

\* Toggle never writes to a page that is not writable.
THEOREM NoWriteFaults == Spec => []WriteNeverFaults
<1>1. AnyInv => WriteNeverFaults
  <2> SUFFICES ASSUME AnyInv, NEW t \in Threads, pc[t] = "toggleCopy", NEW c \in todo[t]
               PROVE  prot[PageOf[c]] = "rwx"
    BY DEF WriteNeverFaults
  <2>1. c \in Area[cur[t]] /\ cur[t] \in Detours
    BY AtWork DEF AnyInv, ProtInv, Writing
  <2>2. PageOf[c] \in PagesOf(cur[t]) /\ PageOf[c] \in Pages
    BY <2>1 DEF PagesOf
  <2> QED BY <2>2 DEF AnyInv, ProtInv, Writing
<1> QED BY <1>1, AnyClient, PTL

\* The trampoline and the patcher of a detour saw the same code.
THEOREM OneSnapshot == Spec => []SnapshotsAgree
<1>1. AnyInv => SnapshotsAgree
  BY DEF AnyInv, SnapInv, SnapshotsAgree
<1> QED BY <1>1, AnyClient, PTL

\* Whenever POOL is free the processor executes what was last written.
THEOREM ICacheCoherent == Spec => []ICacheCoherentAtRest
<1>1. AnyInv => ICacheCoherentAtRest
  <2> SUFFICES ASSUME AnyInv, lock = NoThread
               PROVE  icache = code
    BY DEF ICacheCoherentAtRest
  <2>1. \A t \in Threads : pc[t] \notin {"toggleCopy", "toggleFlush"}
    BY FreeIsIdle DEF AnyInv, Critical, ToggleSteps
  <2>2. \A c \in Cells : icache[c] = code[c]
    BY <2>1 DEF AnyInv, ICacheInv
  <2> QED BY <2>2 DEF AnyInv, TypeOK
<1> QED BY <1>1, AnyClient, PTL

\* A poisoned POOL stays without an owner.
LEMMA PoisonStep ==
  ASSUME TypeOK, ControlInv, PoisonInv, [Next]_vars
  PROVE  PoisonInv'
<1>1. ASSUME NEW t \in Threads, NewLock(t) \/ ToggleLock(t)
      PROVE PoisonInv'
  BY <1>1 DEF NewLock, ToggleLock, PoisonInv
<1>2. ASSUME NEW t \in Threads,
             NewError(t) \/ NewPanic(t) \/ NewTrampoline(t) \/ ToggleEnd(t)
      PROVE PoisonInv'
  <2>1. lock' = NoThread
    BY <1>2, NewFailEffect DEF NewTrampoline, ToggleEnd
  <2> QED BY <2>1 DEF PoisonInv
<1>3. ASSUME UNCHANGED <<lock, poisoned>>
      PROVE PoisonInv'
  BY <1>3 DEF PoisonInv
<1>4. ASSUME NEW t \in Threads, NEW d \in Detours, NEW w \in BOOLEAN, ToggleCall(t, d, w)
      PROVE PoisonInv'
  BY <1>4, <1>3 DEF ToggleCall
<1>5. ASSUME NEW t \in Threads, NEW d \in Detours, NewCall(t, d) \/ DropCall(t, d)
      PROVE PoisonInv'
  BY <1>5, <1>3 DEF NewCall, DropCall
<1>6. ASSUME NEW t \in Threads, NewSameAddress(t)
       PROVE PoisonInv'
  BY <1>6, <1>3 DEF NewSameAddress, vars
<1>7. ASSUME NEW t \in Threads,
             \/ NewPrepare(t) \/ NewRelay(t) \/ NewPatcher(t)
             \/ ToggleCheck(t) \/ ToggleProtect(t) \/ ToggleStore(t)
             \/ ToggleFlush(t) \/ ToggleRestore(t) \/ DropRelay(t) \/ DropTrampoline(t)
      PROVE PoisonInv'
  BY <1>7, <1>3 DEF NewPrepare, NewRelay, NewPatcher, ToggleCheck, ToggleProtect,
              ToggleStore, ToggleFlush, ToggleRestore, DropRelay, DropTrampoline
<1>8. ASSUME NEW t \in Threads, NEW c \in Cells, ToggleCopy(t, c)
      PROVE PoisonInv'
  BY <1>8, <1>3 DEF ToggleCopy
<1>9. ASSUME NEW c \in Cells, Refill(c)
      PROVE PoisonInv'
  BY <1>9, <1>3 DEF Refill
<1>10. CASE UNCHANGED vars
  BY <1>10, <1>3 DEF vars
<1> QED BY <1>1, <1>2, <1>4, <1>5, <1>6, <1>7, <1>8, <1>9, <1>10, NextCases, Zenon

\* Only a toggle that owns POOL writes to the code.
LEMMA OnlyOwnerWrites ==
  ASSUME TypeOK, ControlInv, [Next]_vars, code' # code
  PROVE  lock # NoThread
<1>1. ASSUME NEW t \in Threads, NEW c \in Cells, ToggleCopy(t, c)
      PROVE lock # NoThread
  BY <1>1 DEF ToggleCopy, ControlInv, LockInv, Critical, ToggleSteps
<1>2. ASSUME NEW t \in Threads, NewError(t) \/ NewPanic(t)
      PROVE code' = code
  BY <1>2, NewFailEffect
<1>3. ASSUME NEW t \in Threads, NEW d \in Detours, NEW w \in BOOLEAN, ToggleCall(t, d, w)
      PROVE code' = code
  BY <1>3 DEF ToggleCall, memory
<1>4. ASSUME NEW t \in Threads, NEW d \in Detours, NewCall(t, d) \/ DropCall(t, d)
      PROVE code' = code
  BY <1>4 DEF NewCall, DropCall, memory
<1>5. ASSUME NEW t \in Threads, NewSameAddress(t)
      PROVE code' = code
  BY <1>5 DEF NewSameAddress, vars
<1>6. ASSUME NEW t \in Threads,
             \/ NewLock(t) \/ NewPrepare(t) \/ NewRelay(t) \/ NewPatcher(t)
             \/ NewTrampoline(t) \/ ToggleLock(t) \/ ToggleCheck(t)
             \/ ToggleProtect(t) \/ ToggleStore(t) \/ ToggleFlush(t)
             \/ ToggleRestore(t) \/ ToggleEnd(t) \/ DropRelay(t) \/ DropTrampoline(t)
      PROVE code' = code
  BY <1>6 DEF NewLock, NewPrepare, NewRelay, NewPatcher, NewTrampoline, ToggleLock,
              ToggleCheck, ToggleProtect, ToggleStore, ToggleFlush, ToggleRestore,
              ToggleEnd, DropRelay, DropTrampoline, memory
<1>7. ASSUME NEW c \in Cells, Refill(c)
      PROVE code' = code
  BY <1>7 DEF Refill
<1>8. CASE UNCHANGED vars
  BY <1>8 DEF vars
<1> QED BY <1>1, <1>2, <1>3, <1>4, <1>5, <1>6, <1>7, <1>8, NextCases, Zenon

\* Once a panic has poisoned POOL, no operation of any number of threads
\* changes the code.
THEOREM PoisonFreezes == Spec => PoisonFreezesCode
<1>1. Init => PoisonInv
  BY DEF Init, PoisonInv
<1>2. AnyInv /\ PoisonInv /\ [Next]_vars => PoisonInv'
  BY PoisonStep DEF AnyInv
<1>3. AnyInv /\ PoisonInv /\ [Next]_vars => [poisoned => code' = code]_vars
  BY OnlyOwnerWrites DEF AnyInv, PoisonInv
<1> QED BY <1>1, <1>2, <1>3, AnyClient, PTL DEF Spec, PoisonFreezesCode

\* A client that nests keeps the stack of its detours in every reachable
\* state, in the middle of every toggle too.
THEOREM NestingClient ==
  ASSUME ClientNests
  PROVE  Spec => [](AnyInv /\ NestInv)
<1>1. Init => NestInv
  BY NestInit
<1>2. AnyInv /\ NestInv /\ [Next]_vars => NestInv'
  <2> SUFFICES ASSUME AnyInv, NestInv, [Next]_vars PROVE NestInv'
    OBVIOUS
  <2>1. /\ TypeOK /\ ControlInv /\ ProtInv
        /\ FlagInv /\ QuietInv /\ StackInv
    BY DEF AnyInv, NestInv
  <2>2. FlagInv' /\ QuietInv' /\ StackInv'
    BY <2>1, FlagStep, QuietStep, StackStep
  <2> QED BY <2>2 DEF NestInv
<1> QED BY <1>1, <1>2, AnyClient, PTL DEF Spec

\* For a client that nests: whenever POOL is free, every cell holds the jump
\* of the newest enabled detour over it, and its pristine code if there is
\* none, for any number of threads and any layout of overlapping detours.
THEOREM StackOfDetours ==
  ASSUME ClientNests
  PROVE  Spec => []Faithful
<1>1. AnyInv /\ NestInv => Faithful
  <2> SUFFICES ASSUME AnyInv, NestInv, lock = NoThread, NEW c \in Cells
               PROVE  TopOf(EnabledOver(Detours, c), code[c])
    BY DEF Faithful
  <2>1. \A t \in Threads : pc[t] # "toggleCopy"
    BY FreeIsIdle DEF AnyInv, Critical, ToggleSteps
  <2>2. \A d \in Detours : On(d, c) = enabled[d]
    BY <2>1 DEF On, Copied
  <2>3. OnOver(Detours, c) = EnabledOver(Detours, c)
    BY <2>2 DEF OnOver, EnabledOver
  <2> QED BY <2>3 DEF NestInv, StackInv, CodeInv
<1> QED BY <1>1, NestingClient, PTL

\* For a client that nests: what Patcher::new saved once is what disable must
\* bring back for as long as the detour exists, in the middle of a toggle too.
THEOREM SavedCodeValid ==
  ASSUME ClientNests
  PROVE  Spec => []SavedStaysValid
<1>1. AnyInv /\ NestInv => SavedStaysValid
  <2> SUFFICES ASSUME AnyInv, NestInv, NEW d \in Detours, Present(d), NEW c \in Area[d]
               PROVE  TopOf(EnabledOver(older[d], c), original[d][c])
    BY DEF SavedStaysValid
  <2>1. older[d] \subseteq Detours
    BY DEF AnyInv, TypeOK
  <2>2. \A e \in older[d] : ~Copied(e, c)
    BY <2>1 DEF NestInv, QuietInv, Newest, Copied, ToggleSteps
  <2>3. \A e \in older[d] : On(e, c) = enabled[e]
    BY <2>2 DEF On
  <2>4. OnOver(older[d], c) = EnabledOver(older[d], c)
    BY <2>3 DEF OnOver, EnabledOver
  <2>5. TopOf(OnOver(older[d], c), original[d][c])
    BY DEF NestInv, StackInv, SavedInv, Captured
  <2> QED BY <2>4, <2>5
<1> QED BY <1>1, NestingClient, PTL
=============================================================================
