---------------------------- MODULE GrPoolProofs ----------------------------
(***************************************************************************)
(* Theorems about GrPool, for any number of calls and restarts and any     *)
(* capacity.                                                               *)
(***************************************************************************)
EXTENDS GrPool, FiniteSetTheorems, SequenceTheorems, TLAPS

-----------------------------------------------------------------------------
(* The inductive invariant: TypeOK and where control must be for the       *)
(* other variables to be meaningful.                                       *)

(* A call that has not started a goroutine yet. *)
BeforeRun == {"new", "get", "full", "wait", "woken", "recheck", "fetch", "run"}

CallInv ==
  \A c \in Calls :
    /\ pc[c] \in {"run", "offer", "sending"} => held[c] \in Calls
    /\ pc[c] \in BeforeRun => gpc[c] = "none"

(* The calls in the condition's queue wait, each once. *)
WaitInv ==
  /\ \A i \in 1..Len(waitq) : pc[waitq[i]] = "wait"
  /\ \A i, j \in 1..Len(waitq) : waitq[i] = waitq[j] => i = j

GoInv ==
  \A g \in Calls :
    /\ gpc[g] \notin {"none", "done"} => gw[g] \in Calls
    /\ gpc[g] = "busy" <=> gf[g] \in Calls

(* The mutex is held across steps exactly by the expireWorker that sweeps. *)
SweepInv ==
  \A e \in Expirers :
    /\ epc[e] \in {"sweep", "expire"} <=> lock = e
    /\ epc[e] = "expire" => idle # <<>>

(* Release signals once; a Restart starts its expireWorker once. *)
ReleaseInv ==
  /\ once # "done" => release = 0
  /\ \A r \in Restarts : rpc[r] # "reopened" => epc[r] = "none"

Control == CallInv /\ WaitInv /\ GoInv /\ SweepInv /\ ReleaseInv

(* What Signal does: at most the oldest waiting call is woken. *)
LEMMA SignalEffect ==
  ASSUME TypeOK, WaitInv, Signal
  PROVE  /\ waitq' \in Seq(Calls)
         /\ pc' \in [Calls -> CallPcs]
         /\ \A c \in Calls : pc'[c] = pc[c] \/ (pc[c] = "wait" /\ pc'[c] = "woken")
         /\ WaitInv'
<1>1. CASE waitq = <<>> /\ UNCHANGED <<waitq, pc>>
  BY <1>1 DEF TypeOK, WaitInv
<1>2. CASE /\ waitq # <<>>
           /\ waitq' = Tail(waitq)
           /\ pc' = [pc EXCEPT ![Head(waitq)] = "woken"]
  <2>1. /\ Head(waitq) = waitq[1]
        /\ waitq' \in Seq(Calls)
        /\ Len(waitq') = Len(waitq) - 1
        /\ \A i \in 1..Len(waitq') : waitq'[i] = waitq[i + 1]
        /\ Len(waitq) \in Nat \ {0}
    BY <1>2, HeadTailProperties, LenProperties, EmptySeq DEF TypeOK
  <2>2. \A i \in 1..Len(waitq) : waitq[i] \in Calls
    BY <2>1, ElementOfSeq DEF TypeOK
  <2>3. pc' \in [Calls -> CallPcs]
    BY <1>2, <2>1, <2>2 DEF TypeOK, CallPcs
  <2>4. pc[waitq[1]] = "wait"
    BY <2>1 DEF WaitInv
  <2>5. WaitInv'
    <3>1. \A i \in 1..Len(waitq') : i + 1 \in 1..Len(waitq) /\ i + 1 # 1
      BY <2>1
    <3>2. \A i \in 1..Len(waitq') : waitq'[i] # waitq[1] /\ waitq'[i] \in Calls
      BY <2>1, <2>2, <3>1 DEF WaitInv
    <3>3. \A i \in 1..Len(waitq') : pc'[waitq'[i]] = "wait"
      <4>1. \A c \in Calls : c # waitq[1] => pc'[c] = pc[c]
        BY <1>2, <2>1 DEF TypeOK
      <4> QED
        BY <2>1, <3>1, <3>2, <4>1 DEF WaitInv
    <3>4. \A i, j \in 1..Len(waitq') : waitq'[i] = waitq'[j] => i = j
      <4>1. SUFFICES ASSUME NEW i \in 1..Len(waitq'), NEW j \in 1..Len(waitq'),
                            waitq'[i] = waitq'[j]
                     PROVE  i + 1 = j + 1
        BY <2>1
      <4>2. waitq[i + 1] = waitq[j + 1]
        BY <2>1, <4>1
      <4> QED
        BY <3>1, <4>2 DEF WaitInv
    <3> QED
      BY <3>3, <3>4 DEF WaitInv
  <2> QED
    BY <1>2, <2>1, <2>2, <2>3, <2>4, <2>5 DEF TypeOK
<1> QED
  BY <1>1, <1>2 DEF Signal

(* Every step keeps the types. *)
LEMMA TypeStep ==
  ASSUME TypeOK, Control, [Next]_vars
  PROVE  TypeOK'
<1> USE CapAssumption, NamesAssumption
<1> USE DEF TypeOK, CallPcs, GoPcs, SweepPcs, RestartPcs,
           callVars, poolVars, workVars, goVars, sysVars, auxVars
<1>1. ASSUME NEW c \in Calls, Submit(c) PROVE TypeOK'
  BY <1>1 DEF Submit, Move, At, CallIn
<1>2. ASSUME NEW c \in Calls, GetIdle(c) PROVE TypeOK'
  <2>1. idle # <<>>
    BY <1>2 DEF GetIdle, PopIdle
  <2>2. Len(idle) \in Nat \ {0}
    BY <2>1, EmptySeq, LenProperties
  <2>3. idle[Len(idle)] \in Calls
    BY <2>2, ElementOfSeq
  <2>4. SubSeq(idle, 1, Len(idle) - 1) \in Seq(Calls)
    BY <2>2, SubSeqProperties, ElementOfSeq
  <2> QED
    BY <1>2, <2>3, <2>4 DEF GetIdle, PopIdle, At, CallIn
<1>3. ASSUME NEW c \in Calls, GetNew(c) PROVE TypeOK'
  BY <1>3 DEF GetNew, PassCapacity, At, CallIn
<1>4. ASSUME NEW c \in Calls, GetFull(c) PROVE TypeOK'
  BY <1>4 DEF GetFull, Move, At, CallIn
<1>5. ASSUME NEW c \in Calls, Wait(c) PROVE TypeOK'
  BY <1>5, AppendProperties DEF Wait, At, CallIn
<1>6. ASSUME NEW c \in Calls, WakeIdle(c) PROVE TypeOK'
  <2>1. idle # <<>>
    BY <1>6 DEF WakeIdle, PopIdle
  <2>2. Len(idle) \in Nat \ {0}
    BY <2>1, EmptySeq, LenProperties
  <2>3. idle[Len(idle)] \in Calls
    BY <2>2, ElementOfSeq
  <2>4. SubSeq(idle, 1, Len(idle) - 1) \in Seq(Calls)
    BY <2>2, SubSeqProperties, ElementOfSeq
  <2> QED
    BY <1>6, <2>3, <2>4 DEF WakeIdle, PopIdle, At, CallIn
<1>7. ASSUME NEW c \in Calls, WakeEmpty(c) PROVE TypeOK'
  BY <1>7 DEF WakeEmpty, Move, At, CallIn
<1>8. ASSUME NEW c \in Calls, RecheckNew(c) PROVE TypeOK'
  BY <1>8 DEF RecheckNew, PassCapacity, At, CallIn
<1>9. ASSUME NEW c \in Calls, RecheckFull(c) PROVE TypeOK'
  BY <1>9 DEF RecheckFull, Move, At, CallIn
<1>10. ASSUME NEW c \in Calls, CacheGet(c) PROVE TypeOK'
  <2>1. CASE held' = [held EXCEPT ![c] = c] /\ UNCHANGED cache
    BY <1>10, <2>1 DEF CacheGet, At, CallIn
  <2>2. CASE \E w \in Calls : /\ cache[w] > 0
                              /\ cache' = [cache EXCEPT ![w] = @ - 1]
                              /\ held' = [held EXCEPT ![c] = w]
    <3>1. PICK w \in Calls : /\ cache[w] > 0
                            /\ cache' = [cache EXCEPT ![w] = @ - 1]
                            /\ held' = [held EXCEPT ![c] = w]
      BY <2>2
    <3>2. cache' \in [Calls -> Nat]
      <4>1. cache[w] \in Nat /\ cache[w] - 1 \in Nat
        BY <3>1
      <4> QED
        BY <3>1, <4>1
    <3> QED
      BY <1>10, <3>1, <3>2 DEF CacheGet, At, CallIn
  <2> QED
    BY <1>10, <2>1, <2>2 DEF CacheGet
<1>11. ASSUME NEW c \in Calls, RunWorker(c) PROVE TypeOK'
  BY <1>11 DEF RunWorker, At, CallIn, Control, CallInv
<1>12. ASSUME NEW c \in Calls, Offer(c) PROVE TypeOK'
  BY <1>12 DEF Offer, Deliver, At, CallIn, Control, CallInv
<1>13. ASSUME NEW c \in Calls, OfferFull(c) PROVE TypeOK'
  BY <1>13 DEF OfferFull, Move, At, CallIn
<1>14. ASSUME NEW c \in Calls, Send(c) PROVE TypeOK'
  BY <1>14 DEF Send, Deliver, At, CallIn, Control, CallInv
<1>15. ASSUME NEW c \in Calls, OfferDetached(c) PROVE TypeOK'
  BY <1>15 DEF OfferDetached, Move, At, CallIn
<1>16. ASSUME NEW g \in Calls, EvalRange(g) PROVE TypeOK'
  BY <1>16 DEF EvalRange, Go, GoIn, Control, GoInv
<1>17. ASSUME NEW g \in Calls, Recv(g) PROVE TypeOK'
  <2>1. gw[g] \in Calls
    BY <1>17 DEF Recv, GoIn, Control, GoInv
  <2>2. CASE task[gw[g]] = Nil
    BY <1>17, <2>1, <2>2 DEF Recv, Go, GoIn
  <2>3. CASE task[gw[g]] # Nil
    <3>1. task[gw[g]] \in Calls
      BY <1>17, <2>1, <2>3 DEF Recv
    <3>2. starts' = [starts EXCEPT ![task[gw[g]]] = starts[task[gw[g]]] + 1]
      BY <1>17, <2>3 DEF Recv
    <3>3. starts[task[gw[g]]] + 1 \in Nat
      BY <3>1
    <3>4. starts' \in [Calls -> Nat]
      BY <3>2, <3>3
    <3> QED
      BY <1>17, <2>1, <2>3, <3>1, <3>4 DEF Recv, Go, GoIn
  <2> QED
    BY <2>2, <2>3
<1>18. ASSUME NEW g \in Calls, TaskReturns(g) PROVE TypeOK'
  BY <1>18 DEF TaskReturns, TaskEnds, Go, GoIn, Control, GoInv
<1>19. ASSUME NEW g \in Calls, TaskPanics(g) PROVE TypeOK'
  BY <1>19 DEF TaskPanics, TaskEnds, Go, GoIn, Control, GoInv
<1>20. ASSUME NEW g \in Calls, PutWorker(g) PROVE TypeOK'
  BY <1>20, SignalEffect, AppendProperties DEF PutWorker, Go, GoIn, Control, GoInv
<1>21. ASSUME NEW g \in Calls, NilPut(g) PROVE TypeOK'
  <2>1. gw[g] \in Calls
    BY <1>21 DEF NilPut, PutCache, GoIn, Control, GoInv
  <2>2. cache' \in [Calls -> Nat]
    BY <1>21, <2>1 DEF NilPut, PutCache
  <2> QED
    BY <1>21, <2>1, <2>2 DEF NilPut, PutCache, Go, GoIn
<1>22. ASSUME NEW g \in Calls, DecRunning(g) PROVE TypeOK'
  BY <1>22 DEF DecRunning, Go, GoIn, Control, GoInv
<1>23. ASSUME NEW g \in Calls, CachePut(g) PROVE TypeOK'
  <2>1. gw[g] \in Calls
    BY <1>23 DEF CachePut, PutCache, GoIn, Control, GoInv
  <2>2. cache' \in [Calls -> Nat]
    BY <1>23, <2>1 DEF CachePut, PutCache
  <2> QED
    BY <1>23, <2>1, <2>2 DEF CachePut, PutCache, Go, GoIn
<1>24. ASSUME NEW g \in Calls, SignalExit(g) PROVE TypeOK'
  BY <1>24, SignalEffect, AppendProperties DEF SignalExit, Go, GoIn, Control, GoInv
<1>25. ASSUME NEW e \in Expirers, Tick(e) PROVE TypeOK'
  BY <1>25 DEF Tick, SweepIn
<1>26. ASSUME NEW e \in Expirers, BeginSweep(e) PROVE TypeOK'
  BY <1>26 DEF BeginSweep, SweepIn, Expirers
<1>27. ASSUME NEW e \in Expirers, Expired(e) PROVE TypeOK'
  BY <1>27 DEF Expired, SweepIn
<1>28. ASSUME NEW e \in Expirers, ExpireOne(e) PROVE TypeOK'
  BY <1>28, HeadTailProperties DEF ExpireOne, SweepIn, Control, SweepInv
<1>29. ASSUME NEW e \in Expirers, EndSweep(e) PROVE TypeOK'
  BY <1>29 DEF EndSweep, SweepIn
<1>30. CASE ReleaseClear
  <2>1. {idle[i] : i \in 1..Len(idle)} \subseteq Calls
    BY ElementOfSeq
  <2> QED
    BY <1>30, <2>1, EmptySeq DEF ReleaseClear
<1>31. CASE ReleaseSignal
  BY <1>31 DEF ReleaseSignal, Control, ReleaseInv
<1>32. ASSUME NEW r \in Restarts, RestartCheck(r) PROVE TypeOK'
  BY <1>32 DEF RestartCheck
<1>33. ASSUME NEW r \in Restarts, RestartRecv(r) PROVE TypeOK'
  BY <1>33 DEF RestartRecv, Expirers
<1>34. CASE NilPool
  BY <1>34 DEF NilPool
<1>35. CASE UNCHANGED vars
  BY <1>35 DEF vars
<1>36. QED
  BY <1>1, <1>2, <1>3, <1>4, <1>5, <1>6, <1>7, <1>8, <1>9, <1>10, <1>11,
     <1>12, <1>13, <1>14, <1>15, <1>16, <1>17, <1>18, <1>19, <1>20, <1>21,
     <1>22, <1>23, <1>24, <1>25, <1>26, <1>27, <1>28, <1>29, <1>30, <1>31,
     <1>32, <1>33, <1>34, <1>35
     DEF Next, Client, GetWorker, HandOver, Running, ExpireWorker, Release,
         Restart

(* Every step keeps the control invariant. *)
LEMMA ControlStep ==
  ASSUME TypeOK, Control, [Next]_vars
  PROVE  Control'
<1> USE CapAssumption, NamesAssumption
<1> USE DEF TypeOK, CallPcs, GoPcs, SweepPcs, RestartPcs, BeforeRun, Control,
           callVars, poolVars, workVars, goVars, sysVars, auxVars
<1>a. \A i \in 1..Len(waitq) : waitq[i] \in Calls
  BY ElementOfSeq
<1>1. ASSUME NEW c \in Calls, Submit(c) PROVE Control'
  <2>1. CallInv'
    BY <1>1 DEF Submit, Move, At, CallIn, CallInv
  <2>2. WaitInv'
    BY <1>1, <1>a DEF Submit, Move, At, CallIn, WaitInv
  <2>3. GoInv'
    BY <1>1 DEF Submit, Move, At, CallIn, GoInv
  <2>4. SweepInv'
    BY <1>1 DEF Submit, Move, At, CallIn, SweepInv, Expirers
  <2>5. ReleaseInv'
    BY <1>1 DEF Submit, Move, At, CallIn, ReleaseInv, Expirers
  <2> QED
    BY <2>1, <2>2, <2>3, <2>4, <2>5
<1>2. ASSUME NEW c \in Calls, GetIdle(c) PROVE Control'
  <2>1. CallInv'
    BY <1>2 DEF GetIdle, PopIdle, At, CallIn, CallInv
  <2>2. WaitInv'
    BY <1>2, <1>a DEF GetIdle, PopIdle, At, CallIn, WaitInv
  <2>3. GoInv'
    BY <1>2 DEF GetIdle, PopIdle, At, CallIn, GoInv
  <2>4. SweepInv'
    BY <1>2 DEF GetIdle, PopIdle, At, CallIn, SweepInv, Expirers
  <2>5. ReleaseInv'
    BY <1>2 DEF GetIdle, PopIdle, At, CallIn, ReleaseInv, Expirers
  <2> QED
    BY <2>1, <2>2, <2>3, <2>4, <2>5
<1>3. ASSUME NEW c \in Calls, GetNew(c) PROVE Control'
  <2>1. CallInv'
    BY <1>3 DEF GetNew, PassCapacity, At, CallIn, CallInv
  <2>2. WaitInv'
    BY <1>3, <1>a DEF GetNew, PassCapacity, At, CallIn, WaitInv
  <2>3. GoInv'
    BY <1>3 DEF GetNew, PassCapacity, At, CallIn, GoInv
  <2>4. SweepInv'
    BY <1>3 DEF GetNew, PassCapacity, At, CallIn, SweepInv, Expirers
  <2>5. ReleaseInv'
    BY <1>3 DEF GetNew, PassCapacity, At, CallIn, ReleaseInv, Expirers
  <2> QED
    BY <2>1, <2>2, <2>3, <2>4, <2>5
<1>4. ASSUME NEW c \in Calls, GetFull(c) PROVE Control'
  <2>1. CallInv'
    BY <1>4 DEF GetFull, Move, At, CallIn, CallInv
  <2>2. WaitInv'
    BY <1>4, <1>a DEF GetFull, Move, At, CallIn, WaitInv
  <2>3. GoInv'
    BY <1>4 DEF GetFull, Move, At, CallIn, GoInv
  <2>4. SweepInv'
    BY <1>4 DEF GetFull, Move, At, CallIn, SweepInv, Expirers
  <2>5. ReleaseInv'
    BY <1>4 DEF GetFull, Move, At, CallIn, ReleaseInv, Expirers
  <2> QED
    BY <2>1, <2>2, <2>3, <2>4, <2>5
<1>5. ASSUME NEW c \in Calls, Wait(c) PROVE Control'
  <2>1. CallInv'
    BY <1>5 DEF Wait, At, CallIn, CallInv
  <2>2. WaitInv'
    <3>1. /\ waitq' \in Seq(Calls)
          /\ Len(waitq') = Len(waitq) + 1
          /\ \A i \in 1..Len(waitq) : waitq'[i] = waitq[i]
          /\ waitq'[Len(waitq) + 1] = c
      BY <1>5, AppendProperties DEF Wait
    <3>2. \A i \in 1..Len(waitq) : waitq[i] # c
      BY <1>5 DEF Wait, CallIn, WaitInv
    <3>3. pc' = [pc EXCEPT ![c] = "wait"]
      BY <1>5 DEF Wait, At
    <3>4. Len(waitq) \in Nat
      BY LenProperties
    <3>5. \A i \in 1..Len(waitq') :
            i = Len(waitq) + 1 \/ i \in 1..Len(waitq)
      BY <3>1, <3>4
    <3>6. \A i \in 1..Len(waitq') : pc'[waitq'[i]] = "wait"
      <4>1. \A i \in 1..Len(waitq) : pc'[waitq[i]] = pc[waitq[i]]
        BY <3>2, <3>3, <1>a
      <4>2. pc'[c] = "wait"
        BY <3>3
      <4> QED
        BY <3>1, <3>5, <4>1, <4>2 DEF WaitInv
    <3>7. \A i, j \in 1..Len(waitq') : waitq'[i] = waitq'[j] => i = j
      <4>1. SUFFICES ASSUME NEW i \in 1..Len(waitq'), NEW j \in 1..Len(waitq'),
                            waitq'[i] = waitq'[j]
                     PROVE  i = j
        OBVIOUS
      <4>2. CASE i \in 1..Len(waitq) /\ j \in 1..Len(waitq)
        BY <3>1, <4>1, <4>2 DEF WaitInv
      <4>3. CASE i = Len(waitq) + 1 /\ j \in 1..Len(waitq)
        BY <3>1, <3>2, <4>1, <4>3
      <4>4. CASE i \in 1..Len(waitq) /\ j = Len(waitq) + 1
        BY <3>1, <3>2, <4>1, <4>4
      <4> QED
        BY <3>5, <4>2, <4>3, <4>4
    <3> QED
      BY <3>6, <3>7 DEF WaitInv
  <2>3. GoInv'
    BY <1>5 DEF Wait, At, CallIn, GoInv
  <2>4. SweepInv'
    BY <1>5 DEF Wait, At, CallIn, SweepInv, Expirers
  <2>5. ReleaseInv'
    BY <1>5 DEF Wait, At, CallIn, ReleaseInv, Expirers
  <2> QED
    BY <2>1, <2>2, <2>3, <2>4, <2>5
<1>6. ASSUME NEW c \in Calls, WakeIdle(c) PROVE Control'
  <2>1. CallInv'
    BY <1>6 DEF WakeIdle, PopIdle, At, CallIn, CallInv
  <2>2. WaitInv'
    BY <1>6, <1>a DEF WakeIdle, PopIdle, At, CallIn, WaitInv
  <2>3. GoInv'
    BY <1>6 DEF WakeIdle, PopIdle, At, CallIn, GoInv
  <2>4. SweepInv'
    BY <1>6 DEF WakeIdle, PopIdle, At, CallIn, SweepInv, Expirers
  <2>5. ReleaseInv'
    BY <1>6 DEF WakeIdle, PopIdle, At, CallIn, ReleaseInv, Expirers
  <2> QED
    BY <2>1, <2>2, <2>3, <2>4, <2>5
<1>7. ASSUME NEW c \in Calls, WakeEmpty(c) PROVE Control'
  <2>1. CallInv'
    BY <1>7 DEF WakeEmpty, Move, At, CallIn, CallInv
  <2>2. WaitInv'
    BY <1>7, <1>a DEF WakeEmpty, Move, At, CallIn, WaitInv
  <2>3. GoInv'
    BY <1>7 DEF WakeEmpty, Move, At, CallIn, GoInv
  <2>4. SweepInv'
    BY <1>7 DEF WakeEmpty, Move, At, CallIn, SweepInv, Expirers
  <2>5. ReleaseInv'
    BY <1>7 DEF WakeEmpty, Move, At, CallIn, ReleaseInv, Expirers
  <2> QED
    BY <2>1, <2>2, <2>3, <2>4, <2>5
<1>8. ASSUME NEW c \in Calls, RecheckNew(c) PROVE Control'
  <2>1. CallInv'
    BY <1>8 DEF RecheckNew, PassCapacity, At, CallIn, CallInv
  <2>2. WaitInv'
    BY <1>8, <1>a DEF RecheckNew, PassCapacity, At, CallIn, WaitInv
  <2>3. GoInv'
    BY <1>8 DEF RecheckNew, PassCapacity, At, CallIn, GoInv
  <2>4. SweepInv'
    BY <1>8 DEF RecheckNew, PassCapacity, At, CallIn, SweepInv, Expirers
  <2>5. ReleaseInv'
    BY <1>8 DEF RecheckNew, PassCapacity, At, CallIn, ReleaseInv, Expirers
  <2> QED
    BY <2>1, <2>2, <2>3, <2>4, <2>5
<1>9. ASSUME NEW c \in Calls, RecheckFull(c) PROVE Control'
  <2>1. CallInv'
    BY <1>9 DEF RecheckFull, Move, At, CallIn, CallInv
  <2>2. WaitInv'
    BY <1>9, <1>a DEF RecheckFull, Move, At, CallIn, WaitInv
  <2>3. GoInv'
    BY <1>9 DEF RecheckFull, Move, At, CallIn, GoInv
  <2>4. SweepInv'
    BY <1>9 DEF RecheckFull, Move, At, CallIn, SweepInv, Expirers
  <2>5. ReleaseInv'
    BY <1>9 DEF RecheckFull, Move, At, CallIn, ReleaseInv, Expirers
  <2> QED
    BY <2>1, <2>2, <2>3, <2>4, <2>5
<1>10. ASSUME NEW c \in Calls, CacheGet(c) PROVE Control'
  <2>1. CallInv'
    BY <1>10 DEF CacheGet, At, CallIn, CallInv
  <2>2. WaitInv'
    BY <1>10, <1>a DEF CacheGet, At, CallIn, WaitInv
  <2>3. GoInv'
    BY <1>10 DEF CacheGet, At, CallIn, GoInv
  <2>4. SweepInv'
    BY <1>10 DEF CacheGet, At, CallIn, SweepInv, Expirers
  <2>5. ReleaseInv'
    BY <1>10 DEF CacheGet, At, CallIn, ReleaseInv, Expirers
  <2> QED
    BY <2>1, <2>2, <2>3, <2>4, <2>5
<1>11. ASSUME NEW c \in Calls, RunWorker(c) PROVE Control'
  <2>1. CallInv'
    BY <1>11 DEF RunWorker, At, CallIn, CallInv
  <2>2. WaitInv'
    BY <1>11, <1>a DEF RunWorker, At, CallIn, WaitInv
  <2>3. GoInv'
    BY <1>11 DEF RunWorker, At, CallIn, GoInv, CallInv
  <2>4. SweepInv'
    BY <1>11 DEF RunWorker, At, CallIn, SweepInv, Expirers
  <2>5. ReleaseInv'
    BY <1>11 DEF RunWorker, At, CallIn, ReleaseInv, Expirers
  <2> QED
    BY <2>1, <2>2, <2>3, <2>4, <2>5
<1>12. ASSUME NEW c \in Calls, Offer(c) PROVE Control'
  <2>1. CallInv'
    BY <1>12 DEF Offer, Deliver, At, CallIn, CallInv
  <2>2. WaitInv'
    <3>1. /\ pc' = [pc EXCEPT ![c] = "accepted"] /\ pc[c] # "wait"
          /\ waitq' = waitq
      BY <1>12 DEF Offer, Deliver, At, CallIn
    <3> QED
      BY <1>a, <3>1 DEF WaitInv
  <2>3. GoInv'
    BY <1>12 DEF Offer, Deliver, At, CallIn, GoInv
  <2>4. SweepInv'
    BY <1>12 DEF Offer, Deliver, At, CallIn, SweepInv, Expirers
  <2>5. ReleaseInv'
    BY <1>12 DEF Offer, Deliver, At, CallIn, ReleaseInv, Expirers
  <2> QED
    BY <2>1, <2>2, <2>3, <2>4, <2>5
<1>13. ASSUME NEW c \in Calls, OfferFull(c) PROVE Control'
  <2>1. CallInv'
    BY <1>13 DEF OfferFull, Move, At, CallIn, CallInv
  <2>2. WaitInv'
    BY <1>13, <1>a DEF OfferFull, Move, At, CallIn, WaitInv
  <2>3. GoInv'
    BY <1>13 DEF OfferFull, Move, At, CallIn, GoInv
  <2>4. SweepInv'
    BY <1>13 DEF OfferFull, Move, At, CallIn, SweepInv, Expirers
  <2>5. ReleaseInv'
    BY <1>13 DEF OfferFull, Move, At, CallIn, ReleaseInv, Expirers
  <2> QED
    BY <2>1, <2>2, <2>3, <2>4, <2>5
<1>14. ASSUME NEW c \in Calls, Send(c) PROVE Control'
  <2>1. CallInv'
    BY <1>14 DEF Send, Deliver, At, CallIn, CallInv
  <2>2. WaitInv'
    <3>1. /\ pc' = [pc EXCEPT ![c] = "accepted"] /\ pc[c] # "wait"
          /\ waitq' = waitq
      BY <1>14 DEF Send, Deliver, At, CallIn
    <3> QED
      BY <1>a, <3>1 DEF WaitInv
  <2>3. GoInv'
    BY <1>14 DEF Send, Deliver, At, CallIn, GoInv
  <2>4. SweepInv'
    BY <1>14 DEF Send, Deliver, At, CallIn, SweepInv, Expirers
  <2>5. ReleaseInv'
    BY <1>14 DEF Send, Deliver, At, CallIn, ReleaseInv, Expirers
  <2> QED
    BY <2>1, <2>2, <2>3, <2>4, <2>5
<1>15. ASSUME NEW c \in Calls, OfferDetached(c) PROVE Control'
  <2>1. CallInv'
    BY <1>15 DEF OfferDetached, Move, At, CallIn, CallInv
  <2>2. WaitInv'
    BY <1>15, <1>a DEF OfferDetached, Move, At, CallIn, WaitInv
  <2>3. GoInv'
    BY <1>15 DEF OfferDetached, Move, At, CallIn, GoInv
  <2>4. SweepInv'
    BY <1>15 DEF OfferDetached, Move, At, CallIn, SweepInv, Expirers
  <2>5. ReleaseInv'
    BY <1>15 DEF OfferDetached, Move, At, CallIn, ReleaseInv, Expirers
  <2> QED
    BY <2>1, <2>2, <2>3, <2>4, <2>5
<1>16. ASSUME NEW g \in Calls, EvalRange(g) PROVE Control'
  BY <1>16 DEF EvalRange, Go, GoIn,
         CallInv, WaitInv, GoInv, SweepInv, ReleaseInv
<1>17. ASSUME NEW g \in Calls, Recv(g) PROVE Control'
  <2>1. CallInv'
    BY <1>17 DEF Recv, Go, GoIn, CallInv
  <2>2. WaitInv'
    BY <1>17 DEF Recv, Go, GoIn, WaitInv
  <2>3. GoInv'
    <3>1. gw[g] \in Calls
      BY <1>17 DEF Recv, GoIn, GoInv
    <3>2. gpc[g] = "recv" /\ gw' = gw
      BY <1>17 DEF Recv, GoIn
    <3>3. CASE task[gw[g]] = Nil
      <4>1. gpc' = [gpc EXCEPT ![g] = "nil"] /\ gf' = gf
        BY <1>17, <3>3 DEF Recv, Go
      <4> QED
        BY <3>1, <3>2, <4>1 DEF GoInv
    <3>4. CASE task[gw[g]] # Nil
      <4>1. task[gw[g]] \in Calls
        BY <1>17, <3>1, <3>4 DEF Recv
      <4>2. /\ gpc' = [gpc EXCEPT ![g] = "busy"]
            /\ gf' = [gf EXCEPT ![g] = task[gw[g]]]
        BY <1>17, <3>4 DEF Recv, Go
      <4> QED
        BY <3>1, <3>2, <4>1, <4>2 DEF GoInv
    <3> QED
      BY <3>3, <3>4
  <2>4. SweepInv'
    BY <1>17 DEF Recv, Go, GoIn, SweepInv, Expirers
  <2>5. ReleaseInv'
    BY <1>17 DEF Recv, Go, GoIn, ReleaseInv, Expirers
  <2> QED
    BY <2>1, <2>2, <2>3, <2>4, <2>5
<1>18. ASSUME NEW g \in Calls, TaskReturns(g) PROVE Control'
  <2>1. CallInv'
    BY <1>18 DEF TaskReturns, TaskEnds, Go, GoIn, CallInv
  <2>2. WaitInv'
    BY <1>18 DEF TaskReturns, TaskEnds, Go, GoIn, WaitInv
  <2>3. GoInv'
    BY <1>18 DEF TaskReturns, TaskEnds, Go, GoIn, GoInv
  <2>4. SweepInv'
    BY <1>18 DEF TaskReturns, TaskEnds, Go, GoIn, SweepInv, Expirers
  <2>5. ReleaseInv'
    BY <1>18 DEF TaskReturns, TaskEnds, Go, GoIn, ReleaseInv, Expirers
  <2> QED
    BY <2>1, <2>2, <2>3, <2>4, <2>5
<1>19. ASSUME NEW g \in Calls, TaskPanics(g) PROVE Control'
  <2>1. CallInv'
    BY <1>19 DEF TaskPanics, TaskEnds, Go, GoIn, CallInv
  <2>2. WaitInv'
    BY <1>19 DEF TaskPanics, TaskEnds, Go, GoIn, WaitInv
  <2>3. GoInv'
    BY <1>19 DEF TaskPanics, TaskEnds, Go, GoIn, GoInv
  <2>4. SweepInv'
    BY <1>19 DEF TaskPanics, TaskEnds, Go, GoIn, SweepInv, Expirers
  <2>5. ReleaseInv'
    BY <1>19 DEF TaskPanics, TaskEnds, Go, GoIn, ReleaseInv, Expirers
  <2> QED
    BY <2>1, <2>2, <2>3, <2>4, <2>5
<1>20. ASSUME NEW g \in Calls, PutWorker(g) PROVE Control'
  <2>1. CallInv'
    <3>1. \A c \in Calls : pc'[c] = pc[c] \/ (pc[c] = "wait" /\ pc'[c] = "woken")
      BY <1>20, SignalEffect DEF PutWorker
    <3>2. pc[g] \notin BeforeRun
      BY <1>20 DEF PutWorker, GoIn, CallInv
    <3>3. \A c \in Calls : c # g => gpc'[c] = gpc[c]
      BY <1>20 DEF PutWorker, Go
    <3>4. held' = held
      BY <1>20 DEF PutWorker
    <3> QED
      BY <3>1, <3>2, <3>3, <3>4 DEF CallInv
  <2>2. WaitInv'
    BY <1>20, SignalEffect DEF PutWorker, Go, GoIn, WaitInv
  <2>3. GoInv'
    BY <1>20, SignalEffect DEF PutWorker, Go, GoIn, GoInv
  <2>4. SweepInv'
    BY <1>20, SignalEffect, AppendProperties DEF PutWorker, Go, GoIn, SweepInv, Expirers
  <2>5. ReleaseInv'
    BY <1>20, SignalEffect DEF PutWorker, Go, GoIn, ReleaseInv, Expirers
  <2> QED
    BY <2>1, <2>2, <2>3, <2>4, <2>5
<1>21. ASSUME NEW g \in Calls, NilPut(g) PROVE Control'
  <2>1. CallInv'
    BY <1>21 DEF NilPut, PutCache, Go, GoIn, CallInv
  <2>2. WaitInv'
    BY <1>21 DEF NilPut, PutCache, Go, GoIn, WaitInv
  <2>3. GoInv'
    BY <1>21 DEF NilPut, PutCache, Go, GoIn, GoInv
  <2>4. SweepInv'
    BY <1>21 DEF NilPut, PutCache, Go, GoIn, SweepInv, Expirers
  <2>5. ReleaseInv'
    BY <1>21 DEF NilPut, PutCache, Go, GoIn, ReleaseInv, Expirers
  <2> QED
    BY <2>1, <2>2, <2>3, <2>4, <2>5
<1>22. ASSUME NEW g \in Calls, DecRunning(g) PROVE Control'
  <2>1. CallInv'
    BY <1>22 DEF DecRunning, Go, GoIn, CallInv
  <2>2. WaitInv'
    BY <1>22 DEF DecRunning, Go, GoIn, WaitInv
  <2>3. GoInv'
    BY <1>22 DEF DecRunning, Go, GoIn, GoInv
  <2>4. SweepInv'
    BY <1>22 DEF DecRunning, Go, GoIn, SweepInv, Expirers
  <2>5. ReleaseInv'
    BY <1>22 DEF DecRunning, Go, GoIn, ReleaseInv, Expirers
  <2> QED
    BY <2>1, <2>2, <2>3, <2>4, <2>5
<1>23. ASSUME NEW g \in Calls, CachePut(g) PROVE Control'
  <2>1. CallInv'
    BY <1>23 DEF CachePut, PutCache, Go, GoIn, CallInv
  <2>2. WaitInv'
    BY <1>23 DEF CachePut, PutCache, Go, GoIn, WaitInv
  <2>3. GoInv'
    BY <1>23 DEF CachePut, PutCache, Go, GoIn, GoInv
  <2>4. SweepInv'
    BY <1>23 DEF CachePut, PutCache, Go, GoIn, SweepInv, Expirers
  <2>5. ReleaseInv'
    BY <1>23 DEF CachePut, PutCache, Go, GoIn, ReleaseInv, Expirers
  <2> QED
    BY <2>1, <2>2, <2>3, <2>4, <2>5
<1>24. ASSUME NEW g \in Calls, SignalExit(g) PROVE Control'
  <2>1. CallInv'
    <3>1. \A c \in Calls : pc'[c] = pc[c] \/ (pc[c] = "wait" /\ pc'[c] = "woken")
      BY <1>24, SignalEffect DEF SignalExit
    <3>2. pc[g] \notin BeforeRun
      BY <1>24 DEF SignalExit, GoIn, CallInv
    <3>3. \A c \in Calls : c # g => gpc'[c] = gpc[c]
      BY <1>24 DEF SignalExit, Go
    <3>4. held' = held
      BY <1>24 DEF SignalExit
    <3> QED
      BY <3>1, <3>2, <3>3, <3>4 DEF CallInv
  <2>2. WaitInv'
    BY <1>24, SignalEffect DEF SignalExit, Go, GoIn, WaitInv
  <2>3. GoInv'
    BY <1>24, SignalEffect DEF SignalExit, Go, GoIn, GoInv
  <2>4. SweepInv'
    BY <1>24, SignalEffect DEF SignalExit, Go, GoIn, SweepInv, Expirers
  <2>5. ReleaseInv'
    BY <1>24, SignalEffect DEF SignalExit, Go, GoIn, ReleaseInv, Expirers
  <2> QED
    BY <2>1, <2>2, <2>3, <2>4, <2>5
<1>25. ASSUME NEW e \in Expirers, Tick(e) PROVE Control'
  BY <1>25 DEF Tick, SweepIn,
         CallInv, WaitInv, GoInv, SweepInv, ReleaseInv
<1>26. ASSUME NEW e \in Expirers, BeginSweep(e) PROVE Control'
  <2>1. CallInv'
    BY <1>26 DEF BeginSweep, SweepIn, CallInv
  <2>2. WaitInv'
    BY <1>26 DEF BeginSweep, SweepIn, WaitInv
  <2>3. GoInv'
    BY <1>26 DEF BeginSweep, SweepIn, GoInv
  <2>4. SweepInv'
    BY <1>26 DEF BeginSweep, SweepIn, SweepInv, Expirers
  <2>5. ReleaseInv'
    BY <1>26 DEF BeginSweep, SweepIn, ReleaseInv, Expirers
  <2> QED
    BY <2>1, <2>2, <2>3, <2>4, <2>5
<1>27. ASSUME NEW e \in Expirers, Expired(e) PROVE Control'
  BY <1>27 DEF Expired, SweepIn,
         CallInv, WaitInv, GoInv, SweepInv, ReleaseInv
<1>28. ASSUME NEW e \in Expirers, ExpireOne(e) PROVE Control'
  BY <1>28 DEF ExpireOne, SweepIn,
         CallInv, WaitInv, GoInv, SweepInv, ReleaseInv
<1>29. ASSUME NEW e \in Expirers, EndSweep(e) PROVE Control'
  <2>1. CallInv'
    BY <1>29 DEF EndSweep, SweepIn, CallInv
  <2>2. WaitInv'
    BY <1>29 DEF EndSweep, SweepIn, WaitInv
  <2>3. GoInv'
    BY <1>29 DEF EndSweep, SweepIn, GoInv
  <2>4. SweepInv'
    BY <1>29 DEF EndSweep, SweepIn, SweepInv, Expirers
  <2>5. ReleaseInv'
    BY <1>29 DEF EndSweep, SweepIn, ReleaseInv, Expirers
  <2> QED
    BY <2>1, <2>2, <2>3, <2>4, <2>5
<1>30. CASE ReleaseClear
  <2>1. CallInv'
    BY <1>30 DEF ReleaseClear, CallInv
  <2>2. WaitInv'
    BY <1>30 DEF ReleaseClear, WaitInv
  <2>3. GoInv'
    BY <1>30 DEF ReleaseClear, GoInv
  <2>4. SweepInv'
    BY <1>30 DEF ReleaseClear, SweepInv, Expirers
  <2>5. ReleaseInv'
    BY <1>30 DEF ReleaseClear, ReleaseInv, Expirers
  <2> QED
    BY <2>1, <2>2, <2>3, <2>4, <2>5
<1>31. CASE ReleaseSignal
  BY <1>31 DEF ReleaseSignal,
         CallInv, WaitInv, GoInv, SweepInv, ReleaseInv
<1>32. ASSUME NEW r \in Restarts, RestartCheck(r) PROVE Control'
  BY <1>32 DEF RestartCheck,
         CallInv, WaitInv, GoInv, SweepInv, ReleaseInv
<1>33. ASSUME NEW r \in Restarts, RestartRecv(r) PROVE Control'
  <2>1. CallInv'
    BY <1>33 DEF RestartRecv, CallInv
  <2>2. WaitInv'
    BY <1>33 DEF RestartRecv, WaitInv
  <2>3. GoInv'
    BY <1>33 DEF RestartRecv, GoInv
  <2>4. SweepInv'
    BY <1>33 DEF RestartRecv, SweepInv, Expirers, ReleaseInv
  <2>5. ReleaseInv'
    BY <1>33 DEF RestartRecv, ReleaseInv, Expirers
  <2> QED
    BY <2>1, <2>2, <2>3, <2>4, <2>5
<1>34. CASE NilPool
  BY <1>34 DEF NilPool,
         CallInv, WaitInv, GoInv, SweepInv, ReleaseInv
<1>35. CASE UNCHANGED vars
  BY <1>35 DEF vars, CallInv, WaitInv, GoInv, SweepInv, ReleaseInv
<1>36. QED
  BY <1>1, <1>2, <1>3, <1>4, <1>5, <1>6, <1>7, <1>8, <1>9, <1>10, <1>11,
     <1>12, <1>13, <1>14, <1>15, <1>16, <1>17, <1>18, <1>19, <1>20, <1>21,
     <1>22, <1>23, <1>24, <1>25, <1>26, <1>27, <1>28, <1>29, <1>30, <1>31,
     <1>32, <1>33, <1>34, <1>35
     DEF Next, Client, GetWorker, HandOver, Running, ExpireWorker, Release,
         Restart

(* The initial state satisfies the inductive invariant. *)
LEMMA InitInv == Init => TypeOK /\ Control
<1> SUFFICES ASSUME Init PROVE TypeOK /\ Control
  OBVIOUS
<1>1. TypeOK
  <2>1. idle \in Seq(Calls) /\ waitq \in Seq(Calls)
    BY EmptySeq DEF Init
  <2>2. epc \in [Expirers -> SweepPcs] /\ rpc \in [Restarts -> RestartPcs]
    BY DEF Init, SweepPcs, RestartPcs
  <2>3. pc \in [Calls -> CallPcs] /\ gpc \in [Calls -> GoPcs]
    BY DEF Init, CallPcs, GoPcs
  <2>4. /\ cache \in [Calls -> Nat] /\ starts \in [Calls -> Nat]
        /\ ends \in [Calls -> Nat] /\ running \in Int /\ release \in 0..1
    BY DEF Init
  <2>5. /\ held \in [Calls -> Calls \cup {None}]
        /\ gw \in [Calls -> Calls \cup {None}]
        /\ gf \in [Calls -> Calls \cup {None}]
        /\ task \in [Calls -> Calls \cup {Nil, None}]
        /\ lock \in Expirers \cup {None}
    BY DEF Init
  <2>6. /\ detached \subseteq Calls /\ once \in {"no", "cleared", "done"}
        /\ crashed \in BOOLEAN /\ raced \in BOOLEAN
    BY DEF Init
  <2> QED
    BY <2>1, <2>2, <2>3, <2>4, <2>5, <2>6 DEF TypeOK
<1>2. Control
  BY NamesAssumption
     DEF Init, Control, CallInv, WaitInv, GoInv, SweepInv, ReleaseInv, Expirers
<1> QED
  BY <1>1, <1>2

(* In every reachable state the variables have their types: in particular  *)
(* no sweep takes the head of an empty list, no task ends that is not      *)
(* running, and the release channel holds at most one signal.              *)
THEOREM TypeCorrect == Spec => []TypeOK
<1>1. Init => TypeOK /\ Control
  BY InitInv
<1>2. TypeOK /\ Control /\ [Next]_vars => (TypeOK /\ Control)'
  BY TypeStep, ControlStep
<1> QED
  BY <1>1, <1>2, PTL DEF Spec

(* The control invariant holds throughout. *)
THEOREM ControlCorrect == Spec => [](TypeOK /\ Control)
<1>1. Init => TypeOK /\ Control
  BY InitInv
<1>2. TypeOK /\ Control /\ [Next]_vars => (TypeOK /\ Control)'
  BY TypeStep, ControlStep
<1> QED
  BY <1>1, <1>2, PTL DEF Spec

-----------------------------------------------------------------------------
(* Pool.running counts the goroutines. *)

(* Sets of calls are finite. *)
LEMMA FiniteSubsets == \A S \in SUBSET Calls : IsFiniteSet(S)
  BY CallsAssumption, FS_Subset

(* Only run and decRunning change the count and what it counts. *)
LEMMA RunningStep ==
  ASSUME TypeOK, Control, [Next]_vars, RunningAccurate
  PROVE  RunningAccurate'
<1> USE DEF TypeOK, GoPcs, callVars, poolVars, workVars, goVars, sysVars, auxVars
<1>a. Counted \in SUBSET Calls
  BY DEF Counted
<1>b. IsFiniteSet(Counted)
  BY <1>a, FiniteSubsets
<1>c. ASSUME Counted' = Counted, running' = running
      PROVE  RunningAccurate'
  BY <1>c DEF RunningAccurate
<1>1. ASSUME NEW c \in Calls, Submit(c) PROVE RunningAccurate'
  BY <1>1, <1>c DEF Submit, Move, At, CallIn, Counted
<1>2. ASSUME NEW c \in Calls, GetIdle(c) PROVE RunningAccurate'
  BY <1>2, <1>c DEF GetIdle, PopIdle, At, CallIn, Counted
<1>3. ASSUME NEW c \in Calls, GetNew(c) PROVE RunningAccurate'
  BY <1>3, <1>c DEF GetNew, PassCapacity, At, CallIn, Counted
<1>4. ASSUME NEW c \in Calls, GetFull(c) PROVE RunningAccurate'
  BY <1>4, <1>c DEF GetFull, Move, At, CallIn, Counted
<1>5. ASSUME NEW c \in Calls, Wait(c) PROVE RunningAccurate'
  BY <1>5, <1>c DEF Wait, At, CallIn, Counted
<1>6. ASSUME NEW c \in Calls, WakeIdle(c) PROVE RunningAccurate'
  BY <1>6, <1>c DEF WakeIdle, PopIdle, At, CallIn, Counted
<1>7. ASSUME NEW c \in Calls, WakeEmpty(c) PROVE RunningAccurate'
  BY <1>7, <1>c DEF WakeEmpty, Move, At, CallIn, Counted
<1>8. ASSUME NEW c \in Calls, RecheckNew(c) PROVE RunningAccurate'
  BY <1>8, <1>c DEF RecheckNew, PassCapacity, At, CallIn, Counted
<1>9. ASSUME NEW c \in Calls, RecheckFull(c) PROVE RunningAccurate'
  BY <1>9, <1>c DEF RecheckFull, Move, At, CallIn, Counted
<1>10. ASSUME NEW c \in Calls, CacheGet(c) PROVE RunningAccurate'
  BY <1>10, <1>c DEF CacheGet, At, CallIn, Counted
<1>11. ASSUME NEW c \in Calls, RunWorker(c) PROVE RunningAccurate'
  <2>1. gpc' = [gpc EXCEPT ![c] = "start"] /\ running' = running + 1
    BY <1>11 DEF RunWorker
  <2>2. gpc[c] = "none"
    BY <1>11 DEF RunWorker, CallIn, Control, CallInv, BeforeRun
  <2>3. Counted' = Counted \cup {c} /\ c \notin Counted
    BY <2>1, <2>2 DEF Counted
  <2> QED
    BY <1>b, <2>1, <2>3, FS_AddElement DEF RunningAccurate
<1>12. ASSUME NEW c \in Calls, Offer(c) PROVE RunningAccurate'
  BY <1>12, <1>c DEF Offer, Deliver, At, CallIn, Counted
<1>13. ASSUME NEW c \in Calls, OfferFull(c) PROVE RunningAccurate'
  BY <1>13, <1>c DEF OfferFull, Move, At, CallIn, Counted
<1>14. ASSUME NEW c \in Calls, Send(c) PROVE RunningAccurate'
  BY <1>14, <1>c DEF Send, Deliver, At, CallIn, Counted
<1>15. ASSUME NEW c \in Calls, OfferDetached(c) PROVE RunningAccurate'
  BY <1>15, <1>c DEF OfferDetached, Move, At, CallIn, Counted
<1>16. ASSUME NEW g \in Calls, EvalRange(g) PROVE RunningAccurate'
  BY <1>16, <1>c DEF EvalRange, Go, GoIn, Counted
<1>17. ASSUME NEW g \in Calls, Recv(g) PROVE RunningAccurate'
  BY <1>17, <1>c DEF Recv, Go, GoIn, Counted
<1>18. ASSUME NEW g \in Calls, TaskReturns(g) PROVE RunningAccurate'
  BY <1>18, <1>c DEF TaskReturns, TaskEnds, Go, GoIn, Counted
<1>19. ASSUME NEW g \in Calls, TaskPanics(g) PROVE RunningAccurate'
  BY <1>19, <1>c DEF TaskPanics, TaskEnds, Go, GoIn, Counted
<1>20. ASSUME NEW g \in Calls, PutWorker(g) PROVE RunningAccurate'
  BY <1>20, <1>c DEF PutWorker, Go, GoIn, Counted
<1>21. ASSUME NEW g \in Calls, NilPut(g) PROVE RunningAccurate'
  BY <1>21, <1>c DEF NilPut, PutCache, Go, GoIn, Counted
<1>22. ASSUME NEW g \in Calls, DecRunning(g) PROVE RunningAccurate'
  <2>1. gpc' = [gpc EXCEPT ![g] = "cache"] /\ running' = running - 1
    BY <1>22 DEF DecRunning, Go
  <2>2. gpc[g] = "dec"
    BY <1>22 DEF DecRunning, GoIn
  <2>3. Counted' = Counted \ {g} /\ g \in Counted
    BY <2>1, <2>2 DEF Counted
  <2> QED
    BY <1>b, <2>1, <2>3, FS_RemoveElement DEF RunningAccurate
<1>23. ASSUME NEW g \in Calls, CachePut(g) PROVE RunningAccurate'
  BY <1>23, <1>c DEF CachePut, PutCache, Go, GoIn, Counted
<1>24. ASSUME NEW g \in Calls, SignalExit(g) PROVE RunningAccurate'
  BY <1>24, <1>c DEF SignalExit, Go, GoIn, Counted
<1>25. ASSUME NEW e \in Expirers, Tick(e) PROVE RunningAccurate'
  BY <1>25, <1>c DEF Tick, SweepIn, Counted
<1>26. ASSUME NEW e \in Expirers, BeginSweep(e) PROVE RunningAccurate'
  BY <1>26, <1>c DEF BeginSweep, SweepIn, Counted
<1>27. ASSUME NEW e \in Expirers, Expired(e) PROVE RunningAccurate'
  BY <1>27, <1>c DEF Expired, SweepIn, Counted
<1>28. ASSUME NEW e \in Expirers, ExpireOne(e) PROVE RunningAccurate'
  BY <1>28, <1>c DEF ExpireOne, SweepIn, Counted
<1>29. ASSUME NEW e \in Expirers, EndSweep(e) PROVE RunningAccurate'
  BY <1>29, <1>c DEF EndSweep, SweepIn, Counted
<1>30. CASE ReleaseClear
  BY <1>30, <1>c DEF ReleaseClear, Counted
<1>31. CASE ReleaseSignal
  BY <1>31, <1>c DEF ReleaseSignal, Counted
<1>32. ASSUME NEW r \in Restarts, RestartCheck(r) PROVE RunningAccurate'
  BY <1>32, <1>c DEF RestartCheck, Counted
<1>33. ASSUME NEW r \in Restarts, RestartRecv(r) PROVE RunningAccurate'
  BY <1>33, <1>c DEF RestartRecv, Counted
<1>34. CASE NilPool
  BY <1>34, <1>c DEF NilPool, Counted
<1>35. CASE UNCHANGED vars
  BY <1>35, <1>c DEF vars, Counted
<1>36. QED
  BY <1>1, <1>2, <1>3, <1>4, <1>5, <1>6, <1>7, <1>8, <1>9, <1>10, <1>11,
     <1>12, <1>13, <1>14, <1>15, <1>16, <1>17, <1>18, <1>19, <1>20, <1>21,
     <1>22, <1>23, <1>24, <1>25, <1>26, <1>27, <1>28, <1>29, <1>30, <1>31,
     <1>32, <1>33, <1>34, <1>35
     DEF Next, Client, GetWorker, HandOver, Running, ExpireWorker, Release,
         Restart

(* Pool.running is at every moment the number of goroutines between run    *)
(* and decRunning.                                                         *)
THEOREM RunningCorrect == Spec => []RunningAccurate
<1>1. Init => TypeOK /\ Control /\ RunningAccurate
  <2>1. Init => Counted = {}
    BY DEF Init, Counted
  <2> QED
    BY <2>1, InitInv, FS_EmptySet DEF Init, RunningAccurate
<1>2. TypeOK /\ Control /\ RunningAccurate /\ [Next]_vars
        => (TypeOK /\ Control /\ RunningAccurate)'
  BY TypeStep, ControlStep, RunningStep
<1> QED
  BY <1>1, <1>2, PTL DEF Spec

-----------------------------------------------------------------------------
(* The capacity bound. *)

(* Passing the check adds a starting call when there was none, run turns   *)
(* a starting call into a goroutine, nothing else adds to either.          *)
LEMMA CapacityStep ==
  ASSUME TypeOK, Control, [Next]_vars, WithinCapUnlessRaced
  PROVE  WithinCapUnlessRaced'
<1> USE DEF TypeOK, CallPcs, callVars, poolVars, workVars, goVars, sysVars, auxVars
<1> USE CapAssumption
<1>a. Starting \in SUBSET Calls
  BY DEF Starting
<1>b. IsFiniteSet(Starting) /\ Cardinality(Starting) \in Nat
  BY <1>a, FiniteSubsets, FS_CardinalityType
<1>c. ASSUME Starting' = Starting, running' <= running, running' \in Int, raced' = raced
      PROVE  WithinCapUnlessRaced'
  BY <1>b, <1>c DEF WithinCapUnlessRaced
<1>1. ASSUME NEW c \in Calls, Submit(c) PROVE WithinCapUnlessRaced'
  BY <1>1, <1>c DEF Submit, Move, At, CallIn, Starting
<1>2. ASSUME NEW c \in Calls, GetIdle(c) PROVE WithinCapUnlessRaced'
  BY <1>2, <1>c DEF GetIdle, PopIdle, At, CallIn, Starting
<1>3. ASSUME NEW c \in Calls, GetNew(c) PROVE WithinCapUnlessRaced'
  <2>1. /\ pc' = [pc EXCEPT ![c] = "fetch"]
        /\ running < Cap /\ running' = running
        /\ raced' = (raced \/ Starting # {})
    BY <1>3 DEF GetNew, PassCapacity, At
  <2>2. CASE Starting = {}
    <3>1. Starting' = {c}
      BY <2>1, <2>2 DEF Starting
    <3>2. Cardinality(Starting') = 1
      BY <3>1, FS_Singleton
    <3> QED
      BY <2>1, <3>2 DEF WithinCapUnlessRaced
  <2>3. CASE Starting # {}
    BY <2>1, <2>3 DEF WithinCapUnlessRaced
  <2> QED
    BY <2>2, <2>3
<1>4. ASSUME NEW c \in Calls, GetFull(c) PROVE WithinCapUnlessRaced'
  BY <1>4, <1>c DEF GetFull, Move, At, CallIn, Starting
<1>5. ASSUME NEW c \in Calls, Wait(c) PROVE WithinCapUnlessRaced'
  BY <1>5, <1>c DEF Wait, At, CallIn, Starting
<1>6. ASSUME NEW c \in Calls, WakeIdle(c) PROVE WithinCapUnlessRaced'
  BY <1>6, <1>c DEF WakeIdle, PopIdle, At, CallIn, Starting
<1>7. ASSUME NEW c \in Calls, WakeEmpty(c) PROVE WithinCapUnlessRaced'
  BY <1>7, <1>c DEF WakeEmpty, Move, At, CallIn, Starting
<1>8. ASSUME NEW c \in Calls, RecheckNew(c) PROVE WithinCapUnlessRaced'
  <2>1. /\ pc' = [pc EXCEPT ![c] = "fetch"]
        /\ running < Cap /\ running' = running
        /\ raced' = (raced \/ Starting # {})
    BY <1>8 DEF RecheckNew, PassCapacity, At
  <2>2. CASE Starting = {}
    <3>1. Starting' = {c}
      BY <2>1, <2>2 DEF Starting
    <3>2. Cardinality(Starting') = 1
      BY <3>1, FS_Singleton
    <3> QED
      BY <2>1, <3>2 DEF WithinCapUnlessRaced
  <2>3. CASE Starting # {}
    BY <2>1, <2>3 DEF WithinCapUnlessRaced
  <2> QED
    BY <2>2, <2>3
<1>9. ASSUME NEW c \in Calls, RecheckFull(c) PROVE WithinCapUnlessRaced'
  BY <1>9, <1>c DEF RecheckFull, Move, At, CallIn, Starting
<1>10. ASSUME NEW c \in Calls, CacheGet(c) PROVE WithinCapUnlessRaced'
  BY <1>10, <1>c DEF CacheGet, At, CallIn, Starting
<1>11. ASSUME NEW c \in Calls, RunWorker(c) PROVE WithinCapUnlessRaced'
  <2>1. /\ pc' = [pc EXCEPT ![c] = "offer"] /\ pc[c] = "run"
        /\ running' = running + 1 /\ raced' = raced
    BY <1>11 DEF RunWorker, At, CallIn
  <2>2. Starting' = Starting \ {c} /\ c \in Starting
    BY <2>1 DEF Starting
  <2>3. Cardinality(Starting') = Cardinality(Starting) - 1
    BY <1>b, <2>2, FS_RemoveElement
  <2> QED
    BY <1>b, <2>1, <2>3 DEF WithinCapUnlessRaced
<1>12. ASSUME NEW c \in Calls, Offer(c) PROVE WithinCapUnlessRaced'
  BY <1>12, <1>c DEF Offer, Deliver, At, CallIn, Starting
<1>13. ASSUME NEW c \in Calls, OfferFull(c) PROVE WithinCapUnlessRaced'
  BY <1>13, <1>c DEF OfferFull, Move, At, CallIn, Starting
<1>14. ASSUME NEW c \in Calls, Send(c) PROVE WithinCapUnlessRaced'
  BY <1>14, <1>c DEF Send, Deliver, At, CallIn, Starting
<1>15. ASSUME NEW c \in Calls, OfferDetached(c) PROVE WithinCapUnlessRaced'
  BY <1>15, <1>c DEF OfferDetached, Move, At, CallIn, Starting
<1>16. ASSUME NEW g \in Calls, EvalRange(g) PROVE WithinCapUnlessRaced'
  BY <1>16, <1>c DEF EvalRange, Go, GoIn, Starting
<1>17. ASSUME NEW g \in Calls, Recv(g) PROVE WithinCapUnlessRaced'
  BY <1>17, <1>c DEF Recv, Go, GoIn, Starting
<1>18. ASSUME NEW g \in Calls, TaskReturns(g) PROVE WithinCapUnlessRaced'
  BY <1>18, <1>c DEF TaskReturns, TaskEnds, Go, GoIn, Starting
<1>19. ASSUME NEW g \in Calls, TaskPanics(g) PROVE WithinCapUnlessRaced'
  BY <1>19, <1>c DEF TaskPanics, TaskEnds, Go, GoIn, Starting
<1>20. ASSUME NEW g \in Calls, PutWorker(g) PROVE WithinCapUnlessRaced'
  <2>1. \A c \in Calls : pc'[c] = pc[c] \/ (pc[c] = "wait" /\ pc'[c] = "woken")
    BY <1>20, SignalEffect DEF PutWorker, Control
  <2>2. Starting' = Starting
    BY <2>1 DEF Starting
  <2> QED
    BY <1>20, <2>2, <1>c DEF PutWorker
<1>21. ASSUME NEW g \in Calls, NilPut(g) PROVE WithinCapUnlessRaced'
  BY <1>21, <1>c DEF NilPut, PutCache, Go, GoIn, Starting
<1>22. ASSUME NEW g \in Calls, DecRunning(g) PROVE WithinCapUnlessRaced'
  BY <1>22, <1>c DEF DecRunning, Go, GoIn, Starting
<1>23. ASSUME NEW g \in Calls, CachePut(g) PROVE WithinCapUnlessRaced'
  BY <1>23, <1>c DEF CachePut, PutCache, Go, GoIn, Starting
<1>24. ASSUME NEW g \in Calls, SignalExit(g) PROVE WithinCapUnlessRaced'
  <2>1. \A c \in Calls : pc'[c] = pc[c] \/ (pc[c] = "wait" /\ pc'[c] = "woken")
    BY <1>24, SignalEffect DEF SignalExit, Control
  <2>2. Starting' = Starting
    BY <2>1 DEF Starting
  <2> QED
    BY <1>24, <2>2, <1>c DEF SignalExit
<1>25. ASSUME NEW e \in Expirers, Tick(e) PROVE WithinCapUnlessRaced'
  BY <1>25, <1>c DEF Tick, SweepIn, Starting
<1>26. ASSUME NEW e \in Expirers, BeginSweep(e) PROVE WithinCapUnlessRaced'
  BY <1>26, <1>c DEF BeginSweep, SweepIn, Starting
<1>27. ASSUME NEW e \in Expirers, Expired(e) PROVE WithinCapUnlessRaced'
  BY <1>27, <1>c DEF Expired, SweepIn, Starting
<1>28. ASSUME NEW e \in Expirers, ExpireOne(e) PROVE WithinCapUnlessRaced'
  BY <1>28, <1>c DEF ExpireOne, SweepIn, Starting
<1>29. ASSUME NEW e \in Expirers, EndSweep(e) PROVE WithinCapUnlessRaced'
  BY <1>29, <1>c DEF EndSweep, SweepIn, Starting
<1>30. CASE ReleaseClear
  BY <1>30, <1>c DEF ReleaseClear, Starting
<1>31. CASE ReleaseSignal
  BY <1>31, <1>c DEF ReleaseSignal, Starting
<1>32. ASSUME NEW r \in Restarts, RestartCheck(r) PROVE WithinCapUnlessRaced'
  BY <1>32, <1>c DEF RestartCheck, Starting
<1>33. ASSUME NEW r \in Restarts, RestartRecv(r) PROVE WithinCapUnlessRaced'
  BY <1>33, <1>c DEF RestartRecv, Starting
<1>34. CASE NilPool
  BY <1>34, <1>c DEF NilPool, Starting
<1>35. CASE UNCHANGED vars
  BY <1>35, <1>c DEF vars, Starting
<1>36. QED
  BY <1>1, <1>2, <1>3, <1>4, <1>5, <1>6, <1>7, <1>8, <1>9, <1>10, <1>11,
     <1>12, <1>13, <1>14, <1>15, <1>16, <1>17, <1>18, <1>19, <1>20, <1>21,
     <1>22, <1>23, <1>24, <1>25, <1>26, <1>27, <1>28, <1>29, <1>30, <1>31,
     <1>32, <1>33, <1>34, <1>35
     DEF Next, Client, GetWorker, HandOver, Running, ExpireWorker, Release,
         Restart

(* As long as no two calls of Submit overlap between the capacity check    *)
(* and incRunning, the pool never runs more than Cap goroutines.           *)
THEOREM CapacityCorrect == Spec => []WithinCapUnlessRaced
<1>1. Init => TypeOK /\ Control /\ WithinCapUnlessRaced
  <2>1. Init => Starting = {}
    BY DEF Init, Starting
  <2>2. Init => running = 0 /\ Cardinality(Starting) = 0
    BY <2>1, FS_EmptySet DEF Init
  <2> QED
    BY <2>2, InitInv, CapAssumption DEF WithinCapUnlessRaced
<1>2. TypeOK /\ Control /\ WithinCapUnlessRaced /\ [Next]_vars
        => (TypeOK /\ Control /\ WithinCapUnlessRaced)'
  BY TypeStep, ControlStep, CapacityStep
<1> QED
  BY <1>1, <1>2, PTL DEF Spec

-----------------------------------------------------------------------------
(* Claims on a Worker and the goroutines that listen to it. *)

(* The places of w in a list. *)
Slots(s, w) == {i \in 1..Len(s) : s[i] = w}

(* They are finitely many; adding w at the end adds one, taking it from    *)
(* either end removes one.                                                 *)
LEMMA SlotsFinite ==
  ASSUME NEW s \in Seq(Calls), NEW w
  PROVE  IsFiniteSet(Slots(s, w)) /\ Cardinality(Slots(s, w)) \in Nat
<1>1. Slots(s, w) \subseteq 1..Len(s) /\ IsFiniteSet(1..Len(s))
  BY FS_Interval, LenProperties DEF Slots
<1> QED
  BY <1>1, FS_Subset, FS_CardinalityType

LEMMA SlotsAppend ==
  ASSUME NEW s \in Seq(Calls), NEW x \in Calls, NEW w
  PROVE  Cardinality(Slots(Append(s, x), w)) =
           Cardinality(Slots(s, w)) + (IF x = w THEN 1 ELSE 0)
<1>1. /\ Len(s) \in Nat /\ Len(Append(s, x)) = Len(s) + 1
      /\ \A i \in 1..Len(s) : Append(s, x)[i] = s[i]
      /\ Append(s, x)[Len(s) + 1] = x
  BY AppendProperties, LenProperties
<1>2. Len(s) + 1 \notin Slots(s, w)
  BY <1>1 DEF Slots
<1>3. CASE x = w
  <2>1. Slots(Append(s, x), w) = Slots(s, w) \cup {Len(s) + 1}
    BY <1>1, <1>3 DEF Slots
  <2> QED
    BY <1>2, <1>3, <2>1, SlotsFinite, FS_AddElement
<1>4. CASE x # w
  <2>1. Slots(Append(s, x), w) = Slots(s, w)
    BY <1>1, <1>4 DEF Slots
  <2> QED
    BY <1>4, <2>1, SlotsFinite
<1> QED
  BY <1>3, <1>4

LEMMA SlotsFront ==
  ASSUME NEW s \in Seq(Calls), s # <<>>, NEW w
  PROVE  Cardinality(Slots(s, w)) =
           Cardinality(Slots(SubSeq(s, 1, Len(s) - 1), w))
             + (IF s[Len(s)] = w THEN 1 ELSE 0)
<1> DEFINE f == SubSeq(s, 1, Len(s) - 1)
<1>0. Len(s) \in Nat \ {0}
  BY EmptySeq, LenProperties
<1>1. /\ f \in Seq(Calls) /\ Len(f) = Len(s) - 1
      /\ \A i \in 1..Len(f) : f[i] = s[i]
  <2>1. /\ 1 \in 1..Len(s) + 1 /\ Len(s) - 1 \in 0..Len(s)
        /\ \A i \in 1..Len(s) : s[i] \in Calls
    BY <1>0, ElementOfSeq
  <2>2. f \in Seq(Calls)
    BY <1>0, <2>1, SubSeqProperties
  <2>3. Len(f) = Len(s) - 1
    <3>1. PICK n \in Nat : n = Len(s) - 1
      BY <1>0
    <3>2. \A i \in 1..n : s[i] \in Calls
      BY <1>0, <2>1, <3>1
    <3>3. Len(SubSeq(s, 1, n)) = IF 1 <= n THEN n - 1 + 1 ELSE 0
      BY <3>2, SubSeqProperties
    <3> QED
      BY <3>1, <3>3
  <2>4. \A i \in 1..Len(s) - 1 : f[i] = s[i]
    BY <1>0, <2>1, SubSeqProperties
  <2> QED
    BY <2>2, <2>3, <2>4
<1> HIDE DEF f
<1>2. Len(s) \notin Slots(f, w)
  BY <1>0, <1>1 DEF Slots
<1>3. CASE s[Len(s)] = w
  <2>1. Slots(s, w) = Slots(f, w) \cup {Len(s)}
    BY <1>0, <1>1, <1>3 DEF Slots
  <2>2. Cardinality(Slots(s, w)) = Cardinality(Slots(f, w)) + 1
    BY <1>1, <1>2, <2>1, SlotsFinite, FS_AddElement
  <2> QED
    BY <1>3, <2>2 DEF f
<1>4. CASE s[Len(s)] # w
  <2>1. Slots(s, w) = Slots(f, w)
    BY <1>0, <1>1, <1>4 DEF Slots
  <2>2. Cardinality(Slots(s, w)) = Cardinality(Slots(f, w)) + 0
    BY <1>1, <2>1, SlotsFinite
  <2> QED
    BY <1>4, <2>2 DEF f
<1> QED
  BY <1>3, <1>4

LEMMA SlotsTail ==
  ASSUME NEW s \in Seq(Calls), s # <<>>, NEW w
  PROVE  Cardinality(Slots(s, w)) =
           Cardinality(Slots(Tail(s), w)) + (IF Head(s) = w THEN 1 ELSE 0)
<1> DEFINE t == Tail(s)
<1>1. /\ Len(s) \in Nat \ {0} /\ Head(s) = s[1]
      /\ t \in Seq(Calls) /\ Len(t) = Len(s) - 1
      /\ \A i \in 1..Len(t) : t[i] = s[i + 1]
  BY HeadTailProperties, LenProperties, EmptySeq
<1> HIDE DEF t
<1> DEFINE shift == [i \in Slots(t, w) |-> i + 1]
<1>2. \A i \in Slots(t, w) : i + 1 \in Slots(s, w) \ {1}
  BY <1>1 DEF Slots
<1>3. \A j \in Slots(s, w) \ {1} : j - 1 \in Slots(t, w) /\ (j - 1) + 1 = j
  BY <1>1 DEF Slots
<1>4. shift \in Bijection(Slots(t, w), Slots(s, w) \ {1})
  <2>1. shift \in [Slots(t, w) -> Slots(s, w) \ {1}]
    BY <1>2
  <2>2. \A i, j \in Slots(t, w) : shift[i] = shift[j] => i = j
    BY <1>1 DEF Slots
  <2>3. \A j \in Slots(s, w) \ {1} : \E i \in Slots(t, w) : shift[i] = j
    BY <1>3
  <2> HIDE DEF shift
  <2> QED
    BY <2>1, <2>2, <2>3 DEF Bijection, Injection, Surjection, IsInjective
<1>5. ExistsBijection(Slots(t, w), Slots(s, w) \ {1})
  BY <1>4 DEF ExistsBijection
<1>6. Cardinality(Slots(s, w) \ {1}) = Cardinality(Slots(t, w))
  BY <1>1, <1>5, SlotsFinite, FS_Bijection
<1>7. 1 \in Slots(s, w) <=> Head(s) = w
  BY <1>1 DEF Slots
<1>8. /\ Cardinality(Slots(s, w)) \in Nat
      /\ Cardinality(Slots(s, w) \ {1}) =
           IF 1 \in Slots(s, w) THEN Cardinality(Slots(s, w)) - 1
           ELSE Cardinality(Slots(s, w))
  BY SlotsFinite, FS_RemoveElement
<1> QED
  BY <1>6, <1>7, <1>8 DEF t

(* A finite set with another element has one more. *)
LEMMA OneMore ==
  ASSUME NEW S, NEW T, NEW x, IsFiniteSet(S), x \notin S, T = S \cup {x}
  PROVE  Cardinality(T) = Cardinality(S) + 1
BY FS_AddElement

(* The equation for one Worker. *)
Balanced(w) ==
  Cardinality(Listening(w)) =
    Cardinality(IdleSlots(w)) + Cardinality(Holding(w)) + Queued(w)

(* The numbers in it are natural. *)
Numbers(w) ==
  /\ IsFiniteSet(Listening(w)) /\ Cardinality(Listening(w)) \in Nat
  /\ IsFiniteSet(Holding(w)) /\ Cardinality(Holding(w)) \in Nat
  /\ Cardinality(IdleSlots(w)) \in Nat /\ Queued(w) \in Nat

LEMMA ClaimsFinite == TypeOK => \A w : Numbers(w)
<1> SUFFICES ASSUME TypeOK, NEW w PROVE Numbers(w)
  OBVIOUS
<1>1. Listening(w) \in SUBSET Calls /\ Holding(w) \in SUBSET Calls
  BY DEF Listening, Holding
<1>2. IdleSlots(w) = Slots(idle, w)
  BY DEF IdleSlots, Slots
<1>3. Queued(w) \in Nat
  BY DEF Queued
<1> QED
  BY <1>1, <1>2, <1>3, FiniteSubsets, FS_CardinalityType, SlotsFinite
     DEF TypeOK, Numbers

(* Popping an idle Worker moves a claim from the list to the call. *)
LEMMA PopMovesClaim ==
  ASSUME TypeOK, NEW c \in Calls, pc[c] \in {"get", "woken"}, PopIdle(c),
         NEW w \in Calls, Balanced(w)
  PROVE  Balanced(w)'
<1>f. Numbers(w)
  BY ClaimsFinite
<1> USE DEF TypeOK, poolVars, workVars, goVars
<1>1. /\ idle \in Seq(Calls) /\ idle # <<>>
      /\ idle' = SubSeq(idle, 1, Len(idle) - 1)
      /\ held' = [held EXCEPT ![c] = idle[Len(idle)]]
      /\ pc' = [pc EXCEPT ![c] = "offer"]
  BY DEF PopIdle, At
<1>2. Listening(w)' = Listening(w) /\ Queued(w)' = Queued(w)
  BY DEF PopIdle, Listening, Queued
<1>3. /\ IdleSlots(w) = Slots(idle, w)
      /\ IdleSlots(w)' = Slots(SubSeq(idle, 1, Len(idle) - 1), w)
  BY <1>1 DEF IdleSlots, Slots
<1>4. Cardinality(IdleSlots(w)) =
        Cardinality(IdleSlots(w)') + (IF idle[Len(idle)] = w THEN 1 ELSE 0)
  BY <1>1, <1>3, SlotsFront
<1>5. SubSeq(idle, 1, Len(idle) - 1) \in Seq(Calls)
  <2>1. Len(idle) \in Nat \ {0}
    BY <1>1, EmptySeq, LenProperties
  <2> QED
    BY <1>1, <2>1, SubSeqProperties, ElementOfSeq
<1>6. Cardinality(IdleSlots(w)') \in Nat
  BY <1>3, <1>5, SlotsFinite
<1>7. c \notin Holding(w)
  BY DEF Holding
<1>8. CASE idle[Len(idle)] = w
  <2>1. Holding(w)' = Holding(w) \cup {c}
    BY <1>1, <1>8 DEF Holding
  <2>2. IsFiniteSet(Holding(w))
    BY <1>f DEF Numbers
  <2>3. Cardinality(Holding(w)') = Cardinality(Holding(w)) + 1
    BY <1>7, <2>1, <2>2, OneMore
  <2> QED
    BY <1>2, <1>4, <1>6, <1>8, <2>3, <1>f DEF Balanced, Numbers
<1>9. CASE idle[Len(idle)] # w
  <2>1. Holding(w)' = Holding(w)
    BY <1>1, <1>9 DEF Holding
  <2> QED
    BY <1>2, <1>4, <1>6, <1>9, <2>1, <1>f DEF Balanced, Numbers
<1> QED
  BY <1>8, <1>9

(* Sending moves a claim from the call to the channel. *)
LEMMA DeliverMovesClaim ==
  ASSUME TypeOK, NEW c \in Calls, pc[c] \in {"offer", "sending"}, held[c] \in Calls,
         Deliver(c), NEW w \in Calls, Balanced(w)
  PROVE  Balanced(w)'
<1>f. Numbers(w)
  BY ClaimsFinite
<1> USE DEF TypeOK, poolVars, goVars
<1> USE NamesAssumption
<1>1. /\ task[held[c]] = None
      /\ task' = [task EXCEPT ![held[c]] = c]
      /\ held' = [held EXCEPT ![c] = None]
      /\ pc' = [pc EXCEPT ![c] = "accepted"]
  BY DEF Deliver, At
<1>2. Listening(w)' = Listening(w) /\ IdleSlots(w)' = IdleSlots(w)
  BY DEF Deliver, Listening, IdleSlots
<1>3. CASE held[c] = w
  <2>1. Holding(w)' = Holding(w) \ {c} /\ c \in Holding(w)
    BY <1>1, <1>3 DEF Holding
  <2>2. Cardinality(Holding(w)') = Cardinality(Holding(w)) - 1
    BY <2>1, <1>f, FS_RemoveElement DEF Numbers
  <2>3. Queued(w) = 0 /\ Queued(w)' = 1
    BY <1>1, <1>3 DEF Queued
  <2> QED
    BY <1>2, <2>2, <2>3, <1>f DEF Balanced, Numbers
<1>4. CASE held[c] # w
  <2>1. Holding(w)' = Holding(w)
    BY <1>1, <1>4 DEF Holding
  <2>2. Queued(w)' = Queued(w)
    BY <1>1, <1>4 DEF Queued
  <2> QED
    BY <1>2, <2>1, <2>2 DEF Balanced
<1> QED
  BY <1>3, <1>4

(* Every claim keeps its listener: a goroutine starts with a claim of the  *)
(* call that started it, listens again when it adds its Worker to the      *)
(* list, and stops listening when it takes what is in the channel.         *)
LEMMA ClaimStep ==
  ASSUME TypeOK, Control, [Next]_vars, OneListenerPerClaim
  PROVE  OneListenerPerClaim'
<1>t. \A w \in Calls : Numbers(w)
  BY ClaimsFinite
<1> USE DEF TypeOK, callVars, poolVars, workVars, goVars, sysVars, auxVars
<1> USE NamesAssumption
<1>a. \A w \in Calls \ detached : Balanced(w)
  BY DEF OneListenerPerClaim, Balanced
<1>b. SUFFICES ASSUME NEW w \in Calls \ detached'
               PROVE  Balanced(w)'
  BY DEF OneListenerPerClaim, Balanced
<1>f. Numbers(w)
  BY <1>t
<1>c. ASSUME detached' = detached, Listening(w)' = Listening(w),
             Holding(w)' = Holding(w), idle' = idle, task' = task
      PROVE  Balanced(w)'
  BY <1>a, <1>c DEF Balanced, IdleSlots, Queued
<1>1. ASSUME NEW c \in Calls, Submit(c) PROVE Balanced(w)'
  BY <1>1, <1>c DEF Submit, Move, At, CallIn, Listening, Holding
<1>2. ASSUME NEW c \in Calls, GetIdle(c) PROVE Balanced(w)'
  BY <1>2, <1>a, PopMovesClaim DEF GetIdle, CallIn, PopIdle
<1>3. ASSUME NEW c \in Calls, GetNew(c) PROVE Balanced(w)'
  BY <1>3, <1>c DEF GetNew, PassCapacity, At, CallIn, Listening, Holding
<1>4. ASSUME NEW c \in Calls, GetFull(c) PROVE Balanced(w)'
  BY <1>4, <1>c DEF GetFull, Move, At, CallIn, Listening, Holding
<1>5. ASSUME NEW c \in Calls, Wait(c) PROVE Balanced(w)'
  BY <1>5, <1>c DEF Wait, At, CallIn, Listening, Holding
<1>6. ASSUME NEW c \in Calls, WakeIdle(c) PROVE Balanced(w)'
  BY <1>6, <1>a, PopMovesClaim DEF WakeIdle, CallIn, PopIdle
<1>7. ASSUME NEW c \in Calls, WakeEmpty(c) PROVE Balanced(w)'
  BY <1>7, <1>c DEF WakeEmpty, Move, At, CallIn, Listening, Holding
<1>8. ASSUME NEW c \in Calls, RecheckNew(c) PROVE Balanced(w)'
  BY <1>8, <1>c DEF RecheckNew, PassCapacity, At, CallIn, Listening, Holding
<1>9. ASSUME NEW c \in Calls, RecheckFull(c) PROVE Balanced(w)'
  BY <1>9, <1>c DEF RecheckFull, Move, At, CallIn, Listening, Holding
<1>10. ASSUME NEW c \in Calls, CacheGet(c) PROVE Balanced(w)'
  BY <1>10, <1>c DEF CacheGet, At, CallIn, Listening, Holding
<1>11. ASSUME NEW c \in Calls, RunWorker(c) PROVE Balanced(w)'
  <2>1. /\ pc[c] = "run" /\ gpc[c] = "none" /\ held' = held /\ task' = task
        /\ idle' = idle /\ detached' = detached
        /\ pc' = [pc EXCEPT ![c] = "offer"]
        /\ gpc' = [gpc EXCEPT ![c] = "start"] /\ gw' = [gw EXCEPT ![c] = held[c]]
    BY <1>11 DEF RunWorker, CallIn, At, Control, CallInv, BeforeRun
  <2>2. c \notin Listening(w) /\ c \notin Holding(w)
    BY <2>1 DEF Listening, Holding
  <2>3. IdleSlots(w)' = IdleSlots(w) /\ Queued(w)' = Queued(w)
    BY <2>1 DEF IdleSlots, Queued
  <2>4. CASE held[c] = w
    <3>1. Listening(w)' = Listening(w) \cup {c} /\ Holding(w)' = Holding(w) \cup {c}
      BY <2>1, <2>4 DEF Listening, Holding
    <3>2. /\ Cardinality(Listening(w)') = Cardinality(Listening(w)) + 1
          /\ Cardinality(Holding(w)') = Cardinality(Holding(w)) + 1
      BY <2>2, <3>1, <1>f, FS_AddElement DEF Numbers
    <3> QED
      BY <1>a, <2>1, <2>3, <3>2, <1>f DEF Balanced, Numbers
  <2>5. CASE held[c] # w
    BY <1>c, <2>1, <2>2, <2>5 DEF Listening, Holding
  <2> QED
    BY <2>4, <2>5
<1>12. ASSUME NEW c \in Calls, Offer(c) PROVE Balanced(w)'
  BY <1>12, <1>a, DeliverMovesClaim DEF Offer, CallIn, Deliver, Control, CallInv
<1>13. ASSUME NEW c \in Calls, OfferFull(c) PROVE Balanced(w)'
  BY <1>13, <1>c DEF OfferFull, Move, At, CallIn, Listening, Holding
<1>14. ASSUME NEW c \in Calls, Send(c) PROVE Balanced(w)'
  BY <1>14, <1>a, DeliverMovesClaim DEF Send, CallIn, Deliver, Control, CallInv
<1>15. ASSUME NEW c \in Calls, OfferDetached(c) PROVE Balanced(w)'
  BY <1>15, <1>c DEF OfferDetached, Move, At, CallIn, Listening, Holding
<1>16. ASSUME NEW g \in Calls, EvalRange(g) PROVE Balanced(w)'
  BY <1>16, <1>c DEF EvalRange, Go, GoIn, Listening, Holding
<1>17. ASSUME NEW g \in Calls, Recv(g) PROVE Balanced(w)'
  <2>1. /\ gpc[g] = "recv" /\ gw[g] \in Calls /\ task[gw[g]] # None
        /\ task' = [task EXCEPT ![gw[g]] = None]
        /\ gw' = gw /\ pc' = pc /\ held' = held /\ idle' = idle
        /\ detached' = detached
        /\ \E l \in {"nil", "busy"} : gpc' = [gpc EXCEPT ![g] = l]
    BY <1>17 DEF Recv, GoIn, Go, Control, GoInv
  <2>2. Holding(w)' = Holding(w) /\ IdleSlots(w)' = IdleSlots(w)
    BY <2>1 DEF Holding, IdleSlots
  <2>3. CASE gw[g] = w
    <3>1. Listening(w)' = Listening(w) \ {g} /\ g \in Listening(w)
      BY <2>1, <2>3 DEF Listening
    <3>2. Cardinality(Listening(w)') = Cardinality(Listening(w)) - 1
      BY <3>1, <1>f, FS_RemoveElement DEF Numbers
    <3>3. Queued(w) = 1 /\ Queued(w)' = 0
      BY <2>1, <2>3 DEF Queued
    <3> QED
      BY <1>a, <2>1, <2>2, <3>2, <3>3, <1>f DEF Balanced, Numbers
  <2>4. CASE gw[g] # w
    <3>1. Listening(w)' = Listening(w)
      BY <2>1, <2>4 DEF Listening
    <3>2. Queued(w)' = Queued(w)
      BY <2>1, <2>4 DEF Queued
    <3> QED
      BY <1>a, <2>1, <2>2, <3>1, <3>2 DEF Balanced
  <2> QED
    BY <2>3, <2>4
<1>18. ASSUME NEW g \in Calls, TaskReturns(g) PROVE Balanced(w)'
  BY <1>18, <1>c DEF TaskReturns, TaskEnds, Go, GoIn, Listening, Holding
<1>19. ASSUME NEW g \in Calls, TaskPanics(g) PROVE Balanced(w)'
  BY <1>19, <1>c DEF TaskPanics, TaskEnds, Go, GoIn, Listening, Holding
<1>20. ASSUME NEW g \in Calls, PutWorker(g) PROVE Balanced(w)'
  <2>1. /\ gpc[g] = "put" /\ gw[g] \in Calls /\ idle' = Append(idle, gw[g])
        /\ gpc' = [gpc EXCEPT ![g] = "recv"] /\ gw' = gw /\ held' = held
        /\ task' = task /\ detached' = detached
    BY <1>20 DEF PutWorker, GoIn, Go, Control, GoInv
  <2>2. Holding(w)' = Holding(w)
    <3>1. \A c \in Calls : pc'[c] = pc[c] \/ (pc[c] = "wait" /\ pc'[c] = "woken")
      BY <1>20, SignalEffect DEF PutWorker, Control
    <3> QED
      BY <2>1, <3>1 DEF Holding
  <2>3. Queued(w)' = Queued(w)
    BY <2>1 DEF Queued
  <2>4. IdleSlots(w) = Slots(idle, w) /\ IdleSlots(w)' = Slots(Append(idle, gw[g]), w)
    BY <2>1 DEF IdleSlots, Slots
  <2>5. Cardinality(IdleSlots(w)') =
          Cardinality(IdleSlots(w)) + (IF gw[g] = w THEN 1 ELSE 0)
    BY <2>1, <2>4, SlotsAppend
  <2>6. CASE gw[g] = w
    <3>1. Listening(w)' = Listening(w) \cup {g} /\ g \notin Listening(w)
      BY <2>1, <2>6 DEF Listening
    <3>2. Cardinality(Listening(w)') = Cardinality(Listening(w)) + 1
      BY <3>1, <1>f, FS_AddElement DEF Numbers
    <3> QED
      BY <1>a, <2>1, <2>2, <2>3, <2>5, <2>6, <3>2, <1>f DEF Balanced, Numbers
  <2>7. CASE gw[g] # w
    <3>1. Listening(w)' = Listening(w)
      BY <2>1, <2>7 DEF Listening
    <3> QED
      BY <1>a, <2>1, <2>2, <2>3, <2>5, <2>7, <3>1, <1>f DEF Balanced, Numbers
  <2> QED
    BY <2>6, <2>7
<1>21. ASSUME NEW g \in Calls, NilPut(g) PROVE Balanced(w)'
  BY <1>21, <1>c DEF NilPut, PutCache, Go, GoIn, Listening, Holding
<1>22. ASSUME NEW g \in Calls, DecRunning(g) PROVE Balanced(w)'
  BY <1>22, <1>c DEF DecRunning, Go, GoIn, Listening, Holding
<1>23. ASSUME NEW g \in Calls, CachePut(g) PROVE Balanced(w)'
  BY <1>23, <1>c DEF CachePut, PutCache, Go, GoIn, Listening, Holding
<1>24. ASSUME NEW g \in Calls, SignalExit(g) PROVE Balanced(w)'
  <2>1. Holding(w)' = Holding(w)
    <3>1. \A c \in Calls : pc'[c] = pc[c] \/ (pc[c] = "wait" /\ pc'[c] = "woken")
      BY <1>24, SignalEffect DEF SignalExit, Control
    <3> QED
      BY <1>24, <3>1 DEF SignalExit, Holding
  <2>2. Listening(w)' = Listening(w)
    BY <1>24 DEF SignalExit, GoIn, Go, Listening
  <2> QED
    BY <1>24, <1>c, <2>1, <2>2 DEF SignalExit
<1>25. ASSUME NEW e \in Expirers, Tick(e) PROVE Balanced(w)'
  BY <1>25, <1>c DEF Tick, SweepIn, Listening, Holding
<1>26. ASSUME NEW e \in Expirers, BeginSweep(e) PROVE Balanced(w)'
  BY <1>26, <1>c DEF BeginSweep, SweepIn, Listening, Holding
<1>27. ASSUME NEW e \in Expirers, Expired(e) PROVE Balanced(w)'
  BY <1>27, <1>c DEF Expired, SweepIn, Listening, Holding
<1>28. ASSUME NEW e \in Expirers, ExpireOne(e) PROVE Balanced(w)'
  <2>1. /\ idle # <<>> /\ idle \in Seq(Calls) /\ Head(idle) \in Calls
        /\ task[Head(idle)] = None
        /\ task' = [task EXCEPT ![Head(idle)] = Nil] /\ idle' = Tail(idle)
        /\ pc' = pc /\ held' = held /\ gpc' = gpc /\ gw' = gw
        /\ detached' = detached
    BY <1>28, HeadTailProperties DEF ExpireOne, SweepIn, Control, SweepInv
  <2>2. Listening(w)' = Listening(w) /\ Holding(w)' = Holding(w)
    BY <2>1 DEF Listening, Holding
  <2>3. IdleSlots(w) = Slots(idle, w) /\ IdleSlots(w)' = Slots(Tail(idle), w)
    BY <2>1 DEF IdleSlots, Slots
  <2>4. /\ Cardinality(IdleSlots(w)) =
             Cardinality(IdleSlots(w)') + (IF Head(idle) = w THEN 1 ELSE 0)
        /\ Cardinality(IdleSlots(w)') \in Nat
    <3>1. Tail(idle) \in Seq(Calls)
      BY <2>1, HeadTailProperties
    <3>2. Cardinality(Slots(Tail(idle), w)) \in Nat
      BY <3>1, SlotsFinite
    <3>3. Cardinality(Slots(idle, w)) =
            Cardinality(Slots(Tail(idle), w)) + (IF Head(idle) = w THEN 1 ELSE 0)
      BY <2>1, SlotsTail
    <3> QED
      BY <2>3, <3>2, <3>3
  <2>5. CASE Head(idle) = w
    <3>1. Queued(w) = 0 /\ Queued(w)' = 1
      BY <2>1, <2>5 DEF Queued
    <3> QED
      BY <1>a, <2>1, <2>2, <2>4, <2>5, <3>1, <1>f DEF Balanced, Numbers
  <2>6. CASE Head(idle) # w
    <3>1. Queued(w)' = Queued(w)
      BY <2>1, <2>6 DEF Queued
    <3> QED
      BY <1>a, <2>1, <2>2, <2>4, <2>6, <3>1, <1>f DEF Balanced, Numbers
  <2> QED
    BY <2>5, <2>6
<1>29. ASSUME NEW e \in Expirers, EndSweep(e) PROVE Balanced(w)'
  BY <1>29, <1>c DEF EndSweep, SweepIn, Listening, Holding
<1>30. CASE ReleaseClear
  <2>1. /\ idle' = <<>> /\ detached' = detached \cup {idle[i] : i \in 1..Len(idle)}
        /\ pc' = pc /\ held' = held /\ gpc' = gpc /\ gw' = gw /\ task' = task
    BY <1>30 DEF ReleaseClear
  <2>2. IdleSlots(w) = {} /\ IdleSlots(w)' = {}
    BY <2>1, EmptySeq DEF IdleSlots
  <2>3. /\ Listening(w)' = Listening(w) /\ Holding(w)' = Holding(w)
        /\ Queued(w)' = Queued(w) /\ w \notin detached
    BY <2>1 DEF Listening, Holding, Queued
  <2> QED
    BY <1>a, <2>2, <2>3 DEF Balanced
<1>31. CASE ReleaseSignal
  BY <1>31, <1>c DEF ReleaseSignal, Listening, Holding
<1>32. ASSUME NEW r \in Restarts, RestartCheck(r) PROVE Balanced(w)'
  BY <1>32, <1>c DEF RestartCheck, Listening, Holding
<1>33. ASSUME NEW r \in Restarts, RestartRecv(r) PROVE Balanced(w)'
  BY <1>33, <1>c DEF RestartRecv, Listening, Holding
<1>34. CASE NilPool
  BY <1>34, <1>c DEF NilPool, Listening, Holding
<1>35. CASE UNCHANGED vars
  BY <1>35, <1>c DEF vars, Listening, Holding
<1>36. QED
  BY <1>1, <1>2, <1>3, <1>4, <1>5, <1>6, <1>7, <1>8, <1>9, <1>10, <1>11,
     <1>12, <1>13, <1>14, <1>15, <1>16, <1>17, <1>18, <1>19, <1>20, <1>21,
     <1>22, <1>23, <1>24, <1>25, <1>26, <1>27, <1>28, <1>29, <1>30, <1>31,
     <1>32, <1>33, <1>34, <1>35
     DEF Next, Client, GetWorker, HandOver, Running, ExpireWorker, Release,
         Restart

(* Every claim on a Worker that still has its channel is matched by one    *)
(* goroutine that receives from it, though the cache may give a Worker out *)
(* twice: no task and no nil of a sweep is sent to nobody.                 *)
THEOREM ClaimsCorrect == Spec => []OneListenerPerClaim
<1>1. Init => TypeOK /\ Control /\ OneListenerPerClaim
  <2>1. ASSUME Init, NEW w \in Calls
        PROVE  Listening(w) = {} /\ Holding(w) = {} /\ IdleSlots(w) = {} /\ Queued(w) = 0
    BY <2>1, EmptySeq DEF Init, Listening, Holding, IdleSlots, Queued
  <2> QED
    BY <2>1, InitInv, FS_EmptySet DEF OneListenerPerClaim
<1>2. TypeOK /\ Control /\ OneListenerPerClaim /\ [Next]_vars
        => (TypeOK /\ Control /\ OneListenerPerClaim)'
  BY TypeStep, ControlStep, ClaimStep
<1> QED
  BY <1>1, <1>2, PTL DEF Spec

-----------------------------------------------------------------------------
(* The pool implements TaskService. *)

(* A task sits in at most one channel, before it starts; a goroutine       *)
(* executes at most one task, started and not ended, and no two the same.  *)
TaskInv ==
  /\ \A t \in Calls :
       /\ pc[t] # "accepted" => starts[t] = 0
       /\ starts[t] \in 0..1 /\ ends[t] \in 0..1
       /\ ends[t] = 1 => starts[t] = 1
  /\ \A w \in Calls :
       task[w] \in Calls => pc[task[w]] = "accepted" /\ starts[task[w]] = 0
  /\ \A v, w \in Calls : task[v] = task[w] /\ task[v] \in Calls => v = w
  /\ \A g \in Calls :
       gf[g] \in Calls => starts[gf[g]] = 1 /\ ends[gf[g]] = 0
  /\ \A g, h \in Calls : gf[g] = gf[h] /\ gf[g] \in Calls => g = h

(* Sending, receiving and ending a task move it on, nothing else does. *)
LEMMA TaskStep ==
  ASSUME TypeOK, Control, [Next]_vars, TaskInv
  PROVE  TaskInv'
<1> USE NamesAssumption
<1> USE DEF TypeOK, CallPcs, callVars, poolVars, workVars, goVars, sysVars, auxVars
<1>c. ASSUME task' = task, gf' = gf, starts' = starts, ends' = ends,
             \A t \in Calls : pc'[t] = pc[t] \/ pc[t] # "accepted"
      PROVE  TaskInv'
  BY <1>c DEF TaskInv
<1>1. ASSUME NEW c \in Calls, Submit(c) PROVE TaskInv'
  BY <1>1, <1>c DEF Submit, Move, At, CallIn
<1>2. ASSUME NEW c \in Calls, GetIdle(c) PROVE TaskInv'
  BY <1>2, <1>c DEF GetIdle, PopIdle, At, CallIn
<1>3. ASSUME NEW c \in Calls, GetNew(c) PROVE TaskInv'
  BY <1>3, <1>c DEF GetNew, PassCapacity, At, CallIn
<1>4. ASSUME NEW c \in Calls, GetFull(c) PROVE TaskInv'
  BY <1>4, <1>c DEF GetFull, Move, At, CallIn
<1>5. ASSUME NEW c \in Calls, Wait(c) PROVE TaskInv'
  BY <1>5, <1>c DEF Wait, At, CallIn
<1>6. ASSUME NEW c \in Calls, WakeIdle(c) PROVE TaskInv'
  BY <1>6, <1>c DEF WakeIdle, PopIdle, At, CallIn
<1>7. ASSUME NEW c \in Calls, WakeEmpty(c) PROVE TaskInv'
  BY <1>7, <1>c DEF WakeEmpty, Move, At, CallIn
<1>8. ASSUME NEW c \in Calls, RecheckNew(c) PROVE TaskInv'
  BY <1>8, <1>c DEF RecheckNew, PassCapacity, At, CallIn
<1>9. ASSUME NEW c \in Calls, RecheckFull(c) PROVE TaskInv'
  BY <1>9, <1>c DEF RecheckFull, Move, At, CallIn
<1>10. ASSUME NEW c \in Calls, CacheGet(c) PROVE TaskInv'
  BY <1>10, <1>c DEF CacheGet, At, CallIn
<1>11. ASSUME NEW c \in Calls, RunWorker(c) PROVE TaskInv'
  BY <1>11, <1>c DEF RunWorker, At, CallIn
<1>12. ASSUME NEW c \in Calls, Offer(c) PROVE TaskInv'
  <2>1. /\ held[c] \in Calls /\ task[held[c]] = None /\ pc[c] # "accepted"
        /\ task' = [task EXCEPT ![held[c]] = c]
        /\ pc' = [pc EXCEPT ![c] = "accepted"]
        /\ gf' = gf /\ starts' = starts /\ ends' = ends
    BY <1>12 DEF Offer, Deliver, At, CallIn, Control, CallInv
  <2>2. \A w \in Calls : task[w] # c
    BY <2>1 DEF TaskInv
  <2>3. \A v, w \in Calls : task'[v] = task'[w] /\ task'[v] \in Calls => v = w
    BY <2>1, <2>2 DEF TaskInv
  <2>4. \A w \in Calls :
          task'[w] \in Calls => pc'[task'[w]] = "accepted" /\ starts'[task'[w]] = 0
    BY <2>1 DEF TaskInv
  <2> QED
    BY <2>1, <2>3, <2>4 DEF TaskInv
<1>13. ASSUME NEW c \in Calls, OfferFull(c) PROVE TaskInv'
  BY <1>13, <1>c DEF OfferFull, Move, At, CallIn
<1>14. ASSUME NEW c \in Calls, Send(c) PROVE TaskInv'
  <2>1. /\ held[c] \in Calls /\ task[held[c]] = None /\ pc[c] # "accepted"
        /\ task' = [task EXCEPT ![held[c]] = c]
        /\ pc' = [pc EXCEPT ![c] = "accepted"]
        /\ gf' = gf /\ starts' = starts /\ ends' = ends
    BY <1>14 DEF Send, Deliver, At, CallIn, Control, CallInv
  <2>2. \A w \in Calls : task[w] # c
    BY <2>1 DEF TaskInv
  <2>3. \A v, w \in Calls : task'[v] = task'[w] /\ task'[v] \in Calls => v = w
    BY <2>1, <2>2 DEF TaskInv
  <2>4. \A w \in Calls :
          task'[w] \in Calls => pc'[task'[w]] = "accepted" /\ starts'[task'[w]] = 0
    BY <2>1 DEF TaskInv
  <2> QED
    BY <2>1, <2>3, <2>4 DEF TaskInv
<1>15. ASSUME NEW c \in Calls, OfferDetached(c) PROVE TaskInv'
  BY <1>15, <1>c DEF OfferDetached, Move, At, CallIn
<1>16. ASSUME NEW g \in Calls, EvalRange(g) PROVE TaskInv'
  BY <1>16, <1>c DEF EvalRange, Go, GoIn
<1>17. ASSUME NEW g \in Calls, Recv(g) PROVE TaskInv'
  <2>1. gw[g] \in Calls
    BY <1>17 DEF Recv, GoIn, Control, GoInv
  <2>2. /\ task' = [task EXCEPT ![gw[g]] = None]
        /\ pc' = pc /\ ends' = ends
    BY <1>17 DEF Recv
  <2>3. CASE task[gw[g]] = Nil
    <3>1. gf' = gf /\ starts' = starts
      BY <1>17, <2>3 DEF Recv
    <3> QED
      BY <2>1, <2>2, <3>1 DEF TaskInv
  <2>4. CASE task[gw[g]] # Nil
    <3>1. PICK t \in Calls : t = task[gw[g]]
      BY <1>17, <2>1, <2>4 DEF Recv
    <3>2. gf' = [gf EXCEPT ![g] = t] /\ starts' = [starts EXCEPT ![t] = starts[t] + 1]
      BY <1>17, <2>4, <3>1 DEF Recv
    <3>3. pc[t] = "accepted" /\ starts[t] = 0 /\ ends[t] = 0
      <4>1. pc[t] = "accepted" /\ starts[t] = 0
        BY <2>1, <3>1 DEF TaskInv
      <4>2. ends[t] \in 0..1 /\ (ends[t] = 1 => starts[t] = 1)
        BY DEF TaskInv
      <4> QED
        BY <4>1, <4>2
    <3>4. \A h \in Calls : gf[h] # t
      BY <3>3 DEF TaskInv
    <3>5. \A w \in Calls : task'[w] # t
      BY <2>1, <2>2, <3>1 DEF TaskInv
    <3>6. starts'[t] = 1 /\ \A u \in Calls : u # t => starts'[u] = starts[u]
      BY <3>2, <3>3
    <3>7. \A h \in Calls :
            gf'[h] \in Calls => starts'[gf'[h]] = 1 /\ ends'[gf'[h]] = 0
      BY <2>2, <3>2, <3>3, <3>6 DEF TaskInv
    <3>8. \A h, k \in Calls : gf'[h] = gf'[k] /\ gf'[h] \in Calls => h = k
      BY <3>2, <3>4 DEF TaskInv
    <3>9. \A w \in Calls :
            task'[w] \in Calls => pc'[task'[w]] = "accepted" /\ starts'[task'[w]] = 0
      <4>1. \A w \in Calls : task'[w] \in Calls => task'[w] = task[w] /\ task[w] # t
        BY <2>1, <2>2, <3>5
      <4> QED
        BY <2>2, <3>6, <4>1 DEF TaskInv
    <3>10. \A v, w \in Calls : task'[v] = task'[w] /\ task'[v] \in Calls => v = w
      BY <2>1, <2>2 DEF TaskInv
    <3>11. \A u \in Calls :
             /\ pc'[u] # "accepted" => starts'[u] = 0
             /\ starts'[u] \in 0..1 /\ ends'[u] \in 0..1
             /\ ends'[u] = 1 => starts'[u] = 1
      BY <2>2, <3>3, <3>6 DEF TaskInv
    <3> QED
      BY <3>7, <3>8, <3>9, <3>10, <3>11 DEF TaskInv
  <2> QED
    BY <2>3, <2>4
<1>18. ASSUME NEW g \in Calls, TaskReturns(g) PROVE TaskInv'
  <2>1. gf[g] \in Calls
    BY <1>18 DEF TaskReturns, TaskEnds, GoIn, Control, GoInv
  <2>2. /\ gf' = [gf EXCEPT ![g] = None]
        /\ ends' = [ends EXCEPT ![gf[g]] = ends[gf[g]] + 1]
        /\ pc' = pc /\ task' = task /\ starts' = starts
    BY <1>18 DEF TaskReturns, TaskEnds
  <2>3. starts[gf[g]] = 1 /\ ends[gf[g]] = 0
    BY <2>1 DEF TaskInv
  <2>4. /\ ends'[gf[g]] = 1
        /\ \A t \in Calls : t # gf[g] => ends'[t] = ends[t]
    BY <2>1, <2>2, <2>3
  <2>5. \A h \in Calls :
          gf'[h] \in Calls => starts'[gf'[h]] = 1 /\ ends'[gf'[h]] = 0
    BY <2>1, <2>2, <2>4 DEF TaskInv
  <2>6. \A h, k \in Calls : gf'[h] = gf'[k] /\ gf'[h] \in Calls => h = k
    BY <2>2 DEF TaskInv
  <2> QED
    BY <2>1, <2>2, <2>3, <2>4, <2>5, <2>6 DEF TaskInv
<1>19. ASSUME NEW g \in Calls, TaskPanics(g) PROVE TaskInv'
  <2>1. gf[g] \in Calls
    BY <1>19 DEF TaskPanics, TaskEnds, GoIn, Control, GoInv
  <2>2. /\ gf' = [gf EXCEPT ![g] = None]
        /\ ends' = [ends EXCEPT ![gf[g]] = ends[gf[g]] + 1]
        /\ pc' = pc /\ task' = task /\ starts' = starts
    BY <1>19 DEF TaskPanics, TaskEnds
  <2>3. starts[gf[g]] = 1 /\ ends[gf[g]] = 0
    BY <2>1 DEF TaskInv
  <2>4. /\ ends'[gf[g]] = 1
        /\ \A t \in Calls : t # gf[g] => ends'[t] = ends[t]
    BY <2>1, <2>2, <2>3
  <2>5. \A h \in Calls :
          gf'[h] \in Calls => starts'[gf'[h]] = 1 /\ ends'[gf'[h]] = 0
    BY <2>1, <2>2, <2>4 DEF TaskInv
  <2>6. \A h, k \in Calls : gf'[h] = gf'[k] /\ gf'[h] \in Calls => h = k
    BY <2>2 DEF TaskInv
  <2> QED
    BY <2>1, <2>2, <2>3, <2>4, <2>5, <2>6 DEF TaskInv
<1>20. ASSUME NEW g \in Calls, PutWorker(g) PROVE TaskInv'
  <2>1. \A t \in Calls : pc'[t] = pc[t] \/ (pc[t] = "wait" /\ pc'[t] = "woken")
    BY <1>20, SignalEffect DEF PutWorker, Control
  <2> QED
    BY <1>20, <2>1, <1>c DEF PutWorker
<1>21. ASSUME NEW g \in Calls, NilPut(g) PROVE TaskInv'
  BY <1>21, <1>c DEF NilPut, PutCache, Go, GoIn
<1>22. ASSUME NEW g \in Calls, DecRunning(g) PROVE TaskInv'
  BY <1>22, <1>c DEF DecRunning, Go, GoIn
<1>23. ASSUME NEW g \in Calls, CachePut(g) PROVE TaskInv'
  BY <1>23, <1>c DEF CachePut, PutCache, Go, GoIn
<1>24. ASSUME NEW g \in Calls, SignalExit(g) PROVE TaskInv'
  <2>1. \A t \in Calls : pc'[t] = pc[t] \/ (pc[t] = "wait" /\ pc'[t] = "woken")
    BY <1>24, SignalEffect DEF SignalExit, Control
  <2> QED
    BY <1>24, <2>1, <1>c DEF SignalExit
<1>25. ASSUME NEW e \in Expirers, Tick(e) PROVE TaskInv'
  BY <1>25, <1>c DEF Tick, SweepIn
<1>26. ASSUME NEW e \in Expirers, BeginSweep(e) PROVE TaskInv'
  BY <1>26, <1>c DEF BeginSweep, SweepIn
<1>27. ASSUME NEW e \in Expirers, Expired(e) PROVE TaskInv'
  BY <1>27, <1>c DEF Expired, SweepIn
<1>28. ASSUME NEW e \in Expirers, ExpireOne(e) PROVE TaskInv'
  <2>1. Head(idle) \in Calls
    BY <1>28, HeadTailProperties DEF ExpireOne, SweepIn, Control, SweepInv
  <2>2. /\ task' = [task EXCEPT ![Head(idle)] = Nil]
        /\ gf' = gf /\ starts' = starts /\ ends' = ends /\ pc' = pc
    BY <1>28 DEF ExpireOne
  <2>3. /\ \A w \in Calls : task'[w] \in Calls => task'[w] = task[w]
        /\ starts' = starts /\ ends' = ends /\ pc' = pc /\ gf' = gf
    BY <2>1, <2>2
  <2>4. \A w \in Calls :
          task'[w] \in Calls => pc'[task'[w]] = "accepted" /\ starts'[task'[w]] = 0
    BY <2>3 DEF TaskInv
  <2>5. \A v, w \in Calls : task'[v] = task'[w] /\ task'[v] \in Calls => v = w
    BY <2>3 DEF TaskInv
  <2> QED
    BY <2>3, <2>4, <2>5 DEF TaskInv
<1>29. ASSUME NEW e \in Expirers, EndSweep(e) PROVE TaskInv'
  BY <1>29, <1>c DEF EndSweep, SweepIn
<1>30. CASE ReleaseClear
  BY <1>30, <1>c DEF ReleaseClear
<1>31. CASE ReleaseSignal
  BY <1>31, <1>c DEF ReleaseSignal
<1>32. ASSUME NEW r \in Restarts, RestartCheck(r) PROVE TaskInv'
  BY <1>32, <1>c DEF RestartCheck
<1>33. ASSUME NEW r \in Restarts, RestartRecv(r) PROVE TaskInv'
  BY <1>33, <1>c DEF RestartRecv
<1>34. CASE NilPool
  BY <1>34, <1>c DEF NilPool
<1>35. CASE UNCHANGED vars
  BY <1>35, <1>c DEF vars
<1>36. QED
  BY <1>1, <1>2, <1>3, <1>4, <1>5, <1>6, <1>7, <1>8, <1>9, <1>10, <1>11,
     <1>12, <1>13, <1>14, <1>15, <1>16, <1>17, <1>18, <1>19, <1>20, <1>21,
     <1>22, <1>23, <1>24, <1>25, <1>26, <1>27, <1>28, <1>29, <1>30, <1>31,
     <1>32, <1>33, <1>34, <1>35
     DEF Next, Client, GetWorker, HandOver, Running, ExpireWorker, Release,
         Restart

(* The pcs of a call whose change its client sees. *)
Visible == {"new", "closed", "accepted"}

StatusBar == [t \in Calls |-> Status(t)]

(* Every step of the pool is a step of the service or invisible. *)
LEMMA ServiceStep ==
  ASSUME TypeOK, TypeOK', Control, [Next]_vars, TaskInv, TaskInv'
  PROVE  [Service!Next]_(Service!vars)
<1> USE NamesAssumption
<1> USE DEF TypeOK, CallPcs, callVars, poolVars, workVars, goVars, sysVars, auxVars
<1>c. ASSUME \A t \in Calls : pc'[t] = pc[t] \/ (pc[t] \notin Visible /\ pc'[t] \notin Visible),
             starts' = starts, ends' = ends, release' = release, once' = once
      PROVE  UNCHANGED Service!vars
  <2>1. \A t \in Calls : Status(t)' = Status(t)
    BY <1>c DEF Status, Visible
  <2>2. Door' = Door
    BY <1>c DEF Door
  <2> QED
    BY <2>1, <2>2 DEF Service!vars
<1>d. ASSUME NEW t \in Calls, NEW s, Status(t)' = s,
             \A u \in Calls : u # t => Status(u)' = Status(u), Door' = Door
      PROVE  Service!Become(t, s)
  BY <1>d DEF Service!Become
<1>1. ASSUME NEW c \in Calls, Submit(c) PROVE [Service!Next]_(Service!vars)
  <2>1. /\ pc[c] = "new" /\ starts[c] = 0 /\ ends[c] = 0
        /\ pc' = [pc EXCEPT ![c] = IF release > 0 THEN "closed" ELSE "get"]
        /\ starts' = starts /\ ends' = ends /\ release' = release /\ once' = once
    BY <1>1 DEF Submit, Move, At, CallIn, TaskInv
  <2>2. Status(c) = "new" /\ Door' = Door
    BY <2>1 DEF Status, Door
  <2>3. Status(c)' = IF release > 0 THEN "refused" ELSE "offered"
    BY <2>1 DEF Status
  <2>4. \A u \in Calls : u # c => Status(u)' = Status(u)
    BY <2>1 DEF Status
  <2>5. CASE release > 0
    <3>1. Door = "closed"
      BY <2>5 DEF Door
    <3>2. Service!Become(c, "refused")
      BY <2>2, <2>3, <2>4, <2>5, <1>d
    <3> QED
      BY <2>2, <3>1, <3>2 DEF Service!Next, Service!Refuse
  <2>6. CASE ~(release > 0)
    <3>1. Door # "closed"
      BY <2>6 DEF Door
    <3>2. Service!Become(c, "offered")
      BY <2>2, <2>3, <2>4, <2>6, <1>d
    <3> QED
      BY <2>2, <3>1, <3>2 DEF Service!Next, Service!Offer
  <2> QED
    BY <2>5, <2>6
<1>2. ASSUME NEW c \in Calls, GetIdle(c) PROVE [Service!Next]_(Service!vars)
  BY <1>2, <1>c DEF GetIdle, PopIdle, At, CallIn, Visible
<1>3. ASSUME NEW c \in Calls, GetNew(c) PROVE [Service!Next]_(Service!vars)
  BY <1>3, <1>c DEF GetNew, PassCapacity, At, CallIn, Visible
<1>4. ASSUME NEW c \in Calls, GetFull(c) PROVE [Service!Next]_(Service!vars)
  BY <1>4, <1>c DEF GetFull, Move, At, CallIn, Visible
<1>5. ASSUME NEW c \in Calls, Wait(c) PROVE [Service!Next]_(Service!vars)
  BY <1>5, <1>c DEF Wait, At, CallIn, Visible
<1>6. ASSUME NEW c \in Calls, WakeIdle(c) PROVE [Service!Next]_(Service!vars)
  BY <1>6, <1>c DEF WakeIdle, PopIdle, At, CallIn, Visible
<1>7. ASSUME NEW c \in Calls, WakeEmpty(c) PROVE [Service!Next]_(Service!vars)
  BY <1>7, <1>c DEF WakeEmpty, Move, At, CallIn, Visible
<1>8. ASSUME NEW c \in Calls, RecheckNew(c) PROVE [Service!Next]_(Service!vars)
  BY <1>8, <1>c DEF RecheckNew, PassCapacity, At, CallIn, Visible
<1>9. ASSUME NEW c \in Calls, RecheckFull(c) PROVE [Service!Next]_(Service!vars)
  BY <1>9, <1>c DEF RecheckFull, Move, At, CallIn, Visible
<1>10. ASSUME NEW c \in Calls, CacheGet(c) PROVE [Service!Next]_(Service!vars)
  BY <1>10, <1>c DEF CacheGet, At, CallIn, Visible
<1>11. ASSUME NEW c \in Calls, RunWorker(c) PROVE [Service!Next]_(Service!vars)
  BY <1>11, <1>c DEF RunWorker, At, CallIn, Visible
<1>12. ASSUME NEW c \in Calls, Offer(c) PROVE [Service!Next]_(Service!vars)
  <2>1. /\ pc[c] \in {"offer", "sending"} /\ starts[c] = 0 /\ ends[c] = 0
        /\ pc' = [pc EXCEPT ![c] = "accepted"]
        /\ starts' = starts /\ ends' = ends /\ release' = release /\ once' = once
    BY <1>12 DEF Offer, Deliver, At, CallIn, TaskInv
  <2>2. Status(c) = "offered" /\ Status(c)' = "accepted" /\ Door' = Door
    BY <2>1 DEF Status, Door
  <2>3. \A u \in Calls : u # c => Status(u)' = Status(u)
    BY <2>1 DEF Status
  <2>4. Service!Become(c, "accepted")
    BY <2>2, <2>3, <1>d
  <2> QED
    BY <2>2, <2>4 DEF Service!Next, Service!Accept
<1>13. ASSUME NEW c \in Calls, OfferFull(c) PROVE [Service!Next]_(Service!vars)
  BY <1>13, <1>c DEF OfferFull, Move, At, CallIn, Visible
<1>14. ASSUME NEW c \in Calls, Send(c) PROVE [Service!Next]_(Service!vars)
  <2>1. /\ pc[c] \in {"offer", "sending"} /\ starts[c] = 0 /\ ends[c] = 0
        /\ pc' = [pc EXCEPT ![c] = "accepted"]
        /\ starts' = starts /\ ends' = ends /\ release' = release /\ once' = once
    BY <1>14 DEF Send, Deliver, At, CallIn, TaskInv
  <2>2. Status(c) = "offered" /\ Status(c)' = "accepted" /\ Door' = Door
    BY <2>1 DEF Status, Door
  <2>3. \A u \in Calls : u # c => Status(u)' = Status(u)
    BY <2>1 DEF Status
  <2>4. Service!Become(c, "accepted")
    BY <2>2, <2>3, <1>d
  <2> QED
    BY <2>2, <2>4 DEF Service!Next, Service!Accept
<1>15. ASSUME NEW c \in Calls, OfferDetached(c) PROVE [Service!Next]_(Service!vars)
  BY <1>15, <1>c DEF OfferDetached, Move, At, CallIn, Visible
<1>16. ASSUME NEW g \in Calls, EvalRange(g) PROVE [Service!Next]_(Service!vars)
  BY <1>16, <1>c DEF EvalRange, Go, GoIn, Visible
<1>17. ASSUME NEW g \in Calls, Recv(g) PROVE [Service!Next]_(Service!vars)
  <2>1. gw[g] \in Calls
    BY <1>17 DEF Recv, GoIn, Control, GoInv
  <2>2. /\ pc' = pc /\ ends' = ends /\ release' = release /\ once' = once
    BY <1>17 DEF Recv
  <2>3. CASE task[gw[g]] = Nil
    BY <1>17, <2>3, <1>c DEF Recv
  <2>4. CASE task[gw[g]] # Nil
    <3>1. PICK t \in Calls : t = task[gw[g]]
      BY <1>17, <2>1, <2>4 DEF Recv
    <3>2. starts' = [starts EXCEPT ![t] = starts[t] + 1]
      BY <1>17, <2>4, <3>1 DEF Recv
    <3>3. pc[t] = "accepted" /\ starts[t] = 0 /\ ends[t] = 0
      <4>1. pc[t] = "accepted" /\ starts[t] = 0
        BY <2>1, <3>1 DEF TaskInv
      <4>2. ends[t] \in 0..1 /\ (ends[t] = 1 => starts[t] = 1)
        BY DEF TaskInv
      <4> QED
        BY <4>1, <4>2
    <3>4. Status(t) = "accepted" /\ Status(t)' = "running" /\ Door' = Door
      BY <2>2, <3>2, <3>3 DEF Status, Door
    <3>5. \A u \in Calls : u # t => Status(u)' = Status(u)
      BY <2>2, <3>2 DEF Status
    <3>6. Service!Become(t, "running")
      BY <3>4, <3>5, <1>d
    <3> QED
      BY <3>4, <3>6 DEF Service!Next, Service!Start
  <2> QED
    BY <2>3, <2>4
<1>18. ASSUME NEW g \in Calls, TaskReturns(g) PROVE [Service!Next]_(Service!vars)
  <2>1. gf[g] \in Calls
    BY <1>18 DEF TaskReturns, TaskEnds, GoIn, Control, GoInv
  <2>2. PICK t \in Calls : t = gf[g]
    BY <2>1
  <2>3. /\ ends' = [ends EXCEPT ![t] = ends[t] + 1]
        /\ pc' = pc /\ starts' = starts /\ release' = release /\ once' = once
    BY <1>18, <2>2 DEF TaskReturns, TaskEnds
  <2>4. starts[t] = 1 /\ ends[t] = 0
    BY <2>1, <2>2 DEF TaskInv
  <2>5. Status(t) = "running" /\ Status(t)' = "ended" /\ Door' = Door
    BY <2>3, <2>4 DEF Status, Door
  <2>6. \A u \in Calls : u # t => Status(u)' = Status(u)
    BY <2>3 DEF Status
  <2>7. Service!Become(t, "ended")
    BY <2>5, <2>6, <1>d
  <2> QED
    BY <2>5, <2>7 DEF Service!Next, Service!End
<1>19. ASSUME NEW g \in Calls, TaskPanics(g) PROVE [Service!Next]_(Service!vars)
  <2>1. gf[g] \in Calls
    BY <1>19 DEF TaskPanics, TaskEnds, GoIn, Control, GoInv
  <2>2. PICK t \in Calls : t = gf[g]
    BY <2>1
  <2>3. /\ ends' = [ends EXCEPT ![t] = ends[t] + 1]
        /\ pc' = pc /\ starts' = starts /\ release' = release /\ once' = once
    BY <1>19, <2>2 DEF TaskPanics, TaskEnds
  <2>4. starts[t] = 1 /\ ends[t] = 0
    BY <2>1, <2>2 DEF TaskInv
  <2>5. Status(t) = "running" /\ Status(t)' = "ended" /\ Door' = Door
    BY <2>3, <2>4 DEF Status, Door
  <2>6. \A u \in Calls : u # t => Status(u)' = Status(u)
    BY <2>3 DEF Status
  <2>7. Service!Become(t, "ended")
    BY <2>5, <2>6, <1>d
  <2> QED
    BY <2>5, <2>7 DEF Service!Next, Service!End
<1>20. ASSUME NEW g \in Calls, PutWorker(g) PROVE [Service!Next]_(Service!vars)
  <2>1. \A t \in Calls : pc'[t] = pc[t] \/ (pc[t] = "wait" /\ pc'[t] = "woken")
    BY <1>20, SignalEffect DEF PutWorker, Control
  <2> QED
    BY <1>20, <2>1, <1>c DEF PutWorker, Visible
<1>21. ASSUME NEW g \in Calls, NilPut(g) PROVE [Service!Next]_(Service!vars)
  BY <1>21, <1>c DEF NilPut, PutCache, Go, GoIn, Visible
<1>22. ASSUME NEW g \in Calls, DecRunning(g) PROVE [Service!Next]_(Service!vars)
  BY <1>22, <1>c DEF DecRunning, Go, GoIn, Visible
<1>23. ASSUME NEW g \in Calls, CachePut(g) PROVE [Service!Next]_(Service!vars)
  BY <1>23, <1>c DEF CachePut, PutCache, Go, GoIn, Visible
<1>24. ASSUME NEW g \in Calls, SignalExit(g) PROVE [Service!Next]_(Service!vars)
  <2>1. \A t \in Calls : pc'[t] = pc[t] \/ (pc[t] = "wait" /\ pc'[t] = "woken")
    BY <1>24, SignalEffect DEF SignalExit, Control
  <2> QED
    BY <1>24, <2>1, <1>c DEF SignalExit, Visible
<1>25. ASSUME NEW e \in Expirers, Tick(e) PROVE [Service!Next]_(Service!vars)
  BY <1>25, <1>c DEF Tick, SweepIn, Visible
<1>26. ASSUME NEW e \in Expirers, BeginSweep(e) PROVE [Service!Next]_(Service!vars)
  BY <1>26, <1>c DEF BeginSweep, SweepIn, Visible
<1>27. ASSUME NEW e \in Expirers, Expired(e) PROVE [Service!Next]_(Service!vars)
  BY <1>27, <1>c DEF Expired, SweepIn, Visible
<1>28. ASSUME NEW e \in Expirers, ExpireOne(e) PROVE [Service!Next]_(Service!vars)
  BY <1>28, <1>c DEF ExpireOne, SweepIn, Visible
<1>29. ASSUME NEW e \in Expirers, EndSweep(e) PROVE [Service!Next]_(Service!vars)
  BY <1>29, <1>c DEF EndSweep, SweepIn, Visible
<1>30. CASE ReleaseClear
  <2>1. /\ pc' = pc /\ starts' = starts /\ ends' = ends
        /\ release' = release /\ once = "no" /\ once' = "cleared"
    BY <1>30 DEF ReleaseClear
  <2>2. Door' = Door
    BY <2>1 DEF Door
  <2>3. \A u \in Calls : Status(u)' = Status(u)
    BY <2>1 DEF Status
  <2> QED
    BY <2>2, <2>3 DEF Service!vars
<1>31. CASE ReleaseSignal
  <2>1. /\ pc' = pc /\ starts' = starts /\ ends' = ends
        /\ release = 0 /\ release' = 1 /\ once = "cleared" /\ once' = "done"
    BY <1>31 DEF ReleaseSignal, Control, ReleaseInv
  <2>2. Door = "open" /\ Door' = "closed"
    BY <2>1 DEF Door
  <2>3. \A u \in Calls : Status(u)' = Status(u)
    BY <2>1 DEF Status
  <2> QED
    BY <2>2, <2>3 DEF Service!Next, Service!Close
<1>32. ASSUME NEW r \in Restarts, RestartCheck(r) PROVE [Service!Next]_(Service!vars)
  BY <1>32, <1>c DEF RestartCheck, Visible
<1>33. ASSUME NEW r \in Restarts, RestartRecv(r) PROVE [Service!Next]_(Service!vars)
  <2>1. /\ pc' = pc /\ starts' = starts /\ ends' = ends
        /\ release = 1 /\ release' = 0 /\ once = "done" /\ once' = once
    BY <1>33 DEF RestartRecv, Control, ReleaseInv
  <2>2. Door = "closed" /\ Door' = "reopened"
    BY <2>1 DEF Door
  <2>3. \A u \in Calls : Status(u)' = Status(u)
    BY <2>1 DEF Status
  <2> QED
    BY <2>2, <2>3 DEF Service!Next, Service!Reopen
<1>34. CASE NilPool
  BY <1>34, <1>c DEF NilPool, Visible
<1>35. CASE UNCHANGED vars
  BY <1>35, <1>c DEF vars, Visible
<1>36. QED
  BY <1>1, <1>2, <1>3, <1>4, <1>5, <1>6, <1>7, <1>8, <1>9, <1>10, <1>11,
     <1>12, <1>13, <1>14, <1>15, <1>16, <1>17, <1>18, <1>19, <1>20, <1>21,
     <1>22, <1>23, <1>24, <1>25, <1>26, <1>27, <1>28, <1>29, <1>30, <1>31,
     <1>32, <1>33, <1>34, <1>35
     DEF Next, Client, GetWorker, HandOver, Running, ExpireWorker, Release,
         Restart

(* For its clients the pool is the service: a task is refused only while   *)
(* the pool is closed, and an accepted one is executed at most once.       *)
THEOREM PoolImplementsService == Spec => ImplementsTaskService
<1>1. Init => TypeOK /\ Control /\ TaskInv
  <2>1. Init => TaskInv
    BY NamesAssumption DEF Init, TaskInv
  <2> QED
    BY <2>1, InitInv
<1>2. TypeOK /\ Control /\ TaskInv /\ [Next]_vars
        => (TypeOK /\ Control /\ TaskInv)'
  BY TypeStep, ControlStep, TaskStep
<1>3. Init => Service!Init
  BY DEF Init, Service!Init, Status, Door
<1>4. TypeOK /\ TypeOK' /\ Control /\ TaskInv /\ TaskInv' /\ [Next]_vars
        => [Service!Next]_(Service!vars)
  BY ServiceStep
<1> QED
  BY <1>1, <1>2, <1>3, <1>4, PTL DEF Spec, ImplementsTaskService, Service!Spec
=============================================================================
