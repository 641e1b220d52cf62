-------------------------- MODULE XcptFilter_proof --------------------------
(* Proofs about the exception filters, for a stack of any depth.           *)
EXTENDS XcptFilter, TLAPS

USE MaxDepthAssumption DEF Frame, NULL

\* A fresh frame on top of the stack, of a call or of an interrupt handler,
\* keeps the filter chain and the return addresses in order.
LEMMA NewFrame ==
    ASSUME IInv, Call \/ Interrupt
    PROVE  IInv'
<1>1. PICK n \in Frame : n = esp + 1
  BY DEF IInv, TypeOK, Call, Interrupt
<1>2. /\ live' = live \cup {n} /\ run' = n /\ esp' = n
      /\ back' = [back EXCEPT ![n] = run]
      /\ irqs' \subseteq irqs \cup {n}
      /\ UNCHANGED <<cur, tries, pre, ret, fired, landing, halted>>
  BY <1>1 DEF Call, Interrupt
<1>3. /\ \A f \in live : f <= run /\ f < n
      /\ run \in live
  BY <1>1 DEF IInv, TypeOK, RunsInnermostLive
<1>4. TypeOK'
  BY Zenon, <1>1, <1>2 DEF IInv, TypeOK, Call, Interrupt
<1>5. RunsInnermostLive'
  BY <1>1, <1>2, <1>3 DEF IInv, TypeOK, RunsInnermostLive
<1>6. ChainIsLiveTries'
  BY <1>2 DEF IInv, ChainIsLiveTries, IsInnermostBelow
<1>7. ASSUME NEW f \in live' \ {1}
      PROVE  back'[f] # NULL /\ IsInnermostBelow(back'[f], live', f)
  <2>1. CASE f = n
    BY <1>1, <1>2, <1>3, <2>1 DEF IInv, TypeOK, IsInnermostBelow
  <2>2. CASE f # n
    BY <1>1, <1>2, <1>3, <2>2 DEF IInv, TypeOK, IsInnermostBelow
  <2> QED BY <2>1, <2>2
<1>8. \A t \in tries' : ret'[t] = back'[t]
  BY <1>1, <1>2, <1>3 DEF IInv, TypeOK
<1>9. tries' \cap irqs' = {}
  BY <1>1, <1>2, <1>3 DEF IInv, TypeOK
<1> QED BY <1>2, <1>3, <1>4, <1>5, <1>6, <1>7, <1>8, <1>9 DEF IInv

\* A plain return leads to the innermost frame that is left.
LEMMA PlainReturnStep ==
    ASSUME IInv, PlainReturn
    PROVE  IInv'
<1>1. /\ run \in live \ {1} /\ run \notin tries
      /\ back[run] \in live /\ back[run] < run
      /\ \A f \in live : f < run => f <= back[run]
  BY DEF IInv, RunsInnermostLive, PlainReturn, IsInnermostBelow
<1>2. \A f \in live \ {run} : f < run
  BY DEF IInv, TypeOK, RunsInnermostLive
<1>3. TypeOK'
  BY SMTT(30), <1>1 DEF IInv, TypeOK, PlainReturn, Running
<1>4. RunsInnermostLive'
  BY <1>1, <1>2 DEF IInv, TypeOK, RunsInnermostLive, PlainReturn
<1>5. ChainIsLiveTries'
  BY DEF IInv, ChainIsLiveTries, IsInnermostBelow, PlainReturn
<1>6. ASSUME NEW f \in live' \ {1}
      PROVE  back'[f] # NULL /\ IsInnermostBelow(back'[f], live', f)
  BY SMTT(30), <1>1, <1>2 DEF IInv, TypeOK, IsInnermostBelow, PlainReturn
<1> QED BY SMTT(30), <1>1, <1>3, <1>4, <1>5, <1>6 DEF IInv, PlainReturn

\* _try puts the running function, the innermost one, at the head.
LEMMA TryStep ==
    ASSUME IInv, Try
    PROVE  IInv'
<1>1. /\ run \in live /\ run \notin tries
      /\ \A t \in tries : t < run
  BY DEF IInv, TypeOK, RunsInnermostLive, Try
<1>2. TypeOK'
  BY SMTT(30), <1>1 DEF IInv, TypeOK, Try
<1>3. RunsInnermostLive'
  BY DEF IInv, RunsInnermostLive, Try
<1>4. ChainIsLiveTries'
  <2>1. IsInnermostBelow(cur', tries', MaxDepth + 1)
    BY <1>1 DEF IInv, TypeOK, IsInnermostBelow, Try
  <2>2. ASSUME NEW t \in tries' PROVE IsInnermostBelow(pre'[t], tries', t)
    <3>1. CASE t = run
      BY SMTT(30), <1>1, <3>1 DEF IInv, TypeOK, ChainIsLiveTries, IsInnermostBelow, Try
    <3>2. CASE t # run
      BY SMTT(30), <1>1, <3>2 DEF IInv, TypeOK, ChainIsLiveTries, IsInnermostBelow, Try
    <3> QED BY <3>1, <3>2
  <2> QED BY <2>1, <2>2 DEF ChainIsLiveTries
<1>5. \A t \in tries' : ret'[t] = back'[t]
  BY <1>1 DEF IInv, TypeOK, Try
<1> QED BY SMTT(30), <1>2, <1>3, <1>4, <1>5 DEF IInv, IsInnermostBelow, Try

\* The running function, when it has a filter, has the head of the chain.
LEMMA OwnFilter ==
    ASSUME IInv, run \in tries
    PROVE  cur = run
BY DEF IInv, TypeOK, RunsInnermostLive, ChainIsLiveTries, IsInnermostBelow

\* The filter popped on the return of a function is the function's own.
LEMMA TryReturnStep ==
    ASSUME IInv, TryReturn
    PROVE  IInv'
<1>1. /\ run \in live \ {1} /\ run \in tries /\ cur = run /\ cur # NULL
      /\ back[run] \in live /\ back[run] < run /\ ret[run] = back[run]
      /\ \A f \in live : f < run => f <= back[run]
  BY SMTT(30), OwnFilter DEF IInv, TypeOK, RunsInnermostLive, TryReturn, IsInnermostBelow
<1>2. \A f \in live \ {run} : f < run
  BY DEF IInv, TypeOK, RunsInnermostLive
<1>3. TypeOK'
  BY SMTT(30), <1>1 DEF IInv, TypeOK, TryReturn, Running
<1>4. RunsInnermostLive'
  BY <1>1, <1>2 DEF IInv, TypeOK, RunsInnermostLive, TryReturn
<1>5. ChainIsLiveTries'
  BY SMTT(30), <1>1, <1>2 DEF IInv, TypeOK, ChainIsLiveTries, IsInnermostBelow, TryReturn
<1>6. ASSUME NEW f \in live' \ {1}
      PROVE  back'[f] # NULL /\ IsInnermostBelow(back'[f], live', f)
  BY SMTT(30), <1>1, <1>2 DEF IInv, TypeOK, IsInnermostBelow, TryReturn
<1> QED BY Zenon, <1>1, <1>3, <1>4, <1>5, <1>6 DEF IInv, TryReturn, Running

\* An exception leaves the frames up to the filter it finds, and a chain
\* that begins there.
LEMMA ExceptionStep ==
    ASSUME IInv, Exception
    PROVE  IInv'
<1> DEFINE F == FilterToFire
<1>1. F \in Frame \cup {NULL}
  BY SMTT(30) DEF IInv, TypeOK, FilterToFire
<1>2. /\ F # NULL => F \in tries /\ F <= cur /\ \A t \in tries : t <= F \/ t = cur
      /\ F = NULL => \A t \in tries : t = cur
  BY SMTT(30), <1>1 DEF IInv, TypeOK, ChainIsLiveTries, IsInnermostBelow, FilterToFire
<1>3. CASE F # NULL
  <2>1. /\ cur' = F /\ run' = F
        /\ live' = {f \in live : f <= F} /\ tries' = {f \in tries : f <= F}
        /\ irqs' = {f \in irqs : f <= F}
        /\ landing' = {f \in landing : f < F} \cup {F}
        /\ fired' = [fired EXCEPT ![F] = TRUE]
        /\ UNCHANGED <<esp, back, ifl, pre, ret, halted>> /\ ~halted
    BY <1>1, <1>3 DEF Exception, Running
  <2>2. F \in live /\ F \in tries /\ F \in Frame /\ F <= run
    BY Zenon, <1>2, <1>3 DEF IInv, TypeOK, RunsInnermostLive
  <2> HIDE DEF F
  <2>3. TypeOK'
    <3>1. \A f \in landing : f \in live /\ (f < F => f <= F)
      BY SMTT(30), <2>2 DEF IInv, TypeOK
    <3>2. fired' \in [Frame -> BOOLEAN]
      BY <2>1, <2>2 DEF IInv, TypeOK
    <3>3. landing' \subseteq live'
      BY <2>1, <2>2, <3>1
    <3>4. irqs' \subseteq live' /\ tries' \subseteq live' /\ live' \subseteq Frame
      BY Zenon, <2>1 DEF IInv, TypeOK
    <3> QED BY SMTT(30), <2>1, <2>2, <3>2, <3>3, <3>4 DEF IInv, TypeOK
  <2>4. RunsInnermostLive'
    BY SMTT(30), <2>1, <2>2 DEF IInv, TypeOK, RunsInnermostLive
  <2>5. ChainIsLiveTries'
    BY SMTT(30), <1>2, <2>1, <2>2 DEF IInv, TypeOK, ChainIsLiveTries, IsInnermostBelow
  <2>6. ASSUME NEW f \in live' \ {1}
        PROVE  back'[f] # NULL /\ IsInnermostBelow(back'[f], live', f)
    BY <2>1, <2>2 DEF IInv, TypeOK, IsInnermostBelow
  <2>7. landing' \subseteq tries'
    <3>1. \A f \in landing : f \in tries /\ (f < F => f <= F)
      BY SMTT(30), <2>1, <2>2 DEF IInv, TypeOK
    <3> QED BY SMTT(30), <2>1, <2>2, <3>1
  <2>8. 1 \in live' /\ \A t \in tries' : ret'[t] = back'[t]
    BY <2>1, <2>2 DEF IInv, TypeOK
  <2>9. tries' \cap irqs' = {}
    BY SMTT(30), <2>1 DEF IInv
  <2> QED BY SMTT(30), <2>1, <2>3, <2>4, <2>5, <2>6, <2>7, <2>8, <2>9 DEF IInv
<1>4. CASE F = NULL
  <2>a. /\ cur' = NULL /\ halted' = TRUE
        /\ tries' = IF cur = NULL THEN tries ELSE tries \ {cur}
        /\ UNCHANGED <<live, run, esp, back, irqs, ifl, pre, ret, fired, landing>>
    BY SMTT(30), <1>4 DEF Exception
  <2>b. cur = NULL => tries = {}
    BY DEF IInv, TypeOK, ChainIsLiveTries, IsInnermostBelow
  <2>1. /\ tries' = {} /\ cur' = NULL /\ halted' = TRUE
        /\ UNCHANGED <<live, run, esp, back, irqs, ifl, pre, ret, fired, landing>>
    BY SMTT(30), <1>2, <1>4, <2>a, <2>b
  <2>2. TypeOK' /\ RunsInnermostLive'
    BY SMTT(30), <2>1 DEF IInv, TypeOK, RunsInnermostLive
  <2>3. ChainIsLiveTries'
    BY <2>1 DEF ChainIsLiveTries, IsInnermostBelow
  <2> QED BY <2>1, <2>2, <2>3 DEF IInv, IsInnermostBelow
<1> QED BY <1>3, <1>4

\* Restoring the stack pointer at label 3 brings it back to the running
\* function's frame.
LEMMA LandStep ==
    ASSUME IInv, Land
    PROVE  IInv'
<1>1. run \in tries /\ cur = run /\ cur # NULL
  BY SMTT(30), OwnFilter DEF IInv, TypeOK, Land
<1> QED BY Zenon, <1>1
        DEF IInv, TypeOK, RunsInnermostLive, ChainIsLiveTries,
            IsInnermostBelow, Land

\* Every step of the functions, the exceptions and the interrupts keeps the chain.
LEMMA IInvInductive ==
    ASSUME IInv, [Next]_vars
    PROVE  IInv'
<1>1. CASE UNCHANGED vars
  BY SMTT(30), <1>1 DEF IInv, TypeOK, RunsInnermostLive, ChainIsLiveTries,
              IsInnermostBelow, vars
<1> QED BY <1>1, NewFrame, PlainReturnStep, TryStep, TryReturnStep,
           ExceptionStep, LandStep DEF Next

\* Before the first call there is no frame and no registration.
LEMMA InitIInv == Init => IInv
<1> SUFFICES ASSUME Init PROVE IInv
  OBVIOUS
<1>1. TypeOK
  <2>1. fired \in [Frame -> BOOLEAN]
    BY DEF Init
  <2>2. back \in [Frame -> Frame \cup {NULL}]
        /\ pre \in [Frame -> Frame \cup {NULL}]
        /\ ret \in [Frame -> Frame \cup {NULL}]
    BY DEF Init
  <2>3. 1 \in Frame /\ NULL \in Frame \cup {NULL}
    OBVIOUS
  <2>4. live \subseteq Frame /\ run \in Frame /\ esp \in Frame
        /\ cur \in Frame \cup {NULL}
    BY <2>3 DEF Init
  <2>5. irqs \subseteq live /\ tries \subseteq live /\ landing \subseteq live
    BY DEF Init
  <2>6. ifl \in BOOLEAN /\ halted \in BOOLEAN
    BY Zenon DEF Init
  <2> QED BY SMTT(30), <2>1, <2>2, <2>4, <2>5, <2>6 DEF TypeOK
<1>2. RunsInnermostLive /\ ChainIsLiveTries
  BY DEF Init, RunsInnermostLive, ChainIsLiveTries, IsInnermostBelow
<1> QED BY <1>1, <1>2 DEF Init, IInv

\* The strengthened invariant holds in every reachable state.
THEOREM Invariance == Spec => []IInv
BY InitIInv, IInvInductive, PTL DEF Spec

\* Type correctness of the filter chain and the stack.
THEOREM TypeCorrect == Spec => []TypeOK
<1>1. IInv => TypeOK
  BY DEF IInv
<1> QED BY <1>1, Invariance, PTL

\* Control is always in the innermost function that has not returned: the
\* redirected returns of _try functions and the jumps of isr_handler never
\* reach a function that is gone or is not the next one.
THEOREM ControlInInnermost == Spec => []RunsInnermostLive
<1>1. IInv => RunsInnermostLive
  BY DEF IInv
<1> QED BY <1>1, Invariance, PTL

\* __cur_Xcpt_filter and the pre links are the live _try functions.
THEOREM ChainCorrect == Spec => []ChainIsLiveTries
<1>1. IInv => ChainIsLiveTries
  BY DEF IInv
<1> QED BY <1>1, Invariance, PTL

\* __Xcpt_get_esp returns the stack pointer of the function at label 3.
THEOREM LandingCorrect == Spec => []LandsOnOwnStack
<1>1. IInv => LandsOnOwnStack
  BY OwnFilter DEF IInv, LandsOnOwnStack
<1> QED BY <1>1, Invariance, PTL
=============================================================================
