------------------------ MODULE DispatchWindows_proofs ------------------------
(***************************************************************************)
(* Proofs about DispatchWindows for any threads and any limits.  The bound *)
(* on the continuations is not inductive: the limit is compared with the   *)
(* windows process_window() has judged, and what ties the continuations to *)
(* them is how many may lie between two judgements.  Nor is the promise of *)
(* the counters: what each call has still to add is counted with what has  *)
(* been added, and a value loaded is no larger than a value stored later.  *)
(***************************************************************************)
EXTENDS DispatchWindows, FiniteSetTheorems, SequenceTheorems, TLAPS

(* A call that has not reached the provider has no windows.                *)
Fresh(t) ==
    pc[t] \in {"idle", "queued", "budget"} =>
        conts[t] = 0 /\ judged[t] = 0 /\ thinking[t] = 0

(* Up to the first decision there is only the primary window.              *)
Primary(t) ==
    pc[t] \in {"provider", "extract", "decide"} /\ conts[t] = 0 =>
        judged[t] = 0 /\ thinking[t] = 0

(* Where a continuation is under way, MayContinue said so at the last      *)
(* decision; a window of reasoning adds to the windows since then.         *)
Running(t) ==
    /\ pc[t] \in {"provider", "extract", "decide"} /\ conts[t] > 0 =>
          /\ judged[t] < MaxContinuations
          /\ kind[t] = "stream" => conts[t] <= judged[t]
    /\ pc[t] = "provider" /\ conts[t] > 0 /\ kind[t] = "dispatch" =>
          conts[t] <= 3 * judged[t] - 2 + thinking[t] /\ thinking[t] <= 2
    /\ pc[t] \in {"extract", "decide"} /\ conts[t] > 0 /\ kind[t] = "dispatch" =>
          conts[t] <= 3 * judged[t]
    /\ pc[t] \in {"extract", "decide"} => thinking[t] = 0

(* Between two windows.                                                    *)
Between(t) ==
    pc[t] = "next" =>
        /\ judged[t] < MaxContinuations
        /\ kind[t] = "stream" => conts[t] <= judged[t] - 1
        /\ kind[t] = "dispatch" =>
              conts[t] <= 3 * judged[t] - 3 + thinking[t]
        /\ thinking[t] <= 2

Bounded(t) ==
    \/ conts[t] = 0
    \/ kind[t] = "stream" /\ conts[t] <= MaxContinuations - 1
    \/ kind[t] = "dispatch" /\ conts[t] <= 3 * (MaxContinuations - 1)

Measured ==
    \A t \in Thread :
        Fresh(t) /\ Primary(t) /\ Running(t) /\ Between(t) /\ Bounded(t)

USE DispatchWindowsAssumption

-----------------------------------------------------------------------------
(* Types. *)

(* A new session has spent nothing. *)
LEMMA InitTyped == Init => TypeOK
<1> SUFFICES ASSUME Init PROVE TypeOK
  OBVIOUS
<1>1. tally \in [Counter -> Nat] /\ pc \in [Thread -> PC] /\ kind \in [Thread -> Kind]
  BY DEF Init, Counter, PC, Kind
<1>2. node \in [Thread -> WindowState] /\ conts \in [Thread -> Nat]
  BY DEF Init, WindowState
<1>3. judged \in [Thread -> Nat] /\ thinking \in [Thread -> 0..MaxThinking]
  BY DEF Init, MaxThinking
<1>4. due \in [Thread -> Seq(Counter \X Nat)] /\ seen \in [Thread -> Nat \cup {Unseen}]
  BY DEF Init
<1> QED
  BY <1>1, <1>2, <1>3, <1>4 DEF Init, TypeOK

(* Whichever way a call ends, its own state is reset.                      *)
LEMMA LeaveTyped ==
    ASSUME TypeOK, NEW t \in Thread, Leave(t)
    PROVE  /\ lock' \in Thread \cup {None}
           /\ pc' \in [Thread -> PC] /\ node' \in [Thread -> WindowState]
           /\ conts' \in [Thread -> Nat] /\ judged' \in [Thread -> Nat]
           /\ thinking' \in [Thread -> 0..MaxThinking]
           /\ due' \in [Thread -> Seq(Counter \X Nat)]
           /\ seen' \in [Thread -> Nat \cup {Unseen}]
BY DEF Leave, Goto, TypeOK, PC, WindowState, MaxThinking

(* A call that leaves its loop has its counters due. *)
LEMMA WindTyped ==
    ASSUME TypeOK, NEW t \in Thread, Wind(t)
    PROVE  pc' \in [Thread -> PC] /\ due' \in [Thread -> Seq(Counter \X Nat)]
<1>1. /\ <<"continuations", conts[t]>> \in Counter \X Nat
      /\ <<"windows", 1>> \in Counter \X Nat
  BY DEF TypeOK, Counter
<1>2. /\ <<<<"continuations", conts[t]>>, <<"windows", 1>>>> \in Seq(Counter \X Nat)
      /\ <<<<"windows", 1>>, <<"continuations", conts[t]>>>> \in Seq(Counter \X Nat)
  BY <1>1
<1> QED
  BY <1>2 DEF Wind, Goto, TypeOK, PC

(* Which steps touch the record of returned calls and of mishaps.          *)
LEMMA RecordKept ==
    ASSUME [Next]_vars
    PROVE  \/ \E t \in Thread : Store(t) \/ Return(t)
           \/ Reset
           \/ UNCHANGED <<returned, mishaps>>
<1> USE DEF windowVars, countVars, history
<1>1. ASSUME NEW t \in Thread,
             \/ \E k \in Kind : Begin(t, k)
             \/ Load(t) \/ Acquire(t) \/ OpenPrimary(t) \/ Answer(t) \/ Extract(t)
      PROVE  UNCHANGED <<returned, mishaps>>
  BY <1>1 DEF Begin, Load, Acquire, OpenPrimary, Answer, Extract
<1>2. ASSUME NEW t \in Thread, Refuse(t) \/ Fail(t) \/ ExtractFails(t) \/ Drop(t)
      PROVE  UNCHANGED <<returned, mishaps>>
  BY <1>2 DEF Refuse, Fail, ExtractFails, Drop
<1>3. ASSUME NEW t \in Thread,
             Break(t) \/ Think(t) \/ Decide(t) \/ Deadline(t) \/ Continue(t)
      PROVE  UNCHANGED <<returned, mishaps>>
  BY <1>3 DEF Break, Think, Decide, Deadline, Continue
<1>4. CASE UNCHANGED vars
  BY <1>4 DEF vars
<1> QED
  BY <1>1, <1>2, <1>3, <1>4 DEF Next, Step

(* It stays a record. *)
LEMMA RecordTyped ==
    ASSUME TypeOK, [Next]_vars
    PROVE  returned' \in Nat /\ mishaps' \in SUBSET Mishap
<1>1. ASSUME NEW t \in Thread, Store(t) PROVE returned' \in Nat /\ mishaps' \in SUBSET Mishap
  <2>1. returned' = returned /\ (mishaps' = mishaps \/ mishaps' = mishaps \cup {"raced"})
    BY <1>1 DEF Store
  <2> QED
    BY <2>1 DEF TypeOK, Mishap
<1>2. ASSUME NEW t \in Thread, Return(t) PROVE returned' \in Nat /\ mishaps' \in SUBSET Mishap
  BY <1>2 DEF Return, TypeOK
<1>3. CASE Reset
  BY <1>3 DEF Reset, TypeOK, Mishap
<1>4. CASE UNCHANGED <<returned, mishaps>>
  BY <1>4 DEF TypeOK
<1> QED
  BY <1>1, <1>2, <1>3, <1>4, RecordKept

(* No step of a dispatch spoils a type. *)
LEMMA StepTyped == TypeOK /\ Measured /\ [Next]_vars => TypeOK'
<1> SUFFICES ASSUME TypeOK, Measured, [Next]_vars PROVE TypeOK'
  OBVIOUS
<1> USE DEF windowVars, countVars, history
<1>one. <<<<"windows", 1>>>> \in Seq(Counter \X Nat)
  BY DEF Counter
<1>record. returned' \in Nat /\ mishaps' \in SUBSET Mishap
  BY RecordTyped
<1> USE <1>record
<1>1. ASSUME NEW t \in Thread, NEW k \in Kind, Begin(t, k) PROVE TypeOK'
  <2>1. pc' \in [Thread -> PC]
    <3>1. \E l \in PC : pc' = [pc EXCEPT ![t] = l]
      BY <1>1 DEF Begin, Goto, PC
    <3> QED
      BY <3>1 DEF TypeOK
  <2>2. kind' \in [Thread -> Kind]
    BY <1>1 DEF Begin, TypeOK
  <2>3. calls' \in 0..MaxCalls
    BY <1>1 DEF Begin, TypeOK
  <2>4. UNCHANGED <<lock, tally, node, conts, judged, thinking, due, seen, opened, finished>>
    BY <1>1 DEF Begin
  <2> QED
    BY <2>1, <2>2, <2>3, <2>4 DEF TypeOK
<1>2. ASSUME NEW t \in Thread, Acquire(t) PROVE TypeOK'
  BY <1>2 DEF Acquire, Goto, TypeOK, PC
<1>3. ASSUME NEW t \in Thread, Load(t) PROVE TypeOK'
  <2>1. Head(due[t]) \in Counter \X Nat
    BY <1>3 DEF Load, TypeOK
  <2>2. tally[Head(due[t])[1]] \in Nat
    BY <2>1 DEF TypeOK
  <2> QED
    BY <1>3, <2>2 DEF Load, TypeOK
<1>4. ASSUME NEW t \in Thread, Store(t) PROVE TypeOK'
  <2>1. Head(due[t]) \in Counter \X Nat /\ Tail(due[t]) \in Seq(Counter \X Nat)
    BY <1>4 DEF Store, TypeOK
  <2>2. seen[t] \in Nat
    BY <1>4 DEF Store, TypeOK
  <2>3. seen[t] + Head(due[t])[2] \in Nat
    BY <2>1, <2>2
  <2>4. tally' \in [Counter -> Nat]
    BY <1>4, <2>1, <2>3 DEF Store, TypeOK
  <2>5. due' \in [Thread -> Seq(Counter \X Nat)] /\ seen' \in [Thread -> Nat \cup {Unseen}]
    BY <1>4, <2>1 DEF Store, TypeOK
  <2> QED
    BY <1>4, <2>4, <2>5 DEF Store, TypeOK
<1>5. ASSUME NEW t \in Thread,
             Refuse(t) \/ Fail(t) \/ ExtractFails(t) \/ Return(t) \/ Drop(t)
      PROVE  TypeOK'
  <2>1. Leave(t) /\ UNCHANGED <<tally, kind, calls, opened, finished>>
    BY <1>5 DEF Refuse, Fail, ExtractFails, Return, Drop
  <2> QED
    BY <2>1, LeaveTyped DEF TypeOK
<1>6. ASSUME NEW t \in Thread, OpenPrimary(t) PROVE TypeOK'
  BY <1>6 DEF OpenPrimary, Enter, Goto, TypeOK, PC, WindowState
<1>7. ASSUME NEW t \in Thread, Break(t) \/ Deadline(t) PROVE TypeOK'
  BY <1>7, WindTyped DEF Break, Deadline, TypeOK
<1>8. ASSUME NEW t \in Thread, Think(t) PROVE TypeOK'
  <2>1. thinking[t] <= 2
    BY <1>8 DEF Think, Measured, Running, TypeOK, Kind
  <2>2. /\ thinking' = [thinking EXCEPT ![t] = @ + 1]
        /\ thinking[t] \in 0..3
    BY <1>8 DEF Think, TypeOK, MaxThinking
  <2>3. thinking' \in [Thread -> 0..MaxThinking]
    BY <2>1, <2>2 DEF TypeOK, MaxThinking
  <2>4. pc' \in [Thread -> PC] /\ due' \in [Thread -> Seq(Counter \X Nat)]
    <3>1. CASE Wind(t)
      BY <3>1, WindTyped
    <3>2. CASE Goto(t, "next") /\ due' = [due EXCEPT ![t] = <<<<"windows", 1>>>>]
      BY <3>2, <1>one DEF Goto, TypeOK, PC
    <3> QED
      BY <1>8, <3>1, <3>2 DEF Think
  <2>5. node' \in [Thread -> WindowState] /\ finished' \in Nat
    <3>1. /\ node' = node \/ node' = [node EXCEPT ![t] = "COMPLETED"]
          /\ finished' = finished \/ finished' = finished + 1
      <4>1. CASE thinking'[t] >= MaxThinking
        BY <1>8, <4>1 DEF Think
      <4>2. CASE ~(thinking'[t] >= MaxThinking)
        BY <1>8, <4>2 DEF Think, Enter
      <4> QED
        BY <4>1, <4>2
    <3>2. finished' \in Nat
      BY <3>1 DEF TypeOK
    <3>3. node' \in [Thread -> WindowState]
      <4>1. CASE node' = node
        BY <4>1 DEF TypeOK
      <4>2. CASE node' = [node EXCEPT ![t] = "COMPLETED"]
        BY <4>2 DEF TypeOK, WindowState
      <4> QED
        BY <3>1, <4>1, <4>2
    <3> QED
      BY <3>2, <3>3
  <2> QED
    BY <1>8, <2>3, <2>4, <2>5 DEF Think, TypeOK
<1>9. ASSUME NEW t \in Thread, Answer(t) PROVE TypeOK'
  <2>1. /\ "extract" \in PC /\ pc' = [pc EXCEPT ![t] = "extract"]
        /\ 0 \in 0..MaxThinking /\ thinking' = [thinking EXCEPT ![t] = 0]
    BY <1>9 DEF Answer, Goto, PC, MaxThinking
  <2>2. node' \in [Thread -> WindowState]
    <3>1. node' = [node EXCEPT ![t] = IF kind[t] = "stream" THEN "EXTRACTED" ELSE "COMPLETED"]
      BY <1>9 DEF Answer, Enter
    <3>2. "EXTRACTED" \in WindowState /\ "COMPLETED" \in WindowState
      BY DEF WindowState
    <3> QED
      BY <3>1, <3>2 DEF TypeOK
  <2>3. pc' \in [Thread -> PC]
    BY <2>1 DEF TypeOK
  <2>4. thinking' \in [Thread -> 0..MaxThinking]
    BY <2>1 DEF TypeOK
  <2>5. finished' \in Nat
    BY <1>9 DEF Answer, TypeOK
  <2>6. UNCHANGED <<lock, tally, kind, conts, judged, due, seen, calls, opened>>
    BY <1>9 DEF Answer
  <2> QED
    BY <2>2, <2>3, <2>4, <2>5, <2>6 DEF TypeOK
<1>10. ASSUME NEW t \in Thread, Extract(t) PROVE TypeOK'
  <2>1. due' \in [Thread -> Seq(Counter \X Nat)]
    <3>1. <<>> \in Seq(Counter \X Nat)
      OBVIOUS
    <3> QED
      BY <1>10, <1>one, <3>1 DEF Extract, TypeOK
  <2>2. node' \in [Thread -> WindowState] /\ pc' \in [Thread -> PC]
    BY <1>10 DEF Extract, Enter, Goto, TypeOK, PC, WindowState
  <2> QED
    BY <1>10, <2>1, <2>2 DEF Extract, TypeOK
<1>11. ASSUME NEW t \in Thread, Decide(t) PROVE TypeOK'
  <2>1. judged' \in [Thread -> Nat]
    BY <1>11 DEF Decide, TypeOK
  <2>2. pc' \in [Thread -> PC] /\ due' \in [Thread -> Seq(Counter \X Nat)]
    BY <1>11, WindTyped DEF Decide, Goto, TypeOK, PC
  <2> QED
    BY <1>11, <2>1, <2>2 DEF Decide, TypeOK
<1>12. ASSUME NEW t \in Thread, Continue(t) PROVE TypeOK'
  <2>1. CASE AtLimit(t)
    BY <1>12, <2>1, WindTyped DEF Continue, TypeOK
  <2>2. CASE ~AtLimit(t)
    <3>1. /\ conts' = [conts EXCEPT ![t] = @ + 1] /\ opened' = opened + 1
          /\ node' = [node EXCEPT ![t] = "GENERATING"]
          /\ pc' = [pc EXCEPT ![t] = "provider"]
          /\ UNCHANGED <<due, lock, tally, seen, kind, judged, thinking, calls, finished>>
      <4>1. /\ conts' = [conts EXCEPT ![t] = @ + 1] /\ opened' = opened + 1
            /\ Enter(t, "GENERATING") /\ Goto(t, "provider") /\ UNCHANGED due
        BY <1>12, <2>2 DEF Continue
      <4>2. UNCHANGED <<lock, tally, seen, kind, judged, thinking, calls, finished>>
        BY <1>12 DEF Continue
      <4> QED
        BY <4>1, <4>2 DEF Enter, Goto
    <3>2. conts' \in [Thread -> Nat] /\ opened' \in Nat
      <4>1. conts \in [Thread -> Nat] /\ opened \in Nat
        BY DEF TypeOK
      <4>2. conts[t] + 1 \in Nat /\ opened + 1 \in Nat
        BY <4>1
      <4> QED
        BY <3>1, <4>1, <4>2
    <3>3. "GENERATING" \in WindowState /\ "provider" \in PC
      BY DEF WindowState, PC
    <3>4. node' \in [Thread -> WindowState]
      BY <3>1, <3>3 DEF TypeOK
    <3>5. pc' \in [Thread -> PC]
      BY <3>1, <3>3 DEF TypeOK
    <3> QED
      BY <3>1, <3>2, <3>4, <3>5 DEF TypeOK
  <2> QED
    BY <2>1, <2>2
<1>13. CASE Reset
  BY <1>13 DEF Reset, TypeOK
<1>14. CASE UNCHANGED vars
  BY <1>14 DEF vars, TypeOK
<1> QED
  BY <1>1, <1>2, <1>3, <1>4, <1>5, <1>6, <1>7, <1>8, <1>9, <1>10, <1>11, <1>12,
     <1>13, <1>14 DEF Next, Step

-----------------------------------------------------------------------------
(* The bound. *)

(* No step takes a call over the windows that its decisions allow. *)
LEMMA StepMeasured == TypeOK /\ Measured /\ [Next]_vars => Measured'
<1> SUFFICES ASSUME TypeOK, Measured, [Next]_vars, NEW u \in Thread
             PROVE  (Fresh(u) /\ Primary(u) /\ Running(u) /\ Between(u) /\ Bounded(u))'
  BY DEF Measured
<1>0. /\ Fresh(u) /\ Primary(u) /\ Running(u) /\ Between(u) /\ Bounded(u)
      /\ conts[u] \in Nat /\ judged[u] \in Nat /\ thinking[u] \in Nat
      /\ kind[u] \in {"dispatch", "stream"}
  <2>1. conts[u] \in Nat /\ judged[u] \in Nat /\ thinking[u] \in 0..3
    BY DEF TypeOK, MaxThinking
  <2>2. kind[u] \in {"dispatch", "stream"}
    BY DEF TypeOK, Kind
  <2>3. Fresh(u) /\ Primary(u) /\ Running(u) /\ Between(u) /\ Bounded(u)
    BY DEF Measured
  <2> QED
    BY <2>1, <2>2, <2>3
<1> USE DEF Fresh, Primary, Running, Between, Bounded
<1>same. ASSUME UNCHANGED <<pc[u], kind[u], conts[u], judged[u], thinking[u]>>
         PROVE  (Fresh(u) /\ Primary(u) /\ Running(u) /\ Between(u) /\ Bounded(u))'
  BY <1>0, <1>same
<1>left. ASSUME Leave(u)
         PROVE  (Fresh(u) /\ Primary(u) /\ Running(u) /\ Between(u) /\ Bounded(u))'
  BY <1>left DEF Leave, Goto, TypeOK
<1>1. ASSUME NEW k \in Kind, Begin(u, k)
      PROVE  (Fresh(u) /\ Primary(u) /\ Running(u) /\ Between(u) /\ Bounded(u))'
  BY <1>0, <1>1 DEF Begin, Goto, TypeOK, windowVars
<1>2. ASSUME Acquire(u) \/ OpenPrimary(u)
      PROVE  (Fresh(u) /\ Primary(u) /\ Running(u) /\ Between(u) /\ Bounded(u))'
  BY <1>0, <1>2 DEF Acquire, OpenPrimary, Goto, Enter, TypeOK, windowVars
<1>3. ASSUME Break(u) \/ Deadline(u)
      PROVE  (Fresh(u) /\ Primary(u) /\ Running(u) /\ Between(u) /\ Bounded(u))'
  BY <1>0, <1>3 DEF Break, Deadline, Wind, Goto, TypeOK, windowVars
<1>4. ASSUME Think(u)
      PROVE  (Fresh(u) /\ Primary(u) /\ Running(u) /\ Between(u) /\ Bounded(u))'
  <2>1. UNCHANGED <<kind[u], conts[u], judged[u]>>
    BY <1>4 DEF Think
  <2>2. thinking'[u] = thinking[u] + 1
    BY <1>4 DEF Think, TypeOK
  <2>3. \/ pc'[u] = "return"
        \/ pc'[u] = "next" /\ thinking'[u] < 3
    <3>1. CASE thinking'[u] >= MaxThinking
      BY <1>4, <3>1 DEF Think, Wind, Goto, TypeOK
    <3>2. CASE ~(thinking'[u] >= MaxThinking)
      <4>1. pc'[u] = "next"
        BY <1>4, <3>2 DEF Think, Goto, TypeOK
      <4>2. thinking'[u] < 3
        BY <1>0, <2>2, <3>2 DEF MaxThinking
      <4> QED
        BY <4>1, <4>2
    <3> QED
      BY <3>1, <3>2
  <2>4. pc[u] = "provider" /\ kind[u] = "dispatch" /\ conts[u] > 0
    BY <1>4 DEF Think
  <2>5. /\ judged[u] \in 1..(MaxContinuations - 1)
        /\ conts[u] <= 3 * judged[u] - 2 + thinking[u]
        /\ thinking[u] <= 2
    BY <1>0, <2>4
  <2>6. CASE pc'[u] = "return"
    BY <1>0, <2>1, <2>6
  <2>7. CASE pc'[u] = "next" /\ thinking'[u] < 3
    BY <1>0, <2>1, <2>2, <2>4, <2>5, <2>7
  <2> QED
    BY <2>3, <2>6, <2>7
<1>5. ASSUME Answer(u)
      PROVE  (Fresh(u) /\ Primary(u) /\ Running(u) /\ Between(u) /\ Bounded(u))'
  BY <1>0, <1>5 DEF Answer, Enter, Goto, TypeOK, MaxThinking
<1>6. ASSUME Extract(u)
      PROVE  (Fresh(u) /\ Primary(u) /\ Running(u) /\ Between(u) /\ Bounded(u))'
  BY <1>0, <1>6 DEF Extract, Enter, Goto, TypeOK
<1>7. ASSUME Decide(u)
      PROVE  (Fresh(u) /\ Primary(u) /\ Running(u) /\ Between(u) /\ Bounded(u))'
  <2>1. /\ pc[u] = "decide" /\ judged'[u] = judged[u] + 1
        /\ UNCHANGED <<kind[u], conts[u], thinking[u]>>
        /\ \/ pc'[u] = "return"
           \/ pc'[u] = "next" /\ judged[u] + 1 < MaxContinuations
    BY <1>0, <1>7 DEF Decide, MayContinue, Wind, Goto, TypeOK
  <2>2. /\ thinking[u] = 0
        /\ \/ conts[u] = 0 /\ judged[u] = 0
           \/ /\ judged[u] < MaxContinuations
              /\ conts[u] <= IF kind[u] = "stream" THEN judged[u] ELSE 3 * judged[u]
    BY <1>0, <2>1
  <2>3. CASE pc'[u] = "return"
    BY <1>0, <2>1, <2>2, <2>3
  <2>4. CASE pc'[u] = "next"
    BY <1>0, <2>1, <2>2, <2>4
  <2> QED
    BY <2>1, <2>3, <2>4
<1>8. ASSUME Continue(u)
      PROVE  (Fresh(u) /\ Primary(u) /\ Running(u) /\ Between(u) /\ Bounded(u))'
  <2>1. CASE AtLimit(u)
    BY <1>0, <1>8, <2>1 DEF Continue, Wind, Goto, TypeOK
  <2>2. CASE ~AtLimit(u)
    <3>1. /\ pc[u] = "next" /\ pc'[u] = "provider"
          /\ conts'[u] = conts[u] + 1
          /\ UNCHANGED <<kind[u], judged[u], thinking[u]>>
      BY <1>8, <2>2 DEF Continue, Goto, TypeOK
    <3> QED
      BY <1>0, <3>1
  <2> QED
    BY <2>1, <2>2
<1>9. ASSUME Load(u) \/ Store(u)
      PROVE  UNCHANGED <<pc[u], kind[u], conts[u], judged[u], thinking[u]>>
  BY <1>9 DEF Load, Store, windowVars
<1>10. ASSUME NEW t \in Thread, t # u, Step(t) \/ Deadline(t) \/ Drop(t) \/ \E k \in Kind : Begin(t, k)
       PROVE  UNCHANGED <<pc[u], kind[u], conts[u], judged[u], thinking[u]>>
  BY <1>10 DEF Step, Deadline, Drop, Begin, Load, Store, Acquire, Refuse,
     OpenPrimary, Fail, Break, Think, Answer, Extract, ExtractFails, Decide,
     Continue, Return, Leave, Wind, Goto, TypeOK, windowVars
<1>11. ASSUME Refuse(u) \/ Fail(u) \/ ExtractFails(u) \/ Return(u) \/ Drop(u)
       PROVE  Leave(u)
  BY <1>11 DEF Refuse, Fail, ExtractFails, Return, Drop
<1>12. CASE Reset \/ UNCHANGED vars
  BY <1>12, <1>same DEF Reset, vars, windowVars
<1> QED
  BY <1>same, <1>left, <1>1, <1>2, <1>3, <1>4, <1>5, <1>6, <1>7, <1>8, <1>9,
     <1>10, <1>11, <1>12 DEF Next, Step

(* Both hold throughout. *)
LEMMA Invariance == Spec => [](TypeOK /\ Measured)
<1>1. Init => Measured
  BY DEF Init, Measured, Fresh, Primary, Running, Between, Bounded
<1> QED
  BY <1>1, InitTyped, StepTyped, StepMeasured, PTL DEF Spec

(* Every reachable state of the calls and the counters is well formed; in  *)
(* particular a provider that only reasons is stopped at the third window. *)
THEOREM TypeCorrect == Spec => []TypeOK
BY Invariance, PTL

(* Whatever the provider answers, a stream opens less than                 *)
(* max_continuations further windows, and dispatch() less than three times *)
(* as many.                                                                *)
THEOREM ContinuationsAreBounded == Spec => []ContinuationsBounded
<1>1. TypeOK /\ Measured => ContinuationsBounded
  BY DEF TypeOK, Kind, Measured, Bounded, ContinuationsBounded, MaxThinking
<1> QED
  BY <1>1, Invariance, PTL

-----------------------------------------------------------------------------
(* The counters.  What the calls owe a counter is counted as a set of      *)
(* units, one for each window that is finished or opened and not added.    *)

Amount(q, c) == IF q # <<>> /\ Head(q)[1] = c THEN Head(q)[2] ELSE 0

Pending(t, c) ==
    Amount(due[t], c) + (IF due[t] = <<>> THEN 0 ELSE Amount(Tail(due[t]), c))

(* The primary window of the call is finished and not due yet.             *)
Past(t) ==
    \/ pc[t] \in {"extract", "decide", "next"}
    \/ pc[t] = "provider" /\ conts[t] > 0

Future(t, c) ==
    IF c = "windows"
    THEN (IF Past(t) THEN 1 ELSE 0)
         + (IF pc[t] = "extract" /\ conts[t] > 0 /\ kind[t] = "dispatch" THEN 1 ELSE 0)
    ELSE IF pc[t] \in {"provider", "extract", "decide", "next"} THEN conts[t] ELSE 0

Owes(t, c) == Pending(t, c) + Future(t, c)

Debt(c) == [t \in Thread |-> Owes(t, c)]

Units(f) == {p \in Thread \X Nat : 1 <= p[2] /\ p[2] <= f[p[1]]}

Had(c) == IF c = "windows" THEN finished ELSE opened

(* Additions are due only where a call makes them, at most two at a time,  *)
(* and a value is loaded only for one of them.                             *)
Quiet(t) ==
    /\ pc[t] \in {"idle", "queued", "budget", "provider", "extract"} => due[t] = <<>>
    /\ due[t] = <<>> => seen[t] = Unseen
    /\ Len(due[t]) <= 2

(* With all that is owed added to it, neither a counter nor a value loaded *)
(* from it exceeds what the session had.                                   *)
Loaded(t, c) == seen[t] # Unseen /\ Head(due[t])[1] = c

Covered(c) ==
    /\ IsFiniteSet(Units(Debt(c)))
    /\ tally[c] + Cardinality(Units(Debt(c))) <= Had(c)
    /\ \A t \in Thread :
          Loaded(t, c) => seen[t] + Cardinality(Units(Debt(c))) <= Had(c)

Solvent == (\A t \in Thread : Quiet(t)) /\ (\A c \in Counter : Covered(c))

(* One call owes more or less: the units grow or shrink by the difference. *)
LEMMA UnitsChange ==
    ASSUME NEW f \in [Thread -> Nat], NEW g \in [Thread -> Nat], NEW t \in Thread,
           \A u \in Thread \ {t} : g[u] = f[u],
           IsFiniteSet(Units(f))
    PROVE  /\ IsFiniteSet(Units(g))
           /\ Cardinality(Units(g)) = Cardinality(Units(f)) - f[t] + g[t]
<1> DEFINE Rest == {p \in Thread \X Nat : p[1] # t /\ 1 <= p[2] /\ p[2] <= f[p[1]]}
           Mine(n) == {t} \X (1..n)
<1>1. ASSUME NEW n \in Nat
      PROVE  IsFiniteSet(Mine(n)) /\ Cardinality(Mine(n)) = n /\ Rest \cap Mine(n) = {}
  <2>1. IsFiniteSet({t}) /\ Cardinality({t}) = 1
    BY FS_Singleton
  <2>2. IsFiniteSet(1..n) /\ Cardinality(1..n) = n
    <3>1. 1 \in Int /\ n \in Int
      OBVIOUS
    <3>2. IsFiniteSet(1..n) /\ Cardinality(1..n) = IF 1 > n THEN 0 ELSE n - 1 + 1
      BY <3>1, FS_Interval, Zenon
    <3> QED
      BY <3>2
  <2> DEFINE A == {t}
             B == 1..n
  <2>3. IsFiniteSet(Mine(n)) /\ Cardinality(Mine(n)) = 1 * n
    <3>1. IsFiniteSet(A) /\ Cardinality(A) = 1 /\ IsFiniteSet(B) /\ Cardinality(B) = n
      BY <2>1, <2>2
    <3> HIDE DEF A, B
    <3>2. IsFiniteSet(A \X B) /\ Cardinality(A \X B) = Cardinality(A) * Cardinality(B)
      BY <3>1, FS_Product, Zenon
    <3>3. IsFiniteSet(A \X B) /\ Cardinality(A \X B) = 1 * n
      BY <3>1, <3>2
    <3> QED
      BY <3>3 DEF A, B
  <2> QED
    BY <2>3
<1>2. IsFiniteSet(Rest)
  <2>1. Rest \in SUBSET Units(f)
    BY DEF Units
  <2> QED
    BY <2>1, FS_Subset
<1>3. ASSUME NEW h \in [Thread -> Nat], \A u \in Thread \ {t} : h[u] = f[u]
      PROVE  /\ IsFiniteSet(Units(h))
             /\ Cardinality(Units(h)) = Cardinality(Rest) + h[t]
  <2>1. h[t] \in Nat
    OBVIOUS
  <2>2. Units(h) = Rest \cup Mine(h[t])
    <3>1. ASSUME NEW u \in Thread, NEW k \in Nat
          PROVE  <<u, k>> \in Units(h) <=> <<u, k>> \in Rest \cup Mine(h[t])
      <4>1. CASE u = t
        BY <4>1 DEF Units
      <4>2. CASE u # t
        BY <1>3, <4>2 DEF Units
      <4> QED
        BY <4>1, <4>2
    <3>2. Units(h) \subseteq Thread \X Nat /\ Rest \cup Mine(h[t]) \subseteq Thread \X Nat
      BY DEF Units
    <3> QED
      BY <3>1, <3>2
  <2>a. IsFiniteSet(Mine(h[t]))
    BY <1>1, <2>1
  <2>3. /\ IsFiniteSet(Rest \cup Mine(h[t]))
        /\ Cardinality(Rest \cup Mine(h[t])) =
              Cardinality(Rest) + Cardinality(Mine(h[t])) - Cardinality(Rest \cap Mine(h[t]))
    BY <1>2, <2>a, FS_Union, Zenon
  <2>4. Cardinality(Rest \cap Mine(h[t])) = 0 /\ Cardinality(Mine(h[t])) = h[t]
    BY <1>1, <2>1, FS_EmptySet
  <2>5. Cardinality(Rest) \in Nat
    BY <1>2, FS_CardinalityType
  <2> HIDE DEF Rest, Mine
  <2> QED
    BY <2>1, <2>2, <2>3, <2>4, <2>5
<1>4. /\ IsFiniteSet(Units(g)) /\ Cardinality(Units(g)) = Cardinality(Rest) + g[t]
      /\ Cardinality(Units(f)) = Cardinality(Rest) + f[t]
  BY <1>3
<1>5. Cardinality(Rest) \in Nat /\ f[t] \in Nat /\ g[t] \in Nat
  BY <1>2, FS_CardinalityType
<1> QED
  BY <1>4, <1>5

(* What is owed to a counter is a natural number. *)
LEMMA AmountNatural ==
    ASSUME NEW q \in Seq(Counter \X Nat), NEW c PROVE Amount(q, c) \in Nat
<1>1. CASE q = <<>>
  BY <1>1 DEF Amount
<1>2. CASE q # <<>>
  <2>1. Head(q) \in Counter \X Nat
    BY <1>2
  <2> QED
    BY <2>1 DEF Amount
<1> QED
  BY <1>1, <1>2

(* Of two updates the second is left. *)
LEMMA OneLeft ==
    ASSUME NEW S, NEW q \in Seq(S), q # <<>>, Len(q) <= 1 PROVE Len(q) = 1
<1> DEFINE n == Len(q)
<1>1. n \in Nat /\ n # 0 /\ n <= 1
  BY EmptySeq, LenProperties
<1> HIDE DEF n
<1>2. n = 1
  BY <1>1
<1> QED
  BY <1>2 DEF n

(* Of a single update nothing is left. *)
LEMMA ShortTail ==
    ASSUME NEW S, NEW q \in Seq(S), Len(q) = 1 PROVE Tail(q) = <<>>
<1> DEFINE r == Tail(q)
<1>1. r \in Seq(S) /\ Len(r) = 0
  OBVIOUS
<1>2. r = <<>>
  <2> HIDE DEF r
  <2> QED
    BY <1>1
<1> QED
  BY <1>2

OwesTyped ==
    \A t \in Thread, c \in Counter :
        Pending(t, c) \in Nat /\ Future(t, c) \in Nat /\ Owes(t, c) \in Nat

(* Every thread owes every counter a natural number. *)
LEMMA OwesNatural == TypeOK => OwesTyped
<1> SUFFICES ASSUME TypeOK, NEW t \in Thread, NEW c \in Counter
             PROVE  Pending(t, c) \in Nat /\ Future(t, c) \in Nat /\ Owes(t, c) \in Nat
  BY DEF OwesTyped
<1>1. \A q \in Seq(Counter \X Nat) : Amount(q, c) \in Nat
  BY AmountNatural
<1>2. due[t] \in Seq(Counter \X Nat) /\ conts[t] \in Nat
  BY DEF TypeOK
<1>3. Pending(t, c) \in Nat
  <2>1. Amount(due[t], c) \in Nat
    BY <1>1, <1>2
  <2>2. due[t] # <<>> => Amount(Tail(due[t]), c) \in Nat
    <3> SUFFICES ASSUME due[t] # <<>> PROVE Amount(Tail(due[t]), c) \in Nat
      OBVIOUS
    <3>1. Tail(due[t]) \in Seq(Counter \X Nat)
      BY <1>2
    <3> QED
      BY <1>1, <3>1
  <2> QED
    BY <2>1, <2>2 DEF Pending
<1>4. Future(t, c) \in Nat
  BY <1>2 DEF Future
<1> QED
  BY <1>3, <1>4 DEF Owes

(* What all threads owe changes by what the one that moves owes. *)
LEMMA DebtChange ==
    ASSUME TypeOK, TypeOK', NEW c \in Counter, NEW t \in Thread,
           \A u \in Thread \ {t} : Owes(u, c)' = Owes(u, c),
           IsFiniteSet(Units(Debt(c)))
    PROVE  /\ IsFiniteSet(Units(Debt(c)'))
           /\ Cardinality(Units(Debt(c)')) =
                 Cardinality(Units(Debt(c))) - Owes(t, c) + Owes(t, c)'
           /\ Cardinality(Units(Debt(c))) \in Nat
           /\ Cardinality(Units(Debt(c)')) \in Nat
<1>1. ASSUME NEW u \in Thread PROVE Owes(u, c) \in Nat /\ Owes(u, c)' \in Nat
  <2>1. Owes(u, c) \in Nat
    BY OwesNatural DEF OwesTyped
  <2>2. (TypeOK => OwesTyped)'
    BY OwesNatural, PTL
  <2>3. OwesTyped'
    BY <2>2
  <2> QED
    BY <2>1, <2>3 DEF OwesTyped
<1>2. Debt(c) \in [Thread -> Nat] /\ Debt(c)' \in [Thread -> Nat]
  BY <1>1 DEF Debt
<1>3. \A u \in Thread : Debt(c)[u] = Owes(u, c) /\ Debt(c)'[u] = Owes(u, c)'
  BY DEF Debt
<1>4. \A u \in Thread \ {t} : Debt(c)'[u] = Debt(c)[u]
  BY <1>3
<1> HIDE DEF Debt
<1>5. /\ IsFiniteSet(Units(Debt(c)'))
      /\ Cardinality(Units(Debt(c)')) =
            Cardinality(Units(Debt(c))) - Debt(c)[t] + Debt(c)'[t]
  BY <1>2, <1>4, UnitsChange
<1> QED
  BY <1>3, <1>5, FS_CardinalityType

(* A step of one call that touches no counter: whatever it owes more, it   *)
(* has finished or opened.                                                 *)
Within(t) ==
    /\ \A u \in Thread \ {t} :
          UNCHANGED <<pc[u], kind[u], conts[u], due[u], seen[u]>>
    /\ UNCHANGED tally
    /\ UNCHANGED <<due[t], seen[t]>> \/ seen'[t] = Unseen
    /\ \A c \in Counter : Owes(t, c)' - Owes(t, c) <= Had(c)' - Had(c)
    /\ Quiet(t)'

(* A call that touches no counter, and owes more only for what it finished *)
(* or opened, keeps the counters solvent.                                  *)
LEMMA WithinSolvent ==
    ASSUME TypeOK, TypeOK', Solvent, NEW t \in Thread, Within(t)
    PROVE  Solvent'
<1>1. ASSUME NEW u \in Thread PROVE Quiet(u)'
  <2>1. CASE u = t
    BY <2>1 DEF Within
  <2>2. CASE u # t
    BY <2>2 DEF Within, Solvent, Quiet
  <2> QED
    BY <2>1, <2>2
<1>2. ASSUME NEW c \in Counter PROVE Covered(c)'
  <2> DEFINE before == Cardinality(Units(Debt(c)))
             after  == Cardinality(Units(Debt(c)'))
  <2>1. \A u \in Thread \ {t} : Owes(u, c)' = Owes(u, c)
    BY DEF Within, Owes, Pending, Future, Past
  <2>2. /\ IsFiniteSet(Units(Debt(c)'))
        /\ after = before - Owes(t, c) + Owes(t, c)'
        /\ before \in Nat /\ after \in Nat
    BY <2>1, DebtChange DEF Solvent, Covered
  <2>3. Owes(t, c) \in Nat /\ Owes(t, c)' \in Nat
    <3>1. Owes(t, c) \in Nat
      BY OwesNatural DEF OwesTyped
    <3>2. (TypeOK => OwesTyped)'
      BY OwesNatural, PTL
    <3>3. OwesTyped'
      BY <3>2
    <3> QED
      BY <3>1, <3>3 DEF OwesTyped
  <2>4. Had(c) \in Nat /\ Had(c)' \in Nat /\ tally[c] \in Nat
    BY DEF TypeOK, Had
  <2>5. Owes(t, c)' - Owes(t, c) <= Had(c)' - Had(c)
    BY DEF Within
  <2>6. after - before <= Had(c)' - Had(c)
    BY <2>2, <2>3, <2>4, <2>5
  <2>7. tally'[c] + after <= Had(c)'
    <3>1. tally[c] + before <= Had(c) /\ tally'[c] = tally[c]
      BY DEF Solvent, Covered, Within
    <3> HIDE DEF before, after
    <3> QED
      BY <2>2, <2>4, <2>6, <3>1
  <2>8. ASSUME NEW u \in Thread, Loaded(u, c)' PROVE seen'[u] + after <= Had(c)'
    <3>1. due'[u] = due[u] /\ seen'[u] = seen[u] /\ seen[u] # Unseen
      BY <2>8 DEF Within, Loaded
    <3>2. Loaded(u, c)
      BY <2>8, <3>1 DEF Loaded
    <3>3. seen[u] + before <= Had(c)
      BY <3>2 DEF Solvent, Covered
    <3>4. seen[u] \in Nat
      BY <3>1 DEF TypeOK
    <3> HIDE DEF before, after
    <3> QED
      BY <2>2, <2>4, <2>6, <3>1, <3>3, <3>4
  <2> QED
    BY <2>2, <2>7, <2>8 DEF Covered
<1> QED
  BY <1>1, <1>2 DEF Solvent

(* An addition: the debt shrinks by what the counter grows.                *)
LEMMA StoreSolvent ==
    ASSUME TypeOK, TypeOK', Solvent, NEW t \in Thread, Store(t)
    PROVE  Solvent'
<1> USE DEF windowVars, countVars, history
<1>0. /\ due[t] # <<>> /\ Len(due[t]) <= 2 /\ due[t] \in Seq(Counter \X Nat)
      /\ Head(due[t]) \in Counter \X Nat
      /\ due' = [due EXCEPT ![t] = Tail(due[t])]
      /\ seen' = [seen EXCEPT ![t] = Unseen]
      /\ seen[t] # Unseen /\ seen[t] \in Nat
      /\ tally' = [tally EXCEPT ![Head(due[t])[1]] = seen[t] + Head(due[t])[2]]
      /\ UNCHANGED <<pc, kind, conts, opened, finished>>
  <2>1. due[t] # <<>> /\ Len(due[t]) <= 2 /\ due[t] \in Seq(Counter \X Nat)
    BY DEF Store, Solvent, Quiet, TypeOK
  <2>2. Head(due[t]) \in Counter \X Nat
    BY <2>1
  <2> QED
    BY <2>1, <2>2 DEF Store, TypeOK
<1>1. due'[t] = Tail(due[t]) /\ Len(Tail(due[t])) <= 1
  BY <1>0 DEF TypeOK
<1>2. ASSUME NEW u \in Thread PROVE Quiet(u)'
  <2>1. CASE u = t
    <3>1. pc[t] \notin {"idle", "queued", "budget", "provider", "extract"}
      BY <1>0 DEF Solvent, Quiet
    <3>2. seen'[t] = Unseen /\ pc' = pc
      BY <1>0 DEF TypeOK
    <3>3. Len(Tail(due[t])) <= 2
      BY <1>0
    <3> QED
      BY <1>1, <2>1, <3>1, <3>2, <3>3 DEF Quiet
  <2>2. CASE u # t
    BY <1>0, <2>2 DEF Solvent, Quiet, TypeOK
  <2> QED
    BY <2>1, <2>2
<1>3. ASSUME NEW c \in Counter PROVE Covered(c)'
  <2> DEFINE before == Cardinality(Units(Debt(c)))
             after  == Cardinality(Units(Debt(c)'))
             n == IF Head(due[t])[1] = c THEN Head(due[t])[2] ELSE 0
  <2>n. n \in Nat
    BY <1>0
  <2>1. \A u \in Thread \ {t} : Owes(u, c)' = Owes(u, c)
    BY <1>0 DEF Owes, Pending, Future, Past, TypeOK
  <2>2. /\ IsFiniteSet(Units(Debt(c)'))
        /\ after = before - Owes(t, c) + Owes(t, c)'
        /\ before \in Nat /\ after \in Nat
    BY <2>1, DebtChange DEF Solvent, Covered
  <2>3. Owes(t, c) = n + Owes(t, c)' /\ Owes(t, c)' \in Nat
    <3>1. Future(t, c)' = Future(t, c)
      BY <1>0 DEF Future, Past
    <3>2. Amount(due[t], c) = n
      BY <1>0 DEF Amount
    <3>3. Tail(due[t]) # <<>> => Tail(Tail(due[t])) = <<>>
      <4> SUFFICES ASSUME Tail(due[t]) # <<>> PROVE Tail(Tail(due[t])) = <<>>
        OBVIOUS
      <4>1. Tail(due[t]) \in Seq(Counter \X Nat)
        BY <1>0
      <4>2. Len(Tail(due[t])) <= 1
        BY <1>1
      <4>3. Len(Tail(due[t])) = 1
        BY <4>1, <4>2, OneLeft
      <4> QED
        BY <4>1, <4>3, ShortTail
    <3>4. Amount(<<>>, c) = 0
      BY DEF Amount
    <3>5. Pending(t, c)' = Amount(Tail(due[t]), c) + 0
      BY <1>1, <3>3, <3>4 DEF Pending
    <3>6. Pending(t, c) = n + Amount(Tail(due[t]), c)
      BY <1>0, <3>2 DEF Pending
    <3>7. Pending(t, c)' \in Nat /\ Future(t, c)' \in Nat /\ Owes(t, c)' \in Nat
      <4>2. (TypeOK => OwesTyped)'
        BY OwesNatural, PTL
      <4>3. OwesTyped'
        BY <4>2
      <4> QED
        BY <4>3 DEF OwesTyped
    <3>8. Amount(Tail(due[t]), c) \in Nat
      <4>1. Tail(due[t]) \in Seq(Counter \X Nat)
        BY <1>0
      <4> QED
        BY <4>1, AmountNatural
    <3> HIDE DEF n
    <3>9. Pending(t, c) = n + Pending(t, c)'
      BY <2>n, <3>5, <3>6, <3>8
    <3> QED
      BY <2>n, <3>1, <3>7, <3>9 DEF Owes
  <2>4. after = before - n
    <3> HIDE DEF before, after, n
    <3> QED
      BY <2>n, <2>2, <2>3
  <2>5. Had(c) \in Nat /\ Had(c)' = Had(c) /\ tally[c] \in Nat
    BY <1>0 DEF TypeOK, Had
  <2>6. tally'[c] + after <= Had(c)
    <3>1. CASE Head(due[t])[1] = c
      <4>1. Loaded(t, c)
        BY <1>0, <3>1 DEF Loaded
      <4>2. seen[t] + before <= Had(c)
        BY <4>1 DEF Solvent, Covered
      <4>3. tally'[c] = seen[t] + n
        BY <1>0, <3>1 DEF TypeOK
      <4> HIDE DEF before, after, n
      <4>4. seen[t] \in Nat
        BY <4>1 DEF Loaded, TypeOK
      <4> QED
        BY <2>n, <2>2, <2>4, <2>5, <4>2, <4>3, <4>4
    <3>2. CASE Head(due[t])[1] # c
      <4>1. tally'[c] = tally[c] /\ n = 0
        BY <1>0, <3>2 DEF TypeOK
      <4>2. tally[c] + before <= Had(c)
        BY DEF Solvent, Covered
      <4> HIDE DEF before, after, n
      <4> QED
        BY <2>2, <2>4, <2>5, <4>1, <4>2
    <3> QED
      BY <3>1, <3>2
  <2>7. ASSUME NEW u \in Thread, Loaded(u, c)' PROVE seen'[u] + after <= Had(c)
    <3>1. u # t
      BY <1>0, <2>7 DEF Loaded, TypeOK
    <3>2. due'[u] = due[u] /\ seen'[u] = seen[u]
      BY <1>0, <3>1 DEF TypeOK
    <3>3. Loaded(u, c)
      BY <2>7, <3>2 DEF Loaded
    <3>4. seen[u] + before <= Had(c)
      BY <3>3 DEF Solvent, Covered
    <3>5. seen[u] \in Nat
      BY <3>3 DEF Loaded, TypeOK
    <3> HIDE DEF before, after, n
    <3> QED
      BY <2>n, <2>2, <2>4, <2>5, <3>2, <3>4, <3>5
  <2> QED
    BY <2>2, <2>5, <2>6, <2>7 DEF Covered
<1> QED
  BY <1>2, <1>3 DEF Solvent

(* A call that ends owes nothing any more.                                 *)
LEMMA LeaveWithin ==
    ASSUME TypeOK, TypeOK', NEW t \in Thread, Leave(t),
           UNCHANGED <<tally, kind, calls, opened, finished>>
    PROVE  Within(t)
<1> USE DEF history
<1>1. /\ pc'[t] = "idle" /\ due'[t] = <<>> /\ seen'[t] = Unseen
      /\ \A u \in Thread \ {t} :
            UNCHANGED <<pc[u], kind[u], conts[u], due[u], seen[u]>>
  BY DEF Leave, Goto, TypeOK
<1>2. ASSUME NEW c \in Counter PROVE Owes(t, c)' - Owes(t, c) <= Had(c)' - Had(c)
  <2>1. Owes(t, c)' = 0
    BY <1>1 DEF Owes, Pending, Future, Past, Amount
  <2>2. Owes(t, c) \in Nat
    BY OwesNatural DEF OwesTyped
  <2>3. Had(c)' = Had(c) /\ Had(c) \in Nat
    BY DEF Had, TypeOK
  <2> QED
    BY <2>1, <2>2, <2>3
<1>3. Quiet(t)'
  BY <1>1 DEF Quiet
<1> QED
  BY <1>1, <1>2, <1>3 DEF Within

(* The end of a loop: what was to come is due now.                         *)
LEMMA WindWithin ==
    ASSUME TypeOK, Solvent, NEW t \in Thread, Wind(t), Past(t),
           pc[t] \in {"provider", "decide", "next"}, due[t] = <<>>,
           UNCHANGED <<tally, seen, kind, conts, finished, opened>>
    PROVE  Within(t)
<1>1. /\ pc'[t] = "return" /\ seen'[t] = Unseen
      /\ due'[t] = IF kind[t] = "dispatch"
                   THEN <<<<"continuations", conts[t]>>, <<"windows", 1>>>>
                   ELSE <<<<"windows", 1>>, <<"continuations", conts[t]>>>>
      /\ \A u \in Thread \ {t} :
            UNCHANGED <<pc[u], kind[u], conts[u], due[u], seen[u]>>
  BY DEF Wind, Goto, TypeOK, Solvent, Quiet
<1>2. conts[t] \in Nat /\ finished \in Nat /\ opened \in Nat
  BY DEF TypeOK
<1>3. ASSUME NEW c \in Counter PROVE Owes(t, c)' - Owes(t, c) <= Had(c)' - Had(c)
  <2>1. Pending(t, c) = 0
    BY DEF Pending, Amount
  <2>2. Future(t, c) = IF c = "windows" THEN 1 ELSE conts[t]
    BY DEF Future, Past
  <2>3. Future(t, c)' = 0
    BY <1>1 DEF Future, Past
  <2>4. Pending(t, c)' = IF c = "windows" THEN 1 ELSE conts[t]
    <3>1. CASE kind[t] = "dispatch"
      <4>1. /\ due'[t] # <<>> /\ Head(due'[t]) = <<"continuations", conts[t]>>
            /\ Tail(due'[t]) = <<<<"windows", 1>>>>
            /\ Tail(due'[t]) # <<>> /\ Head(Tail(due'[t])) = <<"windows", 1>>
        BY <1>1, <3>1
      <4>2. /\ Amount(due[t], c)' = IF c = "continuations" THEN conts[t] ELSE 0
            /\ Amount(Tail(due[t]), c)' = IF c = "windows" THEN 1 ELSE 0
        BY <4>1 DEF Amount
      <4> QED
        BY <1>2, <4>1, <4>2 DEF Pending, Counter
    <3>2. CASE kind[t] # "dispatch"
      <4>1. /\ due'[t] # <<>> /\ Head(due'[t]) = <<"windows", 1>>
            /\ Tail(due'[t]) = <<<<"continuations", conts[t]>>>>
            /\ Tail(due'[t]) # <<>> /\ Head(Tail(due'[t])) = <<"continuations", conts[t]>>
        BY <1>1, <3>2
      <4>2. /\ Amount(due[t], c)' = IF c = "windows" THEN 1 ELSE 0
            /\ Amount(Tail(due[t]), c)' = IF c = "continuations" THEN conts[t] ELSE 0
        BY <4>1 DEF Amount
      <4> QED
        BY <1>2, <4>1, <4>2 DEF Pending, Counter
    <3> QED
      BY <3>1, <3>2
  <2>5. Had(c)' = Had(c) /\ Had(c) \in Nat
    BY <1>2 DEF Had
  <2> QED
    BY <1>2, <2>1, <2>2, <2>3, <2>4, <2>5 DEF Owes
<1>4. Quiet(t)'
  <2>1. due'[t] # <<>> /\ Len(due'[t]) = 2
    BY <1>1
  <2> QED
    BY <1>1, <2>1 DEF Quiet
<1> QED
  BY <1>1, <1>3, <1>4 DEF Within

(* Any other step that makes nothing due, or one window.                   *)
Plain(t) ==
    /\ \A u \in Thread \ {t} :
          UNCHANGED <<pc[u], kind[u], conts[u], due[u], seen[u]>>
    /\ UNCHANGED <<tally, seen>>
    /\ due[t] = <<>>
    /\ \/ due'[t] = <<>>
       \/ due'[t] = <<<<"windows", 1>>>> /\ pc'[t] \in {"decide", "next"}
    /\ \A c \in Counter :
          Future(t, c)' + (IF due'[t] # <<>> /\ c = "windows" THEN 1 ELSE 0)
             - Future(t, c) <= Had(c)' - Had(c)

(* A step that makes nothing due, or one window, is of this kind. *)
LEMMA PlainWithin ==
    ASSUME TypeOK, TypeOK', Solvent, NEW t \in Thread, Plain(t)
    PROVE  Within(t)
<1> USE DEF Plain
<1>1. seen'[t] = Unseen
  BY DEF Solvent, Quiet
<1>2. ASSUME NEW c \in Counter PROVE Owes(t, c)' - Owes(t, c) <= Had(c)' - Had(c)
  <2>1. Pending(t, c) = 0
    BY DEF Pending, Amount
  <2>2. Pending(t, c)' = IF due'[t] # <<>> /\ c = "windows" THEN 1 ELSE 0
    <3>1. CASE due'[t] = <<>>
      BY <3>1 DEF Pending, Amount
    <3>2. CASE due'[t] = <<<<"windows", 1>>>>
      <4>1. due'[t] # <<>> /\ Head(due'[t]) = <<"windows", 1>> /\ Tail(due'[t]) = <<>>
        BY <3>2
      <4>2. Amount(due[t], c)' = IF c = "windows" THEN 1 ELSE 0
        BY <4>1 DEF Amount
      <4>3. Amount(Tail(due[t]), c)' = 0
        BY <4>1 DEF Amount
      <4> QED
        BY <4>1, <4>2, <4>3 DEF Pending
    <3> QED
      BY <3>1, <3>2
  <2>3. Future(t, c) \in Nat /\ Future(t, c)' \in Nat
    <3>1. Future(t, c) \in Nat
      BY OwesNatural DEF OwesTyped
    <3>2. (TypeOK => OwesTyped)'
      BY OwesNatural, PTL
    <3>3. OwesTyped'
      BY <3>2
    <3> QED
      BY <3>1, <3>3 DEF OwesTyped
  <2>4. Had(c) \in Nat /\ Had(c)' \in Nat
    BY DEF Had, TypeOK
  <2> QED
    BY <2>1, <2>2, <2>3, <2>4 DEF Owes
<1>3. Quiet(t)'
  <2>1. Len(<<>>) = 0 /\ Len(<<<<"windows", 1>>>>) = 1 /\ <<<<"windows", 1>>>> # <<>>
    OBVIOUS
  <2> QED
    BY <1>1, <2>1 DEF Quiet
<1> QED
  BY <1>1, <1>2, <1>3 DEF Within

(* No step makes a counter, with what is owed to it, exceed what was done. *)
LEMMA StepSolvent ==
    TypeOK /\ TypeOK' /\ Measured /\ Solvent /\ [Next]_vars => Solvent'
<1> SUFFICES ASSUME TypeOK, TypeOK', Measured, Solvent, [Next]_vars PROVE Solvent'
  OBVIOUS
<1> USE DEF windowVars, countVars, history
<1>num. finished \in Nat /\ opened \in Nat /\ \A t \in Thread : conts[t] \in Nat
  BY DEF TypeOK
<1>same. ASSUME UNCHANGED <<pc, kind, conts, due, opened, finished>>,
                \A c \in Counter : tally'[c] = tally[c] \/ tally'[c] = 0,
                \A t \in Thread : \/ seen'[t] = seen[t]
                                  \/ due[t] # <<>> /\ seen'[t] = tally[Head(due[t])[1]]
         PROVE  Solvent'
  <2>1. \A t \in Thread : Quiet(t)'
    BY <1>same DEF Solvent, Quiet
  <2>2. ASSUME NEW c \in Counter PROVE Covered(c)'
    <3>1. Debt(c)' = Debt(c)
      BY <1>same DEF Debt, Owes, Pending, Future, Past
    <3>2. Had(c)' = Had(c)
      BY <1>same DEF Had
    <3>3. /\ IsFiniteSet(Units(Debt(c))) /\ Cardinality(Units(Debt(c))) \in Nat
          /\ tally[c] + Cardinality(Units(Debt(c))) <= Had(c)
      BY FS_CardinalityType DEF Solvent, Covered
    <3>4. tally[c] \in Nat /\ Had(c) \in Nat
      BY DEF TypeOK, Had
    <3>5. tally'[c] + Cardinality(Units(Debt(c))) <= Had(c)
      <4> DEFINE owed == Cardinality(Units(Debt(c)))
      <4> HIDE DEF owed
      <4>1. owed \in Nat /\ tally[c] + owed <= Had(c)
        BY <3>3 DEF owed
      <4>2. tally'[c] + owed <= Had(c)
        BY <1>same, <3>4, <4>1
      <4> QED
        BY <4>2 DEF owed
    <3>6. ASSUME NEW t \in Thread, Loaded(t, c)'
          PROVE  seen'[t] + Cardinality(Units(Debt(c))) <= Had(c)
      <4>1. CASE seen'[t] = seen[t]
        BY <1>same, <3>6, <4>1 DEF Solvent, Covered, Loaded
      <4>2. CASE due[t] # <<>> /\ seen'[t] = tally[Head(due[t])[1]]
        BY <1>same, <3>3, <3>6, <4>2 DEF Loaded
      <4> QED
        BY <1>same, <4>1, <4>2
    <3>7. \A t \in Thread :
             Loaded(t, c)' => seen'[t] + Cardinality(Units(Debt(c))) <= Had(c)
      BY <3>6
    <3> QED
      BY <3>1, <3>2, <3>3, <3>5, <3>7 DEF Covered
  <2> QED
    BY <2>1, <2>2 DEF Solvent
<1>1. ASSUME NEW t \in Thread, Load(t) PROVE Solvent'
  BY <1>1, <1>same DEF Load, TypeOK
<1>2. ASSUME NEW t \in Thread, Store(t) PROVE Solvent'
  BY <1>2, StoreSolvent
<1>3. CASE Reset
  BY <1>3, <1>same DEF Reset, TypeOK
<1>4. CASE UNCHANGED vars
  BY <1>4, <1>same DEF vars
<1>5. ASSUME NEW t \in Thread,
             Refuse(t) \/ Fail(t) \/ ExtractFails(t) \/ Return(t) \/ Drop(t)
      PROVE  Within(t)
  BY <1>5, LeaveWithin DEF Refuse, Fail, ExtractFails, Return, Drop
<1>6. ASSUME NEW t \in Thread,
             \/ \E k \in Kind : Begin(t, k)
             \/ Acquire(t)
             \/ OpenPrimary(t)
      PROVE  Within(t)
  <2>1. pc[t] \in {"idle", "queued", "budget"} /\ due[t] = <<>> /\ conts[t] = 0
    BY <1>6 DEF Begin, Acquire, OpenPrimary, Solvent, Quiet, Measured, Fresh
  <2>2. /\ \A u \in Thread \ {t} : UNCHANGED <<pc[u], kind[u], conts[u], due[u], seen[u]>>
        /\ UNCHANGED <<tally, seen, due, conts, finished, opened>>
        /\ pc'[t] \in {"queued", "budget", "provider"}
    BY <1>6 DEF Begin, Acquire, OpenPrimary, Goto, Enter, TypeOK
  <2>3. ASSUME NEW c \in Counter
        PROVE  Future(t, c)' = 0 /\ Future(t, c) = 0 /\ Had(c)' = Had(c) /\ Had(c) \in Nat
    BY <1>num, <2>1, <2>2 DEF Future, Past, Had
  <2>4. \A c \in Counter :
           Future(t, c)' + (IF due'[t] # <<>> /\ c = "windows" THEN 1 ELSE 0)
              - Future(t, c) <= Had(c)' - Had(c)
    BY <2>1, <2>2, <2>3
  <2>5. UNCHANGED <<tally, seen>> /\ due'[t] = <<>>
    BY <2>1, <2>2
  <2>p. Plain(t)
    BY <2>1, <2>2, <2>4, <2>5 DEF Plain
  <2> QED
    BY <2>p, PlainWithin
<1>7. ASSUME NEW t \in Thread, Break(t) \/ Deadline(t) PROVE Within(t)
  <2>1. /\ Wind(t) /\ Past(t) /\ pc[t] \in {"provider", "decide", "next"} /\ due[t] = <<>>
        /\ UNCHANGED <<tally, seen, kind, conts, finished, opened>>
    BY <1>7 DEF Break, Deadline, Past, Solvent, Quiet
  <2> QED
    BY <2>1, WindWithin
<1>8. ASSUME NEW t \in Thread, Think(t) PROVE Within(t)
  <2>0. /\ pc[t] = "provider" /\ conts[t] > 0 /\ due[t] = <<>> /\ Past(t)
        /\ UNCHANGED <<tally, seen, kind, conts, opened>>
    BY <1>8 DEF Think, Past, Solvent, Quiet
  <2>1. CASE Wind(t) /\ UNCHANGED finished
    BY <2>0, <2>1, WindWithin
  <2>2. CASE /\ finished' = finished + 1
             /\ due' = [due EXCEPT ![t] = <<<<"windows", 1>>>>]
             /\ Goto(t, "next")
    <3>1. /\ \A u \in Thread \ {t} :
                UNCHANGED <<pc[u], kind[u], conts[u], due[u], seen[u]>>
          /\ due'[t] = <<<<"windows", 1>>>> /\ pc'[t] = "next"
      BY <2>0, <2>2 DEF Goto, TypeOK
    <3>2. \A c \in Counter :
             Future(t, c)' + (IF due'[t] # <<>> /\ c = "windows" THEN 1 ELSE 0)
                - Future(t, c) <= Had(c)' - Had(c)
      BY <1>num, <2>0, <2>2, <3>1 DEF Future, Past, Had
    <3>p. Plain(t)
      BY <2>0, <3>1, <3>2 DEF Plain
    <3> QED
      BY <3>p, PlainWithin
  <2> QED
    BY <1>8, <2>1, <2>2 DEF Think
<1>9. ASSUME NEW t \in Thread, Answer(t) PROVE Within(t)
  <2>1. /\ \A u \in Thread \ {t} :
              UNCHANGED <<pc[u], kind[u], conts[u], due[u], seen[u]>>
        /\ UNCHANGED <<tally, seen, due, kind, conts, opened>>
        /\ due[t] = <<>> /\ pc[t] = "provider" /\ pc'[t] = "extract"
        /\ finished' = finished + 1
    BY <1>9 DEF Answer, Goto, Enter, TypeOK, Solvent, Quiet
  <2>2. \A c \in Counter :
           Future(t, c)' + (IF due'[t] # <<>> /\ c = "windows" THEN 1 ELSE 0)
              - Future(t, c) <= Had(c)' - Had(c)
    BY <1>num, <2>1 DEF Future, Past, Had
  <2>p. Plain(t)
    BY <2>1, <2>2 DEF Plain
  <2> QED
    BY <2>p, PlainWithin
<1>10. ASSUME NEW t \in Thread, Extract(t) PROVE Within(t)
  <2>1. /\ \A u \in Thread \ {t} :
              UNCHANGED <<pc[u], kind[u], conts[u], due[u], seen[u]>>
        /\ UNCHANGED <<tally, seen, kind, conts, opened, finished>>
        /\ due[t] = <<>> /\ pc[t] = "extract" /\ pc'[t] = "decide"
        /\ due'[t] = IF kind[t] = "dispatch" /\ conts[t] > 0
                     THEN <<<<"windows", 1>>>> ELSE <<>>
    BY <1>10 DEF Extract, Goto, Enter, TypeOK, Solvent, Quiet
  <2>2. \A c \in Counter :
           Future(t, c)' + (IF due'[t] # <<>> /\ c = "windows" THEN 1 ELSE 0)
              - Future(t, c) <= Had(c)' - Had(c)
    BY <1>num, <2>1 DEF Future, Past, Had
  <2>p. Plain(t)
    BY <2>1, <2>2 DEF Plain
  <2> QED
    BY <2>p, PlainWithin
<1>11. ASSUME NEW t \in Thread, Decide(t) PROVE Within(t)
  <2>0. /\ pc[t] = "decide" /\ due[t] = <<>> /\ Past(t)
        /\ UNCHANGED <<tally, seen, kind, conts, opened, finished>>
    BY <1>11 DEF Decide, Past
  <2>1. CASE Wind(t)
    BY <2>0, <2>1, WindWithin
  <2>2. CASE Goto(t, "next") /\ UNCHANGED due
    <3>1. /\ \A u \in Thread \ {t} :
                UNCHANGED <<pc[u], kind[u], conts[u], due[u], seen[u]>>
          /\ due'[t] = <<>> /\ pc'[t] = "next"
      BY <2>0, <2>2 DEF Goto, TypeOK
    <3>2. \A c \in Counter :
             Future(t, c)' + (IF due'[t] # <<>> /\ c = "windows" THEN 1 ELSE 0)
                - Future(t, c) <= Had(c)' - Had(c)
      BY <1>num, <2>0, <3>1 DEF Future, Past, Had
    <3>p. Plain(t)
      BY <2>0, <3>1, <3>2 DEF Plain
    <3> QED
      BY <3>p, PlainWithin
  <2> QED
    BY <1>11, <2>1, <2>2 DEF Decide
<1>12. ASSUME NEW t \in Thread, Continue(t) PROVE Within(t)
  <2>0. /\ pc[t] = "next" /\ due[t] = <<>> /\ Past(t)
        /\ UNCHANGED <<tally, seen, kind, finished>>
    BY <1>12 DEF Continue, Past
  <2>1. CASE AtLimit(t)
    BY <1>12, <2>0, <2>1, WindWithin DEF Continue
  <2>2. CASE ~AtLimit(t)
    <3>1. /\ \A u \in Thread \ {t} :
                UNCHANGED <<pc[u], kind[u], conts[u], due[u], seen[u]>>
          /\ due'[t] = <<>> /\ pc'[t] = "provider"
          /\ conts'[t] = conts[t] + 1 /\ opened' = opened + 1
      BY <1>12, <2>0, <2>2 DEF Continue, Goto, Enter, TypeOK
    <3>2. \A c \in Counter :
             Future(t, c)' + (IF due'[t] # <<>> /\ c = "windows" THEN 1 ELSE 0)
                - Future(t, c) <= Had(c)' - Had(c)
      BY <1>num, <2>0, <3>1 DEF Future, Past, Had
    <3>3. UNCHANGED <<tally, seen>>
      BY <2>0
    <3>p. Plain(t)
      BY <2>0, <3>1, <3>2, <3>3 DEF Plain
    <3> QED
      BY <3>p, PlainWithin
  <2> QED
    BY <2>1, <2>2
<1>13. \A t \in Thread : Within(t) => Solvent'
  BY WithinSolvent
<1> QED
  BY <1>1, <1>2, <1>3, <1>4, <1>5, <1>6, <1>7, <1>8, <1>9, <1>10, <1>11, <1>12,
     <1>13 DEF Next, Step

(* Nobody owes anything at first. *)
LEMMA InitSolvent == Init => Solvent
<1> SUFFICES ASSUME Init PROVE Solvent
  OBVIOUS
<1>1. ASSUME NEW t \in Thread PROVE Quiet(t)
  <2>1. Len(<<>>) = 0
    OBVIOUS
  <2> QED
    BY <2>1 DEF Init, Quiet
<1>2. ASSUME NEW c \in Counter PROVE Covered(c)
  <2>1. ASSUME NEW t \in Thread PROVE Debt(c)[t] = 0
    <3>1. pc[t] = "idle" /\ due[t] = <<>>
      BY DEF Init
    <3>2. Pending(t, c) = 0 /\ Future(t, c) = 0
      BY <3>1 DEF Pending, Future, Past, Amount
    <3> QED
      BY <3>2 DEF Owes, Debt
  <2>2. Units(Debt(c)) = {}
    <3> HIDE DEF Debt
    <3> QED
      BY <2>1 DEF Units
  <2>3. IsFiniteSet(Units(Debt(c))) /\ Cardinality(Units(Debt(c))) = 0
    BY <2>2, FS_EmptySet
  <2>4. tally[c] = 0 /\ Had(c) = 0 /\ \A t \in Thread : ~Loaded(t, c)
    BY DEF Init, Had, Loaded
  <2> QED
    BY <2>3, <2>4 DEF Covered
<1> QED
  BY <1>1, <1>2 DEF Solvent

(* What is owed is counted at all times. *)
LEMMA AlwaysSolvent == Spec => []Solvent
BY Invariance, InitSolvent, StepSolvent, PTL DEF Spec

(* The other direction: a call that is about to return, and whose windows  *)
(* are not due any more, has them in the counter.                          *)
HasWindows(q) == \E i \in 1..Len(q) : q[i][1] = "windows"

Credited == {t \in Thread : pc[t] = "return" /\ ~HasWindows(due[t])}

(* Windows are added one at a time. *)
OneByOne(q) == \A i \in 1..Len(q) : q[i][1] = "windows" => q[i][2] = 1

NoneMissed ==
    /\ \A t \in Thread : OneByOne(due[t])
    /\ IsFiniteSet(Credited)
    /\ mishaps = {} => returned + Cardinality(Credited) <= tally["windows"]

(* What a call makes due. *)
LEMMA DueLists ==
    ASSUME NEW n \in Nat
    PROVE  /\ OneByOne(<<>>) /\ ~HasWindows(<<>>)
           /\ OneByOne(<<<<"windows", 1>>>>)
           /\ OneByOne(<<<<"continuations", n>>, <<"windows", 1>>>>)
           /\ OneByOne(<<<<"windows", 1>>, <<"continuations", n>>>>)
           /\ HasWindows(<<<<"continuations", n>>, <<"windows", 1>>>>)
           /\ HasWindows(<<<<"windows", 1>>, <<"continuations", n>>>>)
<1>1. OneByOne(<<>>) /\ ~HasWindows(<<>>) /\ OneByOne(<<<<"windows", 1>>>>)
  BY DEF OneByOne, HasWindows
<1> DEFINE a == <<<<"continuations", n>>, <<"windows", 1>>>>
           b == <<<<"windows", 1>>, <<"continuations", n>>>>
<1>2. /\ Len(a) = 2 /\ a[1] = <<"continuations", n>> /\ a[2] = <<"windows", 1>>
      /\ Len(b) = 2 /\ b[1] = <<"windows", 1>> /\ b[2] = <<"continuations", n>>
  OBVIOUS
<1>3. 1 \in 1..2 /\ 2 \in 1..2 /\ \A i \in 1..2 : i = 1 \/ i = 2
  OBVIOUS
<1> HIDE DEF a, b
<1>4. OneByOne(a) /\ OneByOne(b)
  BY <1>2, <1>3 DEF OneByOne
<1>5. HasWindows(a) /\ HasWindows(b)
  BY <1>2, <1>3 DEF HasWindows
<1> QED
  BY <1>1, <1>4, <1>5 DEF a, b

(* A step of a call that is not about to return and still is not, or has   *)
(* its windows due now.                                                    *)
Underway(t) ==
    /\ \A u \in Thread \ {t} : UNCHANGED <<pc[u], due[u]>>
    /\ pc[t] # "return"
    /\ OneByOne(due[t])'
    /\ pc'[t] # "return" \/ HasWindows(due[t])'
    /\ UNCHANGED <<tally, returned, mishaps>>

(* Such a step misses nothing. *)
LEMMA UnderwayMisses ==
    ASSUME NoneMissed, NEW t \in Thread, Underway(t)
    PROVE  NoneMissed'
<1>1. \A u \in Thread : OneByOne(due[u])'
  BY DEF NoneMissed, Underway
<1>2. Credited' = Credited
  BY DEF Credited, Underway
<1> QED
  BY <1>1, <1>2 DEF NoneMissed, Underway

(* Nor does the end of a call that does not return, *)
LEMMA LeaveUnderway ==
    ASSUME TypeOK, NEW t \in Thread, Leave(t), pc[t] # "return",
           UNCHANGED <<tally, returned, mishaps>>
    PROVE  Underway(t)
<1>1. /\ pc'[t] = "idle" /\ due'[t] = <<>>
      /\ \A u \in Thread \ {t} : UNCHANGED <<pc[u], due[u]>>
  BY DEF Leave, Goto, TypeOK
<1>2. OneByOne(<<>>)
  BY DEF OneByOne
<1> QED
  BY <1>1, <1>2 DEF Underway

(* nor the end of a loop. *)
LEMMA WindUnderway ==
    ASSUME TypeOK, NEW t \in Thread, Wind(t), pc[t] # "return",
           UNCHANGED <<tally, returned, mishaps>>
    PROVE  Underway(t)
<1>1. /\ due'[t] = IF kind[t] = "dispatch"
                   THEN <<<<"continuations", conts[t]>>, <<"windows", 1>>>>
                   ELSE <<<<"windows", 1>>, <<"continuations", conts[t]>>>>
      /\ \A u \in Thread \ {t} : UNCHANGED <<pc[u], due[u]>>
  BY DEF Wind, Goto, TypeOK
<1>2. conts[t] \in Nat
  BY DEF TypeOK
<1>3. OneByOne(due'[t]) /\ HasWindows(due'[t])
  BY <1>1, <1>2, DueLists
<1> QED
  BY <1>1, <1>3 DEF Underway

(* A store adds what the call is credited with, unless it is a race.       *)
LEMMA StoreMisses ==
    ASSUME TypeOK, TypeOK', NoneMissed, NEW t \in Thread, Store(t)
    PROVE  NoneMissed'
<1> DEFINE q == due[t]
           c == Head(q)[1]
           n == Head(q)[2]
<1>1. /\ q \in Seq(Counter \X Nat) /\ q # <<>>
      /\ due' = [due EXCEPT ![t] = Tail(q)] /\ pc' = pc /\ returned' = returned
      /\ tally' = [tally EXCEPT ![c] = seen[t] + n]
      /\ mishaps' = IF tally[c] = seen[t] THEN mishaps ELSE mishaps \cup {"raced"}
  BY DEF Store, TypeOK
<1>2. /\ Len(q) \in Nat /\ Len(q) >= 1 /\ Head(q) = q[1]
      /\ Len(Tail(q)) = Len(q) - 1 /\ \A i \in 1..Len(Tail(q)) : Tail(q)[i] = q[i + 1]
  <2>1. q \in Seq(Counter \X Nat) /\ q # <<>>
    BY <1>1
  <2> HIDE DEF q
  <2> QED
    BY <2>1
<1>3. c \in Counter /\ n \in Nat
  <2>1. Head(q) \in Counter \X Nat
    <3>1. q \in Seq(Counter \X Nat) /\ q # <<>>
      BY <1>1
    <3> HIDE DEF q
    <3> QED
      BY <3>1
  <2> QED
    BY <2>1
<1>4. /\ \A u \in Thread \ {t} : due'[u] = due[u]
      /\ due'[t] = Tail(q)
  BY <1>1 DEF TypeOK
<1>5. OneByOne(q)
  BY DEF NoneMissed
<1> HIDE DEF q
<1>6. \A i \in 1..Len(Tail(q)) : i + 1 \in 1..Len(q)
  BY <1>2
<1>7. OneByOne(Tail(q))
  BY <1>2, <1>5, <1>6 DEF OneByOne
<1>8. ASSUME c # "windows" PROVE HasWindows(Tail(q)) <=> HasWindows(q)
  <2>1. HasWindows(Tail(q)) => HasWindows(q)
    BY <1>2, <1>6 DEF HasWindows
  <2>2. ASSUME HasWindows(q) PROVE HasWindows(Tail(q))
    <3>1. PICK i \in 1..Len(q) : q[i][1] = "windows"
      BY <2>2 DEF HasWindows
    <3>2. i # 1
      BY <1>2, <1>8, <3>1
    <3>3. i - 1 \in 1..Len(Tail(q)) /\ Tail(q)[i - 1] = q[i]
      <4>1. i - 1 \in 1..Len(Tail(q)) /\ (i - 1) + 1 = i
        BY <1>2, <3>2
      <4> QED
        BY <1>2, <4>1
    <3> QED
      BY <3>1, <3>3 DEF HasWindows
  <2> QED
    BY <2>1, <2>2
<1>9. c = "windows" => n = 1
  <2>1. 1 \in 1..Len(q)
    BY <1>2
  <2> QED
    BY <1>2, <1>5, <2>1 DEF OneByOne
<1>10. \A u \in Thread : OneByOne(due[u])'
  <2>1. \A u \in Thread : OneByOne(due'[u])
    BY <1>4, <1>7 DEF NoneMissed
  <2> QED
    BY <2>1
<1>11. IsFiniteSet(Credited) /\ Cardinality(Credited) \in Nat
  BY FS_CardinalityType DEF NoneMissed
<1>12. /\ tally["windows"] \in Nat /\ tally[c] \in Nat /\ returned \in Nat
       /\ "windows" \in Counter
  BY <1>3 DEF TypeOK, Counter
<1>13. mishaps' = {} => mishaps = {} /\ tally[c] = seen[t]
  BY <1>1
<1>14. mishaps' = {} => tally'[c] = tally[c] + n
  BY <1>1, <1>3, <1>13 DEF TypeOK
<1>15. CASE c # "windows"
  <2>1. Credited' = Credited
    <3>1. \A u \in Thread : HasWindows(due'[u]) <=> HasWindows(due[u])
      BY <1>4, <1>8, <1>15 DEF q
    <3> QED
      BY <1>1, <3>1 DEF Credited
  <2>2. tally'["windows"] = tally["windows"]
    BY <1>1, <1>15 DEF TypeOK
  <2> QED
    BY <1>1, <1>10, <1>11, <1>13, <2>1, <2>2 DEF NoneMissed
<1>16. CASE c = "windows"
  <2>1. Credited' \subseteq Credited \cup {t}
    BY <1>1, <1>4 DEF Credited
  <2>2. /\ IsFiniteSet(Credited \cup {t})
        /\ Cardinality(Credited \cup {t}) <= Cardinality(Credited) + 1
    <3>1. /\ IsFiniteSet(Credited \cup {t})
          /\ Cardinality(Credited \cup {t}) =
                IF t \in Credited THEN Cardinality(Credited) ELSE Cardinality(Credited) + 1
      BY <1>11, FS_AddElement
    <3> QED
      BY <1>11, <3>1
  <2>3. /\ IsFiniteSet(Credited') /\ Cardinality(Credited') <= Cardinality(Credited \cup {t})
        /\ Cardinality(Credited') \in Nat /\ Cardinality(Credited \cup {t}) \in Nat
    BY <2>1, <2>2, FS_Subset, FS_CardinalityType
  <2>4. ASSUME mishaps' = {}
        PROVE  returned + Cardinality(Credited') <= tally'["windows"]
    <3>1. returned + Cardinality(Credited) <= tally["windows"]
      BY <1>13, <2>4 DEF NoneMissed
    <3>2. tally'["windows"] = tally["windows"] + 1
      BY <1>9, <1>14, <1>16, <2>4
    <3>3. Cardinality(Credited') <= Cardinality(Credited) + 1
      BY <1>11, <2>2, <2>3
    <3> QED
      BY <1>11, <1>12, <2>3, <3>1, <3>2, <3>3
  <2> QED
    BY <1>1, <1>10, <2>3, <2>4 DEF NoneMissed
<1> QED
  BY <1>15, <1>16

(* A call that returns was credited. *)
LEMMA ReturnMisses ==
    ASSUME TypeOK, NoneMissed, NEW t \in Thread, Return(t)
    PROVE  NoneMissed'
<1>1. /\ pc'[t] = "idle" /\ due'[t] = <<>> /\ pc[t] = "return" /\ due[t] = <<>>
      /\ \A u \in Thread \ {t} : UNCHANGED <<pc[u], due[u]>>
      /\ UNCHANGED <<tally, mishaps>> /\ returned' = returned + 1
  BY DEF Return, Leave, Goto, TypeOK
<1>2. OneByOne(<<>>) /\ ~HasWindows(<<>>)
  BY DueLists
<1>3. \A u \in Thread : OneByOne(due[u])'
  BY <1>1, <1>2 DEF NoneMissed
<1>4. Credited' = Credited \ {t} /\ t \in Credited
  BY <1>1, <1>2 DEF Credited
<1>5. /\ IsFiniteSet(Credited \ {t})
      /\ Cardinality(Credited \ {t}) = Cardinality(Credited) - 1
      /\ Cardinality(Credited) \in Nat
  BY <1>4, FS_RemoveElement, FS_CardinalityType DEF NoneMissed
<1>6. returned \in Nat /\ tally["windows"] \in Nat
  BY DEF TypeOK, Counter
<1>7. ASSUME mishaps' = {} PROVE returned' + Cardinality(Credited') <= tally'["windows"]
  <2>1. returned + Cardinality(Credited) <= tally["windows"]
    BY <1>1, <1>7 DEF NoneMissed
  <2>2. Cardinality(Credited') = Cardinality(Credited) - 1
    BY <1>4, <1>5
  <2> QED
    BY <1>1, <1>5, <1>6, <2>1, <2>2
<1> QED
  BY <1>3, <1>4, <1>5, <1>7 DEF NoneMissed

(* No step misses a call that returns. *)
LEMMA StepMisses ==
    ASSUME TypeOK, TypeOK', NoneMissed, [Next]_vars
    PROVE  NoneMissed'
<1> USE DEF windowVars, countVars, history
<1>none. OneByOne(<<>>) /\ OneByOne(<<<<"windows", 1>>>>)
  BY DEF OneByOne
<1>1. ASSUME UNCHANGED <<pc, due>>,
             UNCHANGED <<tally, returned, mishaps>> \/ mishaps' # {}
      PROVE  NoneMissed'
  BY <1>1 DEF NoneMissed, Credited
<1>2. ASSUME NEW t \in Thread, Load(t) PROVE NoneMissed'
  BY <1>1, <1>2 DEF Load
<1>3. CASE Reset
  BY <1>1, <1>3 DEF Reset
<1>4. CASE UNCHANGED vars
  BY <1>1, <1>4 DEF vars
<1>5. ASSUME NEW t \in Thread, Refuse(t) \/ Fail(t) \/ ExtractFails(t) \/ Drop(t)
      PROVE  Underway(t)
  <2>1. Leave(t) /\ pc[t] # "return" /\ UNCHANGED <<tally, returned, mishaps>>
    BY <1>5 DEF Refuse, Fail, ExtractFails, Drop
  <2> QED
    BY <2>1, LeaveUnderway
<1>6. ASSUME NEW t \in Thread,
             \/ \E k \in Kind : Begin(t, k)
             \/ Acquire(t) \/ OpenPrimary(t) \/ Answer(t)
      PROVE  Underway(t)
  <2>1. /\ pc[t] # "return" /\ pc'[t] # "return" /\ UNCHANGED <<due, tally, returned, mishaps>>
        /\ \A u \in Thread \ {t} : UNCHANGED pc[u]
    BY <1>6 DEF Begin, Acquire, OpenPrimary, Answer, Goto, TypeOK
  <2>2. OneByOne(due[t])'
    BY <2>1 DEF NoneMissed
  <2> QED
    BY <2>1, <2>2 DEF Underway
<1>7. ASSUME NEW t \in Thread, Extract(t) PROVE Underway(t)
  <2>1. /\ pc[t] # "return" /\ pc'[t] # "return" /\ UNCHANGED <<tally, returned, mishaps>>
        /\ \A u \in Thread \ {t} : UNCHANGED <<pc[u], due[u]>>
        /\ due'[t] = <<>> \/ due'[t] = <<<<"windows", 1>>>>
    BY <1>7 DEF Extract, Goto, TypeOK
  <2>2. OneByOne(due'[t])
    BY <1>none, <2>1
  <2> QED
    BY <2>1, <2>2 DEF Underway
<1>8. ASSUME NEW t \in Thread, Break(t) \/ Deadline(t) PROVE Underway(t)
  <2>1. Wind(t) /\ pc[t] # "return" /\ UNCHANGED <<tally, returned, mishaps>>
    BY <1>8 DEF Break, Deadline
  <2> QED
    BY <2>1, WindUnderway
<1>9. ASSUME NEW t \in Thread, Think(t) PROVE Underway(t)
  <2>1. pc[t] # "return" /\ UNCHANGED <<tally, returned, mishaps>>
    BY <1>9 DEF Think
  <2>2. CASE Wind(t)
    BY <2>1, <2>2, WindUnderway
  <2>3. CASE due' = [due EXCEPT ![t] = <<<<"windows", 1>>>>] /\ Goto(t, "next")
    <3>1. /\ pc'[t] = "next" /\ due'[t] = <<<<"windows", 1>>>>
          /\ \A u \in Thread \ {t} : UNCHANGED <<pc[u], due[u]>>
      BY <2>3 DEF Goto, TypeOK
    <3>2. OneByOne(due'[t])
      BY <1>none, <3>1
    <3> QED
      BY <2>1, <3>1, <3>2 DEF Underway
  <2> QED
    BY <1>9, <2>2, <2>3 DEF Think
<1>10. ASSUME NEW t \in Thread, Decide(t) \/ Continue(t) PROVE Underway(t)
  <2>1. pc[t] # "return" /\ UNCHANGED <<tally, returned, mishaps>>
    BY <1>10 DEF Decide, Continue
  <2>2. CASE Wind(t)
    BY <2>1, <2>2, WindUnderway
  <2>3. CASE (Goto(t, "next") \/ Goto(t, "provider")) /\ UNCHANGED due
    <3>1. /\ pc'[t] # "return" /\ UNCHANGED due
          /\ \A u \in Thread \ {t} : UNCHANGED pc[u]
      BY <2>3 DEF Goto, TypeOK
    <3>2. OneByOne(due[t])'
      BY <3>1 DEF NoneMissed
    <3> QED
      BY <2>1, <3>1, <3>2 DEF Underway
  <2> QED
    BY <1>10, <2>2, <2>3 DEF Decide, Continue
<1>11. \A t \in Thread : Underway(t) => NoneMissed'
  BY UnderwayMisses
<1> QED
  BY <1>2, <1>3, <1>4, <1>5, <1>6, <1>7, <1>8, <1>9, <1>10, <1>11, StoreMisses,
     ReturnMisses DEF Next, Step

(* A new session has nothing to miss. *)
LEMMA InitMisses == Init => NoneMissed
<1> SUFFICES ASSUME Init PROVE NoneMissed
  OBVIOUS
<1>1. Credited = {}
  BY DEF Init, Credited
<1>2. IsFiniteSet(Credited) /\ Cardinality(Credited) = 0
  BY <1>1, FS_EmptySet
<1>3. OneByOne(<<>>)
  BY DEF OneByOne
<1>4. tally["windows"] = 0
  BY DEF Init, Counter
<1> QED
  BY <1>2, <1>3, <1>4 DEF Init, NoneMissed

(* Whatever returned was counted, if nothing went wrong. *)
LEMMA NeverMissed == Spec => []NoneMissed
<1>1. TypeOK /\ TypeOK' /\ NoneMissed /\ [Next]_vars => NoneMissed'
  BY StepMisses
<1> QED
  BY <1>1, InitMisses, Invariance, PTL DEF Spec

(* The session's counters never claim a window or a continuation that was  *)
(* not there, and miss no call that returned unless an addition was lost   *)
(* to a race or to a reset, for any threads that add to them without a     *)
(* lock and any resets beside them.                                        *)
THEOREM CountersAreHonest == Spec => []CountersTrack
<1>1. TypeOK /\ Solvent =>
         tally["windows"] <= finished /\ tally["continuations"] <= opened
  <2> SUFFICES ASSUME TypeOK, Solvent, NEW c \in Counter PROVE tally[c] <= Had(c)
    BY DEF Had, Counter
  <2>1. /\ Cardinality(Units(Debt(c))) \in Nat
        /\ tally[c] + Cardinality(Units(Debt(c))) <= Had(c)
    BY FS_CardinalityType DEF Solvent, Covered
  <2>2. tally[c] \in Nat /\ Had(c) \in Nat
    BY DEF TypeOK, Had
  <2> QED
    BY <2>1, <2>2
<1>2. TypeOK /\ NoneMissed => (mishaps = {} => returned <= tally["windows"])
  <2> SUFFICES ASSUME TypeOK, NoneMissed, mishaps = {} PROVE returned <= tally["windows"]
    OBVIOUS
  <2>1. Cardinality(Credited) \in Nat
    BY FS_CardinalityType DEF NoneMissed
  <2>2. returned + Cardinality(Credited) <= tally["windows"]
    BY DEF NoneMissed
  <2>3. returned \in Nat /\ tally["windows"] \in Nat
    BY DEF TypeOK, Counter
  <2> QED
    BY <2>1, <2>2, <2>3
<1>3. TypeOK /\ Solvent /\ NoneMissed => CountersTrack
  BY <1>1, <1>2 DEF CountersTrack
<1> QED
  BY <1>3, AlwaysSolvent, NeverMissed, Invariance, PTL

-----------------------------------------------------------------------------
(* What the model checker's EveryCallEnds rests on, for any number of      *)
(* calls and any max_continuations: a call has only so many steps before   *)
(* it, and what it waits for does not wait itself.                         *)

Position(l) == CASE l = "idle" -> 0       [] l = "return" -> 1
                 [] l = "next" -> 6       [] l = "decide" -> 7
                 [] l = "extract" -> 10   [] l = "provider" -> 11
                 [] l = "budget" -> 12    [] OTHER -> 13

Additions(t) == 2 * Len(due[t]) - (IF seen[t] = Unseen THEN 0 ELSE 1)

(* The continuations a call may yet open, where it is in the window, and   *)
(* the loads and stores of the additions that are due.                     *)
Ahead(t) == 20 * (3 * MaxContinuations - conts[t]) + Position(pc[t]) + Additions(t)

CallsWindDown ==
    [][\A t \in Thread : pc[t] # "idle" =>
          \/ pc'[t] = "idle"
          \/ Ahead(t)' < Ahead(t)
          \/ Ahead(t)' = Ahead(t) /\ ~(Step(t) \/ Deadline(t) \/ Drop(t))]_vars

Windable == \A t \in Thread : Ahead(t) \in Nat

(* How many additions are due is a natural number, and a thread that has   *)
(* loaded a value has one to store.                                        *)
LEMMA AheadNatural == TypeOK /\ Measured /\ Solvent => Windable
<1> SUFFICES ASSUME TypeOK, Measured, Solvent, NEW t \in Thread PROVE Ahead(t) \in Nat
  BY DEF Windable
<1>1. /\ Len(due[t]) \in Nat /\ conts[t] \in Nat /\ MaxContinuations \in Nat
      /\ due[t] # <<>> => Len(due[t]) > 0
  <2>1. due[t] \in Seq(Counter \X Nat)
    BY DEF TypeOK
  <2> QED
    BY <2>1 DEF TypeOK
<1>2. Additions(t) \in Nat
  BY <1>1 DEF Additions, Solvent, Quiet
<1>3. Position(pc[t]) \in Nat
  BY DEF Position
<1>4. 3 * MaxContinuations - conts[t] \in Nat
  <2>1. /\ kind[t] \in {"dispatch", "stream"} /\ Bounded(t)
    BY DEF TypeOK, Kind, Measured
  <2> QED
    BY <1>1, <2>1 DEF Bounded
<1> DEFINE a == Additions(t)
           p == Position(pc[t])
           l == 3 * MaxContinuations - conts[t]
<1> HIDE DEF a, p, l
<1>5. 20 * l + p + a \in Nat
  BY <1>2, <1>3, <1>4 DEF a, p, l
<1> QED
  BY <1>5 DEF a, p, l, Ahead

(* A step of a call brings it nearer to its end. *)
LEMMA StepWindsDown ==
    ASSUME TypeOK, Solvent, NEW t \in Thread, Step(t) \/ Deadline(t) \/ Drop(t)
    PROVE  pc'[t] = "idle" \/ Ahead(t)' < Ahead(t)
<1> USE DEF Goto
<1>0. /\ pc \in [Thread -> PC] /\ conts \in [Thread -> Nat]
      /\ due \in [Thread -> Seq(Counter \X Nat)] /\ MaxContinuations \in Nat
      /\ seen \in [Thread -> Nat \cup {Unseen}] /\ Quiet(t) /\ Unseen \notin Nat
  BY DEF TypeOK, Solvent, Unseen
<1>1. \A x, y : Len(<<x, y>>) = 2 /\ Len(<<x>>) = 1 /\ Len(<<>>) = 0
  OBVIOUS
<1>lower. ASSUME Additions(t) = 0, Additions(t)' \in Nat,
                 \/ /\ conts'[t] = conts[t]
                    /\ Position(pc'[t]) + Additions(t)' < Position(pc[t])
                 \/ /\ conts'[t] = conts[t] + 1
                    /\ Position(pc'[t]) + Additions(t)' < Position(pc[t]) + 20
          PROVE  Ahead(t)' < Ahead(t)
  <2>1. /\ Position(pc[t]) \in Nat /\ Position(pc'[t]) \in Nat
        /\ conts[t] \in Nat
    BY <1>0 DEF Position
  <2> DEFINE a == Additions(t)'
             p == Position(pc[t])
             q == Position(pc'[t])
             c == conts[t]
             m == 20 * (3 * MaxContinuations - c)
  <2>2. /\ a \in Nat /\ p \in Nat /\ q \in Nat /\ m \in Int
        /\ Ahead(t) = m + p
    BY <1>0, <1>lower, <2>1 DEF Ahead
  <2>3. CASE conts'[t] = c /\ q + a < p
    <3>1. Ahead(t)' = m + q + a
      BY <2>3 DEF Ahead
    <3> HIDE DEF a, p, q, c, m
    <3> QED
      BY <2>2, <2>3, <3>1
  <2>4. CASE conts'[t] = c + 1 /\ q + a < p + 20
    <3>1. Ahead(t)' = 20 * (3 * MaxContinuations - (c + 1)) + q + a
      BY <2>4 DEF Ahead
    <3>2. 20 * (3 * MaxContinuations - (c + 1)) = m - 20
      BY <1>0, <2>1
    <3> HIDE DEF a, p, q, c, m
    <3> QED
      BY <2>2, <2>4, <3>1, <3>2
  <2> QED
    BY <1>lower, <2>3, <2>4
<1>least. ASSUME Additions(t) \in Int, Additions(t)' \in Int,
                  Additions(t)' < Additions(t), UNCHANGED <<pc, conts>>
           PROVE  Ahead(t)' < Ahead(t)
  <2>1. Position(pc[t]) \in Nat /\ conts[t] \in Nat
    BY <1>0 DEF Position
  <2> QED
    BY <1>0, <1>least, <2>1 DEF Ahead
<1>none. due[t] = <<>> /\ seen[t] = Unseen => Additions(t) = 0
  BY <1>1 DEF Additions
<1>some. seen'[t] = Unseen => Additions(t)' = 2 * Len(due'[t])
  BY DEF Additions
<1>empty. seen'[t] = Unseen /\ due'[t] = <<>> => Additions(t)' = 0
  BY <1>1, <1>some
<1>one. seen'[t] = Unseen /\ due'[t] = <<<<"windows", 1>>>> => Additions(t)' = 2
  BY <1>1, <1>some
<1>two. seen'[t] = Unseen /\ Len(due'[t]) = 2 => Additions(t)' = 4
  BY <1>some
<1>where. /\ Position("return") = 1 /\ Position("next") = 6
          /\ Position("decide") = 7 /\ Position("extract") = 10
          /\ Position("provider") = 11 /\ Position("budget") = 12
          /\ Position("queued") = 13
  BY DEF Position
<1>2. ASSUME Leave(t) PROVE pc'[t] = "idle"
  BY <1>0, <1>2 DEF Leave
<1>3. ASSUME Wind(t) PROVE pc'[t] = "return" /\ Len(due'[t]) = 2
  BY <1>0, <1>1, <1>3 DEF Wind
<1>4. CASE Load(t)
  <2>1. /\ UNCHANGED <<pc, conts, due>> /\ seen[t] = Unseen
        /\ due[t] \in Seq(Counter \X Nat) /\ due[t] # <<>>
        /\ seen' = [seen EXCEPT ![t] = tally[Head(due[t])[1]]]
    BY <1>0, <1>4 DEF Load, windowVars
  <2>2. Head(due[t])[1] \in Counter
    BY <2>1
  <2>3. seen'[t] \in Nat
    BY <1>0, <2>1, <2>2 DEF TypeOK
  <2>4. Len(due[t]) \in Nat
    BY <2>1
  <2> QED
    <3>0. seen'[t] # Unseen /\ due'[t] = due[t]
      BY <1>0, <2>1, <2>3
    <3>1. Additions(t) = 2 * Len(due[t]) /\ Additions(t)' = 2 * Len(due[t]) - 1
      BY <2>1, <2>4, <3>0 DEF Additions
    <3> QED
      BY <1>0, <1>least, <2>1, <2>4, <3>1
<1>5. CASE Store(t)
  <2>1. /\ UNCHANGED <<pc, conts>> /\ seen[t] # Unseen /\ seen'[t] = Unseen
        /\ due[t] \in Seq(Counter \X Nat) /\ due[t] # <<>>
        /\ due'[t] = Tail(due[t])
    BY <1>0, <1>5 DEF Store, windowVars
  <2>2. Len(due'[t]) = Len(due[t]) - 1 /\ Len(due[t]) \in Nat
    BY <2>1
  <2> QED
    <3>1. /\ Additions(t) = 2 * Len(due[t]) - 1
          /\ Additions(t)' = 2 * (Len(due[t]) - 1)
      BY <1>0, <2>1, <2>2 DEF Additions
    <3> QED
      BY <1>0, <1>least, <2>1, <2>2, <3>1
<1>6. CASE Acquire(t) \/ OpenPrimary(t) \/ Answer(t)
  <2>1. /\ UNCHANGED <<conts, due, seen>> /\ due[t] = <<>> /\ seen[t] = Unseen
        /\ \/ pc[t] = "queued" /\ pc'[t] = "budget"
           \/ pc[t] = "budget" /\ pc'[t] = "provider"
           \/ pc[t] = "provider" /\ pc'[t] = "extract"
    BY <1>0, <1>6 DEF Acquire, OpenPrimary, Answer, windowVars, countVars, Quiet
  <2> QED
    BY <1>lower, <1>none, <1>empty, <1>one, <1>two, <1>where, <2>1
<1>7. CASE Refuse(t) \/ Fail(t) \/ ExtractFails(t) \/ Return(t) \/ Drop(t)
  BY <1>2, <1>7 DEF Refuse, Fail, ExtractFails, Return, Drop
<1>8. CASE Break(t) \/ Deadline(t)
  <2>1. /\ UNCHANGED <<conts, seen>> /\ due[t] = <<>> /\ seen[t] = Unseen
        /\ pc[t] \in {"provider", "next"} /\ pc'[t] = "return" /\ Len(due'[t]) = 2
    BY <1>0, <1>3, <1>8 DEF Break, Deadline, windowVars, Quiet
  <2> QED
    BY <1>lower, <1>none, <1>empty, <1>one, <1>two, <1>where, <2>1
<1>9. CASE Think(t)
  <2>1. /\ UNCHANGED <<conts, seen>> /\ due[t] = <<>> /\ seen[t] = Unseen
        /\ pc[t] = "provider"
        /\ \/ pc'[t] = "return" /\ Len(due'[t]) = 2
           \/ pc'[t] = "next" /\ due'[t] = <<<<"windows", 1>>>>
    BY <1>0, <1>3, <1>9 DEF Think, Quiet
  <2> QED
    BY <1>lower, <1>none, <1>empty, <1>one, <1>two, <1>where, <2>1
<1>10. CASE Extract(t)
  <2>1. /\ UNCHANGED <<conts, seen>> /\ due[t] = <<>> /\ seen[t] = Unseen
        /\ pc[t] = "extract" /\ pc'[t] = "decide"
        /\ due'[t] = <<<<"windows", 1>>>> \/ due'[t] = <<>>
    BY <1>0, <1>10 DEF Extract, Quiet
  <2> QED
    BY <1>lower, <1>none, <1>empty, <1>one, <1>two, <1>where, <2>1
<1>11. CASE Decide(t)
  <2>1. /\ UNCHANGED <<conts, seen>> /\ due[t] = <<>> /\ seen[t] = Unseen
        /\ pc[t] = "decide"
        /\ \/ pc'[t] = "return" /\ Len(due'[t]) = 2
           \/ pc'[t] = "next" /\ due'[t] = <<>>
    BY <1>0, <1>3, <1>11 DEF Decide, Quiet
  <2> QED
    BY <1>lower, <1>none, <1>empty, <1>one, <1>two, <1>where, <2>1
<1>12. CASE Continue(t)
  <2>1. /\ seen' = seen /\ due[t] = <<>> /\ seen[t] = Unseen /\ pc[t] = "next"
        /\ \/ pc'[t] = "return" /\ Len(due'[t]) = 2 /\ conts' = conts
           \/ pc'[t] = "provider" /\ due'[t] = <<>> /\ conts'[t] = conts[t] + 1
    BY <1>0, <1>3, <1>12 DEF Continue, Quiet
  <2> QED
    BY <1>lower, <1>none, <1>empty, <1>one, <1>two, <1>where, <2>1
<1> QED
  BY <1>4, <1>5, <1>6, <1>7, <1>8, <1>9, <1>10, <1>11, <1>12 DEF Step

(* Each step of a call, dispatch_timeout and dropped streams included,     *)
(* ends it or lowers a natural number that no step of another call, and no *)
(* reset, changes: whatever the provider answers, the loop cannot go on    *)
(* for ever (dispatch_router.py:1380-2175).                                *)
THEOREM CallsWindDownSafely == Spec => []Windable /\ CallsWindDown
<1>1. TypeOK /\ Solvent /\ [Next]_vars
        => [\A t \in Thread : pc[t] # "idle" =>
              \/ pc'[t] = "idle"
              \/ Ahead(t)' < Ahead(t)
              \/ Ahead(t)' = Ahead(t) /\ ~(Step(t) \/ Deadline(t) \/ Drop(t))]_vars
  <2> SUFFICES ASSUME TypeOK, Solvent, Next, NEW t \in Thread, pc[t] # "idle"
               PROVE  \/ pc'[t] = "idle"
                      \/ Ahead(t)' < Ahead(t)
                      \/ /\ Ahead(t)' = Ahead(t)
                         /\ ~(Step(t) \/ Deadline(t) \/ Drop(t))
    OBVIOUS
  <2>1. CASE Step(t) \/ Deadline(t) \/ Drop(t)
    BY <2>1, StepWindsDown
  <2>2. ASSUME UNCHANGED <<pc[t], conts[t], due[t], seen[t]>>
        PROVE  Ahead(t)' = Ahead(t)
    BY <2>2 DEF Ahead, Additions
  <2>3. /\ pc \in [Thread -> PC] /\ conts \in [Thread -> Nat]
        /\ due \in [Thread -> Seq(Counter \X Nat)]
        /\ seen \in [Thread -> Nat \cup {Unseen}]
    BY DEF TypeOK
  <2> USE DEF Goto, windowVars, countVars
  <2>4. ASSUME NEW u \in Thread, u # t,
               \/ \E k \in Kind : Begin(u, k)
               \/ Load(u) \/ Store(u) \/ Acquire(u) \/ OpenPrimary(u)
        PROVE  UNCHANGED <<pc[t], conts[t], due[t], seen[t]>>
    BY <2>3, <2>4 DEF Begin, Load, Store, Acquire, OpenPrimary
  <2>5. ASSUME NEW u \in Thread, u # t,
               \/ Refuse(u) \/ Fail(u) \/ ExtractFails(u) \/ Return(u) \/ Drop(u)
        PROVE  UNCHANGED <<pc[t], conts[t], due[t], seen[t]>>
    BY <2>3, <2>5 DEF Refuse, Fail, ExtractFails, Return, Drop, Leave
  <2>6. ASSUME NEW u \in Thread, u # t, Break(u) \/ Think(u) \/ Answer(u) \/ Extract(u)
        PROVE  UNCHANGED <<pc[t], conts[t], due[t], seen[t]>>
    BY <2>3, <2>6 DEF Break, Think, Answer, Extract, Wind
  <2>7. ASSUME NEW u \in Thread, u # t, Decide(u) \/ Deadline(u) \/ Continue(u)
        PROVE  UNCHANGED <<pc[t], conts[t], due[t], seen[t]>>
    BY <2>3, <2>7 DEF Decide, Deadline, Continue, Wind
  <2>8. CASE Reset
    BY <2>2, <2>8, StepWindsDown DEF Reset
  <2>9. \A k \in Kind : ~Begin(t, k)
    BY DEF Begin
  <2> QED
    BY <2>1, <2>2, <2>4, <2>5, <2>6, <2>7, <2>8, <2>9 DEF Next, Step
<1> QED
  BY <1>1, AheadNatural, Invariance, AlwaysSolvent, PTL DEF Spec, CallsWindDown

(* Waiting for the session lock: dispatch() at its start, a stream before  *)
(* it creates a window.                                                    *)
HeldUp(t) ==
    /\ lock # None
    /\ \/ pc[t] = "queued"
       \/ pc[t] = "next" /\ due[t] = <<>> /\ kind[t] = "stream" /\ ~AtLimit(t)

LockedByOneDispatch ==
    /\ \A t \in Thread : lock = t <=>
          kind[t] = "dispatch" /\ pc[t] \notin {"idle", "queued"}
    /\ \A t \in Thread : HeldUp(t) =>
          lock \in Thread \ {t} /\ pc[lock] # "idle" /\ ~HeldUp(lock)

(* A stream is never queued for the session lock at its start. *)
Queued == \A t \in Thread : pc[t] = "queued" => kind[t] = "dispatch"

(* The session lock is held by the one dispatch() between its `with' and   *)
(* its end, whichever way it ends, and by no stream; so that two of them   *)
(* never run their windows at once, and whoever waits for the lock waits   *)
(* for a call that waits for nobody (dispatch_router.py:1058, 4783).        *)
THEOREM DispatchesTakeTurns == Spec => []LockedByOneDispatch
<1> DEFINE Held == \A t \in Thread : lock = t <=>
                     kind[t] = "dispatch" /\ pc[t] \notin {"idle", "queued"}
<1>1. Init => Held /\ Queued
  BY DEF Init, Queued
<1>2. TypeOK /\ Held /\ Queued /\ [Next]_vars => Held' /\ Queued'
  <2> SUFFICES ASSUME TypeOK, Held, Queued, [Next]_vars PROVE Held' /\ Queued'
    OBVIOUS
  <2>0. /\ pc \in [Thread -> PC] /\ kind \in [Thread -> Kind]
        /\ lock \in Thread \cup {None} /\ None \notin Thread
    BY DEF TypeOK
  <2> USE DEF Goto, windowVars, countVars
  <2>plain. ASSUME NEW t \in Thread, lock' = lock, kind' = kind,
                   pc[t] \notin {"idle", "queued"},
                   NEW l \in PC \ {"idle", "queued"}, Goto(t, l)
            PROVE  Held'
    BY <2>0, <2>plain
  <2>leave. ASSUME NEW t \in Thread, Leave(t), kind' = kind,
                   pc[t] \notin {"idle", "queued"}
            PROVE  Held'
    BY <2>0, <2>leave DEF Leave
  <2>1. ASSUME NEW t \in Thread, NEW k \in Kind, Begin(t, k) PROVE Held'
    BY <2>0, <2>1 DEF Begin, Kind
  <2>2. ASSUME NEW t \in Thread, Acquire(t) PROVE Held'
    <3>1. kind[t] = "dispatch"
      BY <2>2 DEF Acquire, Queued
    <3> QED
      BY <2>0, <2>2, <3>1 DEF Acquire
  <2>3. ASSUME NEW t \in Thread,
               Refuse(t) \/ Fail(t) \/ ExtractFails(t) \/ Return(t) \/ Drop(t)
        PROVE  Held'
    BY <2>3, <2>leave DEF Refuse, Fail, ExtractFails, Return, Drop
  <2>4. ASSUME NEW t \in Thread, OpenPrimary(t) \/ Answer(t) \/ Extract(t)
        PROVE  Held'
    BY <2>4, <2>plain DEF OpenPrimary, Answer, Extract, PC
  <2>5. ASSUME NEW t \in Thread, Break(t) \/ Deadline(t) PROVE Held'
    BY <2>5, <2>plain DEF Break, Deadline, Wind, PC
  <2>6. ASSUME NEW t \in Thread, Think(t) \/ Decide(t) \/ Continue(t) PROVE Held'
    <3>1. /\ lock' = lock /\ kind' = kind /\ pc[t] \in {"provider", "decide", "next"}
          /\ Goto(t, "return") \/ Goto(t, "next") \/ Goto(t, "provider")
      BY <2>6 DEF Think, Decide, Continue, Wind
    <3> QED
      BY <2>plain, <3>1 DEF PC
  <2>7. ASSUME NEW t \in Thread, Load(t) \/ Store(t) PROVE Held'
    <3>1. UNCHANGED <<lock, kind, pc>>
      BY <2>7 DEF Load, Store
    <3> QED
      BY <3>1
  <2>8. ASSUME Reset \/ UNCHANGED vars PROVE Held'
    <3>1. UNCHANGED <<lock, kind, pc>>
      <4>1. Reset => UNCHANGED <<lock, kind, pc>>
        BY DEF Reset
      <4>2. UNCHANGED vars => UNCHANGED <<lock, kind, pc>>
        BY DEF vars
      <4> QED
        BY <2>8, <4>1, <4>2
    <3> QED
      BY <3>1
  <2>9. Queued'
    <3>1. ASSUME NEW t \in Thread, NEW k \in Kind, Begin(t, k) PROVE Queued'
      BY <2>0, <3>1 DEF Begin, Queued, Kind
    <3>2. ASSUME NEW t \in Thread, Step(t) \/ Deadline(t) \/ Drop(t) PROVE Queued'
      <4>1. kind' = kind /\ \A u \in Thread : pc'[u] = "queued" => pc[u] = "queued"
        BY <2>0, <3>2
        DEF Step, Deadline, Drop, Leave, Load, Store, Acquire, Refuse, OpenPrimary,
            Fail, Break, Think, Answer, Extract, ExtractFails, Decide, Continue,
            Return, Wind
      <4> QED
        BY <4>1 DEF Queued
    <3>3. CASE Reset \/ UNCHANGED vars
      BY <3>3 DEF Reset, vars, Queued
    <3> QED
      BY <3>1, <3>2, <3>3 DEF Next
  <2> QED
    BY <2>1, <2>2, <2>3, <2>4, <2>5, <2>6, <2>7, <2>8, <2>9 DEF Next, Step
<1>3. TypeOK /\ Held => LockedByOneDispatch
  <2> SUFFICES ASSUME TypeOK, Held, NEW t \in Thread, HeldUp(t)
               PROVE  lock \in Thread \ {t} /\ pc[lock] # "idle" /\ ~HeldUp(lock)
    BY DEF LockedByOneDispatch
  <2>1. lock \in Thread
    BY DEF HeldUp, TypeOK
  <2>2. kind[lock] = "dispatch" /\ pc[lock] \notin {"idle", "queued"}
    BY <2>1
  <2> QED
    BY <2>1, <2>2 DEF HeldUp
<1> QED
  BY <1>1, <1>2, <1>3, Invariance, PTL DEF Spec

=============================================================================
