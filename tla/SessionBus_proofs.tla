-------------------------- MODULE SessionBus_proofs --------------------------
(***************************************************************************)
(* Proofs about SessionBus, for any emitters and streams and any sizes of  *)
(* queues and buffer.                                                      *)
(*                                                                         *)
(* The invariant follows an event from its emitter into a stream: every    *)
(* emitter carries an event of its own, what it still has to deliver is    *)
(* newer than all of its events before, and what a stream has is, part by  *)
(* part (yielded, queued, scheduled), in that order too.                   *)
(***************************************************************************)
EXTENDS SessionBus, SequenceTheorems, FiniteSetTheorems, FunctionTheorems, TLAPS

(* By author a, the numbers in A are smaller than those in B. *)
Below(a, A, B) ==
    \A m \in A, n \in B : m # End /\ n # End /\ a[m] = a[n] => m < n

Sorted(a, u) ==
    \A i, j \in DOMAIN u :
        i < j /\ u[i] # End /\ u[j] # End /\ a[u[i]] = a[u[j]] => u[i] < u[j]

Hits(n, u) == {i \in DOMAIN u : u[i] = n}

-----------------------------------------------------------------------------
(* Facts about sequences. *)

(* What Append does. *)
LEMMA AppendIs ==
    ASSUME NEW S, NEW u \in Seq(S), NEW x \in S
    PROVE  /\ Append(u, x) \in Seq(S)
           /\ Len(Append(u, x)) = Len(u) + 1 /\ Len(u) \in Nat
           /\ DOMAIN Append(u, x) = DOMAIN u \cup {Len(u) + 1}
           /\ Len(u) + 1 \notin DOMAIN u
           /\ \A i \in DOMAIN u : i < Len(u) + 1 /\ ~(Len(u) + 1 < i)
           /\ \A i \in DOMAIN u : Append(u, x)[i] = u[i]
           /\ Append(u, x)[Len(u) + 1] = x
OBVIOUS

(* What Tail does. *)
LEMMA TailIs ==
    ASSUME NEW S, NEW u \in Seq(S), u # <<>>
    PROVE  /\ Tail(u) \in Seq(S) /\ Len(Tail(u)) = Len(u) - 1 /\ Len(u) \in Nat
           /\ Head(u) = u[1] /\ Head(u) \in S /\ 1 \in DOMAIN u
           /\ \A i \in DOMAIN Tail(u) : i + 1 \in DOMAIN u /\ Tail(u)[i] = u[i + 1]
           /\ \A i \in DOMAIN u : i = 1 \/ (i - 1 \in DOMAIN Tail(u))
           /\ DOMAIN Tail(u) \subseteq Nat \ {0} /\ DOMAIN u \subseteq Nat \ {0}
OBVIOUS

(* How often an event comes in a queue can be counted. *)
LEMMA TimesNatural ==
    ASSUME NEW S, NEW u \in Seq(S), NEW n
    PROVE  /\ IsFiniteSet(Hits(n, u))
           /\ Times(n, u) = Cardinality(Hits(n, u)) /\ Times(n, u) \in Nat
           /\ Times(n, u) = 0 <=> n \notin Elements(u)
<1>1. IsFiniteSet(DOMAIN u)
  <2>1. DOMAIN u = 1 .. Len(u) /\ Len(u) \in Nat
    OBVIOUS
  <2> QED
    BY <2>1, FS_Interval
<1>2. Hits(n, u) \in SUBSET DOMAIN u
  BY DEF Hits
<1>3. IsFiniteSet(Hits(n, u))
  BY <1>1, <1>2, FS_Subset
<1>4. Cardinality(Hits(n, u)) = 0 <=> Hits(n, u) = {}
  BY <1>3, FS_EmptySet
<1>5. Hits(n, u) = {} <=> n \notin Elements(u)
  BY DEF Hits, Elements
<1>6. Times(n, u) = Cardinality(Hits(n, u))
  BY DEF Hits, Times
<1> QED
  BY <1>3, <1>4, <1>5, <1>6, FS_CardinalityType

(* What an item more at the end changes. *)
LEMMA Appended ==
    ASSUME NEW u \in Seq(Item), NEW x \in Item, NEW a
    PROVE  /\ Append(u, x) \in Seq(Item)
           /\ Elements(Append(u, x)) = Elements(u) \cup {x}
           /\ Sorted(a, u) /\ Below(a, Elements(u), {x}) => Sorted(a, Append(u, x))
           /\ \A n : Times(n, Append(u, x)) = Times(n, u) + In(n, {x})
<1> DEFINE v == Append(u, x)
           k == Len(u) + 1
<1>1. /\ v \in Seq(Item) /\ DOMAIN v = DOMAIN u \cup {k} /\ k \notin DOMAIN u
      /\ \A i \in DOMAIN u : v[i] = u[i] /\ ~(k < i)
      /\ v[k] = x /\ k \in Nat
  BY AppendIs
<1> HIDE DEF v, k
<1>2. Elements(v) = Elements(u) \cup {x}
  <2>1. \A y : y \in Elements(v) <=> y \in Elements(u) \/ y = x
    BY <1>1 DEF Elements
  <2> QED
    BY <2>1
<1>3. ASSUME Sorted(a, u), Below(a, Elements(u), {x}) PROVE Sorted(a, v)
  <2> SUFFICES ASSUME NEW i \in DOMAIN v, NEW j \in DOMAIN v, i < j,
                      v[i] # End, v[j] # End, a[v[i]] = a[v[j]]
               PROVE  v[i] < v[j]
    BY DEF Sorted
  <2>1. i \in DOMAIN u
    BY <1>1
  <2>2. CASE j \in DOMAIN u
    BY <1>1, <1>3, <2>1, <2>2 DEF Sorted
  <2>3. CASE j = k
    BY <1>1, <1>3, <2>1, <2>3 DEF Below, Elements
  <2> QED
    BY <1>1, <2>2, <2>3
<1>4. ASSUME NEW n PROVE Times(n, v) = Times(n, u) + In(n, {x})
  <2>1. /\ IsFiniteSet(Hits(n, u)) /\ Times(n, u) = Cardinality(Hits(n, u))
        /\ Times(n, u) \in Nat /\ Times(n, v) = Cardinality(Hits(n, v))
    BY <1>1, TimesNatural
  <2>2. CASE x = n
    <3>1. Hits(n, v) = Hits(n, u) \cup {k} /\ k \notin Hits(n, u)
      BY <1>1, <2>2 DEF Hits
    <3>2. Cardinality(Hits(n, u) \cup {k}) = Cardinality(Hits(n, u)) + 1
      BY <2>1, <3>1, FS_AddElement
    <3> QED
      BY <2>1, <2>2, <3>1, <3>2 DEF In
  <2>3. CASE x # n
    <3>1. Hits(n, v) = Hits(n, u)
      BY <1>1, <2>3 DEF Hits
    <3> QED
      BY <2>1, <2>3, <3>1 DEF In
  <2> QED
    BY <2>2, <2>3
<1> QED
  BY <1>1, <1>2, <1>3, <1>4 DEF v

(* What taking the first item changes. *)
LEMMA Taken ==
    ASSUME NEW u \in Seq(Item), u # <<>>, NEW a
    PROVE  /\ Tail(u) \in Seq(Item) /\ Head(u) \in Item
           /\ Len(Tail(u)) < Len(u)
           /\ Elements(u) = Elements(Tail(u)) \cup {Head(u)}
           /\ Sorted(a, u) => /\ Sorted(a, Tail(u))
                              /\ Below(a, {Head(u)}, Elements(Tail(u)))
           /\ \A n : Times(n, u) = Times(n, Tail(u)) + In(n, {Head(u)})
<1> DEFINE t == Tail(u)
<1>1. /\ t \in Seq(Item) /\ Len(t) = Len(u) - 1 /\ Len(u) \in Nat
      /\ Head(u) = u[1] /\ Head(u) \in Item /\ 1 \in DOMAIN u
      /\ \A i \in DOMAIN t : i + 1 \in DOMAIN u /\ t[i] = u[i + 1]
      /\ \A i \in DOMAIN u : i = 1 \/ (i - 1 \in DOMAIN t)
      /\ DOMAIN t \subseteq Nat \ {0} /\ DOMAIN u \subseteq Nat \ {0}
  BY TailIs
<1> HIDE DEF t
<1>2. Elements(u) = Elements(t) \cup {Head(u)}
  <2>1. ASSUME NEW i \in DOMAIN u PROVE u[i] \in Elements(t) \cup {Head(u)}
    <3>1. CASE i = 1
      BY <1>1, <3>1
    <3>2. CASE i # 1
      <4>1. i - 1 \in DOMAIN t /\ i \in Nat
        BY <1>1, <3>2
      <4>2. t[i - 1] = u[(i - 1) + 1] /\ (i - 1) + 1 = i
        BY <1>1, <4>1
      <4> QED
        BY <4>1, <4>2 DEF Elements
    <3> QED
      BY <3>1, <3>2
  <2>2. Elements(t) \subseteq Elements(u) /\ Head(u) \in Elements(u)
    BY <1>1 DEF Elements
  <2> QED
    BY <2>1, <2>2 DEF Elements
<1>3. ASSUME Sorted(a, u)
      PROVE  Sorted(a, t) /\ Below(a, {Head(u)}, Elements(t))
  <2>1. \A i, j \in DOMAIN t : i < j => i + 1 < j + 1
    BY <1>1
  <2>2. Sorted(a, t)
    BY <1>1, <1>3, <2>1 DEF Sorted
  <2>3. \A j \in DOMAIN t : 1 < j + 1
    BY <1>1
  <2>4. Below(a, {Head(u)}, Elements(t))
    BY <1>1, <1>3, <2>3 DEF Sorted, Below, Elements
  <2> QED
    BY <2>2, <2>4
<1>4. ASSUME NEW n PROVE Times(n, u) = Times(n, t) + In(n, {Head(u)})
  <2> DEFINE A == Hits(n, t)
             B == Hits(n, u) \ {1}
             f == [i \in A |-> i + 1]
  <2>1. /\ IsFiniteSet(Hits(n, u)) /\ Times(n, u) = Cardinality(Hits(n, u))
        /\ Times(n, u) \in Nat /\ Times(n, t) \in Nat
        /\ IsFiniteSet(A) /\ Times(n, t) = Cardinality(A)
    BY <1>1, TimesNatural
  <2>2. Cardinality(B) = Cardinality(A)
    <3>1. \A i \in A : i \in Nat /\ i + 1 \in B
      BY <1>1 DEF Hits
    <3>2. ASSUME NEW j \in B PROVE \E i \in A : f[i] = j
      <4>1. j - 1 \in DOMAIN t /\ j \in Nat
        BY <1>1 DEF Hits
      <4>2. j - 1 \in A
        BY <1>1, <4>1 DEF Hits
      <4>3. f[j - 1] = j
        BY <4>1, <4>2
      <4> QED
        BY <4>2, <4>3
    <3>3. f \in [A -> B] /\ \A i, k \in A : f[i] = f[k] => i = k
      BY <3>1
    <3> HIDE DEF A, B, f
    <3>4. f \in Bijection(A, B)
      BY <3>2, <3>3, Fun_IsBij
    <3>5. ExistsBijection(A, B)
      BY <3>4 DEF ExistsBijection
    <3> QED
      BY <2>1, <3>5, FS_Bijection
  <2>3. CASE u[1] = n
    <3>1. 1 \in Hits(n, u)
      BY <1>1, <2>3 DEF Hits
    <3>2. Cardinality(B) = Cardinality(Hits(n, u)) - 1
      BY <2>1, <3>1, FS_RemoveElement
    <3> QED
      BY <1>1, <2>1, <2>2, <2>3, <3>2 DEF In
  <2>4. CASE u[1] # n
    <3>1. B = Hits(n, u)
      BY <2>4 DEF Hits
    <3>2. In(n, {Head(u)}) = 0
      BY <1>1, <2>4 DEF In
    <3> HIDE DEF A, B
    <3>3. Times(n, u) = Times(n, t)
      BY <2>1, <2>2, <3>1
    <3> QED
      BY <2>1, <3>2, <3>3
  <2> QED
    BY <2>3, <2>4
<1>5. Len(t) < Len(u)
  BY <1>1
<1> QED
  BY <1>1, <1>2, <1>3, <1>4, <1>5 DEF t

(* Empty queues are in order and have no events. *)
LEMMA Nothing ==
    /\ Elements(<<>>) = {} /\ <<>> \in Seq(Item) /\ <<>> \in Seq(Event)
    /\ Len(<<>>) = 0
    /\ \A a : Sorted(a, <<>>)
    /\ \A n : Times(n, <<>>) = 0
<1>1. Elements(<<>>) = {} /\ <<>> \in Seq(Item)
  BY DEF Elements
<1>2. \A n : Times(n, <<>>) = 0
  BY <1>1, TimesNatural
<1> QED
  BY <1>1, <1>2 DEF Sorted

-----------------------------------------------------------------------------
(* The invariant. *)

(* An emitter carries an event of its own. *)
Own ==
    \A e \in Emitter : carrying[e] # End =>
        carrying[e] \in 1 .. emitted /\ author[carrying[e]] = e

Parts(s) == Elements(heard[s]) \cup Elements(queue[s]) \cup Elements(Scheduled(s))

(* Only a registered stream is delivered to. *)
Present(s) ==
    /\ s \in subs => stage[s] \in {"live", "over"}
    /\ stage[s] = "live" => s \in subs
    /\ \A e \in Emitter : s \in todo[e] => s \in subs
    /\ s \notin subs => queue[s] = <<>> /\ Scheduled(s) = <<>> /\ lost[s] = {}
    /\ stage[s] = "away" => heard[s] = <<>>
    /\ stage[s] = "over" /\ s \notin subs => closed /\ joined[s] = emitted

(* What is replayed was emitted before the stream subscribed, what is      *)
(* delivered was emitted after it.                                         *)
Recent(s) ==
    /\ joined[s] <= emitted /\ upto[s] <= emitted /\ 1 <= at[s]
    /\ Elements(heard[s]) \subseteq 1 .. emitted
    /\ stage[s] = "replaying" =>
          \A n \in Elements(heard[s]) : n < at[s] /\ n <= upto[s]
    /\ stage[s] \in {"live", "over"} =>
          \A n \in Elements(queue[s]) \cup Elements(Scheduled(s)) :
              n = End \/ (joined[s] < n /\ n <= emitted)
    /\ \A n \in lost[s] : n = End \/ n <= emitted
    /\ \A e \in Emitter : s \in todo[e] /\ carrying[e] # End => joined[s] < carrying[e]

Ordered(s) ==
    /\ Sorted(author, heard[s])
    /\ Sorted(author, queue[s])
    /\ Sorted(author, Scheduled(s))
    /\ Below(author, Elements(heard[s]), Elements(queue[s]))
    /\ Below(author, Elements(heard[s]), Elements(Scheduled(s)))
    /\ Below(author, Elements(queue[s]), Elements(Scheduled(s)))
    /\ \A e \in Emitter : s \in todo[e] /\ carrying[e] # End =>
          \A m \in Parts(s) : m # End /\ author[m] = e => m < carrying[e]

Carries(s, n) == IF s \in todo[author[n]] /\ carrying[author[n]] = n THEN 1 ELSE 0

Count(s, n) ==
    Times(n, heard[s]) + Times(n, queue[s]) + Times(n, Scheduled(s))
    + Carries(s, n) + In(n, lost[s])

Accounted(s) ==
    stage[s] \in {"live", "over"} =>
        \A n \in joined[s] + 1 .. emitted : Count(s, n) = 1

(* Unless something befell the client, it has what its Last-Event-ID says. *)
Had(s) == earlier[s] \cup Elements(heard[s])

Complete(s) ==
    mishaps[s] = {} =>
        /\ lost[s] = {}
        /\ \A n \in 1 .. lastId[s] : n \in Had(s)
        /\ stage[s] = "replaying" => at[s] = lastId[s] + 1
        /\ stage[s] \in {"live", "over"} => \A n \in 1 .. joined[s] : n \in Had(s)

StreamInv(s) == Present(s) /\ Recent(s) /\ Ordered(s) /\ Accounted(s) /\ Complete(s)

IInv == TypeOK /\ Own /\ \A s \in Stream : StreamInv(s)

-----------------------------------------------------------------------------
(* What the type invariant says of each part, one by one. *)
LEMMA Types ==
    ASSUME TypeOK
    PROVE  /\ emitted \in Nat /\ MaxEvents \in Nat /\ emitted <= MaxEvents
           /\ QueueBound \in Nat \ {0} /\ BufferBound \in Nat \ {0}
           /\ author \in [1 .. emitted -> Emitter]
           /\ Event \subseteq Item /\ End \in Item /\ End \notin Event
           /\ \A n \in Event : n \in Nat /\ n # End
           /\ \A e \in Emitter : carrying[e] \in Item /\ todo[e] \subseteq Stream
           /\ \A s \in Stream :
                 /\ heard[s] \in Seq(Event) /\ heard[s] \in Seq(Item)
                 /\ queue[s] \in Seq(Item) /\ Scheduled(s) \in Seq(Item)
                 /\ Len(queue[s]) <= QueueBound
                 /\ at[s] \in Nat /\ upto[s] \in Nat /\ joined[s] \in Nat
                 /\ lastId[s] \in Nat
                 /\ lost[s] \subseteq Item
<1>1. /\ emitted \in Nat /\ MaxEvents \in Nat /\ emitted <= MaxEvents
      /\ QueueBound \in Nat \ {0} /\ BufferBound \in Nat \ {0}
      /\ author \in [1 .. emitted -> Emitter]
      /\ Event \subseteq Item /\ End \in Item /\ End \notin Event
      /\ \A n \in Event : n \in Nat /\ n # End
      /\ \A e \in Emitter : carrying[e] \in Item /\ todo[e] \subseteq Stream
  BY BusAssumption DEF TypeOK, Event, Item, End
<1>2. ASSUME NEW s \in Stream
      PROVE  /\ heard[s] \in Seq(Event) /\ heard[s] \in Seq(Item)
             /\ queue[s] \in Seq(Item) /\ Scheduled(s) \in Seq(Item)
             /\ Len(queue[s]) <= QueueBound
             /\ at[s] \in Nat /\ upto[s] \in Nat /\ joined[s] \in Nat
             /\ lastId[s] \in Nat
             /\ lost[s] \subseteq Item
  <2>1. heard[s] \in Seq(Event) /\ queue[s] \in Seq(Item) /\ Len(queue[s]) <= QueueBound
    BY DEF TypeOK
  <2>2. heard[s] \in Seq(Item)
    BY <1>1, <2>1
  <2>3. Scheduled(s) \in Seq(Item)
    BY Nothing DEF TypeOK, Scheduled
  <2>4. /\ at[s] \in Nat /\ upto[s] \in Nat /\ joined[s] \in Nat
        /\ lastId[s] \in Nat
    BY <1>1 DEF TypeOK
  <2>5. lost[s] \subseteq Item
    BY DEF TypeOK
  <2> QED
    BY <2>1, <2>2, <2>3, <2>4, <2>5
<1> QED
  BY <1>1, <1>2

(* A step that does not touch a stream. *)
Untouched(s) ==
    /\ UNCHANGED <<emitted, author, closed, carrying>>
    /\ UNCHANGED <<queue[s], Scheduled(s), heard[s], stage[s], at[s], upto[s],
                   joined[s], earlier[s], lastId[s], lost[s], mishaps[s]>>
    /\ s \in subs' <=> s \in subs
    /\ \A e \in Emitter : s \in todo'[e] <=> s \in todo[e]

(* A stream that a step does not touch keeps its invariant. *)
LEMMA StaysAlike ==
    ASSUME TypeOK, NEW s \in Stream, StreamInv(s), Untouched(s)
    PROVE  StreamInv(s)'
<1>1. Present(s)'
  BY DEF StreamInv, Present, Untouched
<1>2. Recent(s)'
  BY DEF StreamInv, Recent, Untouched
<1>3. Ordered(s)' /\ Complete(s)'
  BY DEF StreamInv, Ordered, Parts, Complete, Had, Untouched
<1>4. Accounted(s)'
  <2> SUFFICES ASSUME stage[s] \in {"live", "over"}, NEW n \in joined[s] + 1 .. emitted
               PROVE  Count(s, n)' = 1
    BY DEF Accounted, Untouched
  <2>1. author[n] \in Emitter
    BY Types
  <2>2. Count(s, n)' = Count(s, n)
    BY <2>1 DEF Count, Carries, Untouched
  <2> QED
    BY <2>2 DEF StreamInv, Accounted
<1> QED
  BY <1>1, <1>2, <1>3, <1>4 DEF StreamInv

(* At first there are no streams and no events. *)
LEMMA InitIInv == Init => IInv
<1> SUFFICES ASSUME Init PROVE IInv
  OBVIOUS
<1>1. author \in [1 .. emitted -> Emitter]
  BY DEF Init
<1>2. \A s \in Stream : /\ heard[s] = <<>> /\ queue[s] = <<>> /\ Scheduled(s) = <<>>
                        /\ stage[s] = "away" /\ lost[s] = {} /\ lastId[s] = 0
                        /\ joined[s] = 0 /\ upto[s] = 0 /\ at[s] = 1
  BY DEF Init, Scheduled
<1>3. TypeOK
  <2>1. emitted \in 0 .. MaxEvents /\ connects \in 0 .. MaxConnects
    BY BusAssumption DEF Init
  <2>6. closed \in BOOLEAN /\ subs \subseteq Stream
    BY DEF Init
  <2>2. /\ carrying \in [Emitter -> Item]
        /\ todo \in [Emitter -> SUBSET Stream]
        /\ callbacks \in [AsyncStream -> Seq(Item)]
        /\ queue \in [Stream -> Seq(Item)]
        /\ heard \in [Stream -> Seq(Event)]
    BY Nothing DEF Init, Item
  <2>3. \A s \in Stream : Len(queue[s]) <= QueueBound
    BY <1>2, Nothing, BusAssumption
  <2>4. /\ stage \in [Stream -> {"away", "replaying", "live", "over"}]
        /\ at \in [Stream -> Nat]
        /\ upto \in [Stream -> 0 .. MaxEvents]
        /\ joined \in [Stream -> 0 .. MaxEvents]
        /\ lastId \in [Stream -> 0 .. MaxEvents]
    BY BusAssumption DEF Init
  <2>5. /\ earlier \in [Stream -> SUBSET Event]
        /\ lost \in [Stream -> SUBSET Item]
        /\ mishaps \in [Stream -> SUBSET Mishap]
    BY DEF Init
  <2> QED
    BY <1>1, <2>1, <2>2, <2>3, <2>4, <2>5, <2>6 DEF TypeOK
<1>4. Own
  BY DEF Init, Own
<1>5. ASSUME NEW s \in Stream PROVE StreamInv(s)
  <2>1. Present(s)
    BY <1>2 DEF Init, Present
  <2>2. Recent(s)
    BY <1>2, Nothing DEF Init, Recent
  <2>3. Ordered(s)
    BY <1>2, Nothing DEF Init, Ordered, Below, Parts
  <2>4. Accounted(s) /\ Complete(s)
    BY <1>2 DEF Accounted, Complete
  <2> QED
    BY <2>1, <2>2, <2>3, <2>4 DEF StreamInv
<1> QED
  BY <1>3, <1>4, <1>5 DEF IInv

-----------------------------------------------------------------------------
(* An item comes to a queue. *)

Enters(s, x) ==
    /\ x \in Item
    /\ Enqueue(s, x)
    /\ UNCHANGED <<busVars, subs, carrying, streamVars, heard, lastId>>
    /\ x # End => joined[s] < x /\ x <= emitted
    /\ s \in subs
    /\ Below(author, Elements(heard[s]), {x})
    /\ Below(author, Elements(queue[s]), {x})
    /\ Below(author, {x}, Elements(Scheduled(s)'))
    /\ Elements(Scheduled(s)') \subseteq Elements(Scheduled(s))
    /\ Scheduled(s)' \in Seq(Item) /\ Sorted(author, Scheduled(s)')
    /\ \A e \in Emitter : s \in todo'[e] =>
          /\ s \in todo[e]
          /\ x # End /\ author[x] = e /\ carrying[e] # End => x < carrying[e]
    /\ \A n \in 1 .. emitted :
          /\ Carries(s, n)' \in {0, 1}
          /\ Times(n, Scheduled(s)) + Carries(s, n)
                = Times(n, Scheduled(s)') + Carries(s, n)' + In(n, {x})

(* The queue takes it or drops it. *)
LEMMA EnqueueIs ==
    ASSUME TypeOK, NEW s \in Stream, NEW x \in Item, Enqueue(s, x)
    PROVE  /\ \/ /\ queue'[s] = Append(queue[s], x) /\ Len(queue[s]) < QueueBound
                 /\ UNCHANGED <<lost, mishaps>>
              \/ /\ queue'[s] = queue[s]
                 /\ lost'[s] = lost[s] \cup {x}
                 /\ "dropped" \in mishaps'[s]
           /\ \A t \in Stream \ {s} : UNCHANGED <<queue[t], lost[t], mishaps[t]>>
           /\ queue' \in [Stream -> Seq(Item)]
           /\ \A t \in Stream : Len(queue'[t]) <= QueueBound
           /\ lost' \in [Stream -> SUBSET Item]
           /\ mishaps' \in [Stream -> SUBSET Mishap]
<1>1. /\ queue \in [Stream -> Seq(Item)] /\ lost \in [Stream -> SUBSET Item]
      /\ mishaps \in [Stream -> SUBSET Mishap]
      /\ \A t \in Stream : Len(queue[t]) <= QueueBound /\ Len(queue[t]) \in Nat
      /\ QueueBound \in Nat
  <2>1. queue \in [Stream -> Seq(Item)]
    BY DEF TypeOK
  <2>2. lost \in [Stream -> SUBSET Item] /\ mishaps \in [Stream -> SUBSET Mishap]
    BY DEF TypeOK
  <2>3. \A t \in Stream : Len(queue[t]) <= QueueBound
    BY DEF TypeOK
  <2>4. ASSUME NEW t \in Stream PROVE Len(queue[t]) \in Nat
    <3>1. queue[t] \in Seq(Item)
      BY <2>1
    <3> QED
      BY <3>1
  <2> QED
    BY <2>1, <2>2, <2>3, <2>4, BusAssumption
<1>2. CASE Len(queue[s]) < QueueBound
  <2>1. /\ queue' = [queue EXCEPT ![s] = Append(queue[s], x)]
        /\ UNCHANGED <<lost, mishaps>>
    BY <1>2 DEF Enqueue
  <2>2. Append(queue[s], x) \in Seq(Item) /\ Len(Append(queue[s], x)) = Len(queue[s]) + 1
    BY <1>1
  <2>3. \A t \in Stream : Len(queue'[t]) <= QueueBound
    BY <1>1, <1>2, <2>1, <2>2
  <2> QED
    BY <1>1, <1>2, <2>1, <2>2, <2>3
<1>3. CASE ~(Len(queue[s]) < QueueBound)
  <2>1. /\ queue' = queue
        /\ lost' = [t \in Stream |-> IF t \in {s} THEN lost[t] \cup {x} ELSE lost[t]]
        /\ mishaps' = [t \in Stream |-> IF t \in {s} THEN mishaps[t] \cup {"dropped"}
                                                      ELSE mishaps[t]]
    BY <1>3 DEF Enqueue, Drop, Befalls
  <2>2. "dropped" \in Mishap
    BY DEF Mishap
  <2> QED
    BY <1>1, <2>1, <2>2
<1> QED
  BY <1>2, <1>3

(* An event that enters a stream's queue, or pushes its oldest out, keeps  *)
(* the stream in order.                                                    *)
LEMMA EnterStep ==
    ASSUME TypeOK, NEW s \in Stream, NEW x, StreamInv(s), Enters(s, x)
    PROVE  StreamInv(s)'
<1>1. /\ x \in Item
      /\ UNCHANGED <<emitted, author, closed, subs, carrying, stage, at, upto, joined,
                     earlier, heard, lastId>>
      /\ heard[s] \in Seq(Item) /\ queue[s] \in Seq(Item) /\ Scheduled(s) \in Seq(Item)
      /\ s \in subs /\ stage[s] \in {"live", "over"}
      /\ emitted \in Nat /\ joined[s] \in Nat
  BY Types DEF Enters, busVars, streamVars, StreamInv, Present
<1>2. \/ /\ queue'[s] = Append(queue[s], x)
         /\ UNCHANGED <<lost[s], mishaps[s]>>
      \/ /\ queue'[s] = queue[s]
         /\ lost'[s] = lost[s] \cup {x}
         /\ "dropped" \in mishaps'[s]
  BY <1>1, EnqueueIs DEF Enters
<1>3. /\ Elements(queue'[s]) \subseteq Elements(queue[s]) \cup {x}
      /\ Sorted(author, queue'[s])
      /\ queue'[s] \in Seq(Item)
  <2>1. Sorted(author, queue[s]) /\ Below(author, Elements(queue[s]), {x})
    BY DEF StreamInv, Ordered, Enters
  <2>2. /\ Append(queue[s], x) \in Seq(Item)
        /\ Elements(Append(queue[s], x)) = Elements(queue[s]) \cup {x}
        /\ Sorted(author, Append(queue[s], x))
    BY <1>1, <2>1, Appended
  <2> QED
    BY <1>1, <1>2, <2>1, <2>2
<1>4. Present(s)'
  BY <1>1 DEF StreamInv, Present, Enters
<1>5. Recent(s)'
  <2>1. \A n \in Elements(queue'[s]) \cup Elements(Scheduled(s)') :
              n = End \/ (joined[s] < n /\ n <= emitted)
    BY <1>1, <1>3 DEF StreamInv, Recent, Enters
  <2>2. \A n \in lost'[s] : n = End \/ n <= emitted
    BY <1>1, <1>2 DEF StreamInv, Recent, Enters
  <2>3. \A e \in Emitter : s \in todo'[e] => s \in todo[e]
    BY DEF Enters
  <2> QED
    BY <1>1, <2>1, <2>2, <2>3 DEF StreamInv, Recent
<1>6. Ordered(s)'
  <2>1. /\ Below(author, Elements(heard[s]), Elements(queue'[s]))
        /\ Below(author, Elements(heard[s]), Elements(Scheduled(s)'))
        /\ Below(author, Elements(queue'[s]), Elements(Scheduled(s)'))
    BY <1>1, <1>3 DEF StreamInv, Ordered, Enters, Below
  <2>2. ASSUME NEW e \in Emitter, s \in todo'[e], carrying[e] # End,
               NEW m \in Parts(s)', m # End, author[m] = e
        PROVE  m < carrying[e]
    <3>1. m \in Parts(s) \/ m = x
      BY <1>1, <1>3 DEF Parts, Enters
    <3> QED
      BY <2>2, <3>1 DEF StreamInv, Ordered, Enters
  <2> QED
    BY <1>1, <1>3, <2>1, <2>2 DEF StreamInv, Ordered, Enters
<1>7. Accounted(s)'
  <2> SUFFICES ASSUME NEW n \in joined[s] + 1 .. emitted PROVE Count(s, n)' = 1
    BY <1>1 DEF Accounted
  <2>1. Count(s, n) = 1 /\ n \in 1 .. emitted
    BY <1>1 DEF StreamInv, Accounted
  <2>2. /\ Times(n, heard[s]) \in Nat /\ Times(n, queue[s]) \in Nat
        /\ Times(n, Scheduled(s)) \in Nat /\ Times(n, Scheduled(s)') \in Nat
        /\ In(n, {x}) \in {0, 1} /\ In(n, lost[s]) \in {0, 1}
        /\ Carries(s, n) \in {0, 1} /\ Carries(s, n)' \in {0, 1}
    BY <1>1, <2>1, TimesNatural DEF In, Carries, Enters
  <2>3. Times(n, Scheduled(s)) + Carries(s, n)
            = Times(n, Scheduled(s)') + Carries(s, n)' + In(n, {x})
    BY <2>1 DEF Enters
  <2>4. /\ Times(n, queue'[s]) + In(n, lost'[s])
               = Times(n, queue[s]) + In(n, lost[s]) + In(n, {x})
        /\ Times(n, queue'[s]) \in Nat /\ In(n, lost'[s]) \in {0, 1}
    <3>1. CASE queue'[s] = Append(queue[s], x) /\ UNCHANGED lost[s]
      <4>1. Times(n, Append(queue[s], x)) = Times(n, queue[s]) + In(n, {x})
        BY <1>1, Appended
      <4> QED
        BY <2>2, <3>1, <4>1
    <3>2. CASE queue'[s] = queue[s] /\ lost'[s] = lost[s] \cup {x}
      <4>1. n = x => n \notin lost[s]
        <5>1. n = x => In(n, {x}) = 1
          BY DEF In
        <5>2. n \in lost[s] => In(n, lost[s]) = 1
          BY DEF In
        <5> QED
          BY <2>1, <2>2, <2>3, <5>1, <5>2 DEF Count
      <4>2. In(n, lost'[s]) = In(n, lost[s]) + In(n, {x})
        BY <3>2, <4>1 DEF In
      <4> QED
        BY <2>2, <3>2, <4>2 DEF In
    <3> QED
      BY <1>2, <3>1, <3>2
  <2>5. Count(s, n)' = Times(n, heard[s]) + Times(n, queue'[s]) + Times(n, Scheduled(s)')
                       + Carries(s, n)' + In(n, lost'[s])
    BY <1>1 DEF Count
  <2> QED
    BY <2>1, <2>2, <2>3, <2>4, <2>5 DEF Count
<1>8. Complete(s)'
  BY <1>1, <1>2 DEF StreamInv, Complete, Had
<1> QED
  BY <1>4, <1>5, <1>6, <1>7, <1>8 DEF StreamInv

(* An emitter gives what it carries to one of the streams it still has to. *)
Gives(e, s) ==
    /\ UNCHANGED <<emitted, author, carrying>>
    /\ \A f \in Emitter : s \in todo'[f] <=> s \in todo[f] /\ f # e

(* What an emitter hands a subscriber is newer than all it has from that   *)
(* emitter.                                                                *)
LEMMA GivesIs ==
    ASSUME IInv, NEW e \in Emitter, NEW s \in todo[e], Gives(e, s)
    PROVE  /\ carrying[e] \in Item /\ s \in Stream
           /\ s \in subs /\ stage[s] \in {"live", "over"}
           /\ carrying[e] # End =>
                 joined[s] < carrying[e] /\ carrying[e] <= emitted
           /\ \A S \in {Elements(heard[s]), Elements(queue[s]),
                       Elements(Scheduled(s))} : Below(author, S, {carrying[e]})
           /\ \A f \in Emitter : s \in todo'[f] =>
                 /\ s \in todo[f]
                 /\ carrying[e] # End /\ author[carrying[e]] = f /\ carrying[f] # End
                       => carrying[e] < carrying[f]
           /\ \A n \in 1 .. emitted :
                 /\ Carries(s, n)' \in {0, 1}
                 /\ Carries(s, n) = Carries(s, n)' + In(n, {carrying[e]})
<1> DEFINE x == carrying[e]
<1>1. /\ TypeOK /\ Own /\ s \in Stream /\ StreamInv(s) /\ x \in Item
  BY Types DEF IInv
<1>2. x # End => /\ joined[s] < x /\ x <= emitted /\ author[x] = e
                 /\ x \in 1 .. emitted
  BY <1>1, Types DEF Own, StreamInv, Recent
<1>3. s \in subs /\ stage[s] \in {"live", "over"}
  BY <1>1 DEF StreamInv, Present
<1>4. x # End => \A m \in Parts(s) : m # End /\ author[m] = e => m < x
  BY <1>1 DEF StreamInv, Ordered
<1> HIDE DEF x
<1>5. \A S \in {Elements(heard[s]), Elements(queue[s]), Elements(Scheduled(s))} :
          Below(author, S, {x})
  BY <1>2, <1>4 DEF Below, Parts
<1>6. \A f \in Emitter : s \in todo'[f] =>
          /\ s \in todo[f]
          /\ x # End /\ author[x] = f /\ carrying[f] # End => x < carrying[f]
  BY <1>2 DEF Gives
<1>7. ASSUME NEW n \in 1 .. emitted
      PROVE  Carries(s, n)' \in {0, 1} /\ Carries(s, n) = Carries(s, n)' + In(n, {x})
  <2>1. author[n] \in Emitter /\ n # End
    BY <1>1, Types DEF End
  <2>2. CASE n = x
    <3>1. author[n] = e
      BY <1>2, <2>1, <2>2
    <3> QED
      BY <2>2, <3>1 DEF Carries, In, x, Gives
  <2>3. CASE n # x
    <3>1. Carries(s, n)' = Carries(s, n)
      BY <2>1, <2>3 DEF Carries, x, Gives
    <3> QED
      BY <2>3, <3>1 DEF In, Carries
  <2> QED
    BY <2>2, <2>3
<1> QED
  BY <1>1, <1>2, <1>3, <1>5, <1>6, <1>7 DEF x

(* An emitter puts on the queue of a threaded stream. *)
LEMMA PutStep ==
    ASSUME IInv, NEW e \in Emitter, NEW s \in SyncStream, Put(e, s)
    PROVE  IInv'
<1> DEFINE x == carrying[e]
<1>1. /\ TypeOK /\ Own /\ \A t \in Stream : StreamInv(t)
      /\ s \in Stream /\ s \notin AsyncStream /\ Scheduled(s) = <<>>
      /\ s \in todo[e] /\ x \in Item
      /\ todo \in [Emitter -> SUBSET Stream]
  BY Types, BusAssumption DEF IInv, Stream, Put, Scheduled, TypeOK
<1>2. /\ todo' = [todo EXCEPT ![e] = todo[e] \ {s}]
      /\ Enqueue(s, x)
      /\ UNCHANGED <<busVars, subs, carrying, callbacks, streamVars, heard, lastId>>
  BY DEF Put
<1>3. UNCHANGED <<emitted, author, closed, stage, at, upto, joined, earlier, connects>>
  BY <1>2 DEF busVars, streamVars
<1> HIDE DEF x
<1>4. TypeOK'
  <2>1. /\ queue' \in [Stream -> Seq(Item)]
        /\ \A t \in Stream : Len(queue'[t]) <= QueueBound
        /\ lost' \in [Stream -> SUBSET Item]
        /\ mishaps' \in [Stream -> SUBSET Mishap]
    BY <1>1, <1>2, EnqueueIs
  <2>2. todo' \in [Emitter -> SUBSET Stream]
    BY <1>1, <1>2
  <2> QED
    BY <1>1, <1>2, <1>3, <2>1, <2>2 DEF TypeOK
<1>5. Own'
  BY <1>1, <1>2, <1>3 DEF Own
<1>6. ASSUME NEW t \in Stream \ {s} PROVE StreamInv(t)'
  <2>1. UNCHANGED <<queue[t], lost[t], mishaps[t]>>
    BY <1>1, <1>2, EnqueueIs
  <2>2. UNCHANGED Scheduled(t)
    BY <1>2 DEF Scheduled
  <2>3. \A f \in Emitter : t \in todo'[f] <=> t \in todo[f]
    BY <1>1, <1>2
  <2>4. Untouched(t)
    BY <1>2, <1>3, <2>1, <2>2, <2>3 DEF Untouched
  <2> QED
    BY <1>1, <2>4, StaysAlike
<1>7. Enters(s, x)
  <2>1. Scheduled(s)' = <<>>
    BY <1>1 DEF Scheduled
  <2>2. Gives(e, s)
    BY <1>1, <1>2, <1>3 DEF Gives
  <2>3. /\ s \in subs
        /\ x # End => joined[s] < x /\ x <= emitted
        /\ Below(author, Elements(heard[s]), {x})
        /\ Below(author, Elements(queue[s]), {x})
        /\ \A f \in Emitter : s \in todo'[f] =>
             /\ s \in todo[f]
             /\ x # End /\ author[x] = f /\ carrying[f] # End => x < carrying[f]
        /\ \A n \in 1 .. emitted : /\ Carries(s, n)' \in {0, 1}
                                   /\ Carries(s, n) = Carries(s, n)' + In(n, {x})
    BY <1>1, <2>2, GivesIs DEF x
  <2>4. ASSUME NEW n \in 1 .. emitted
        PROVE  Times(n, Scheduled(s)) + Carries(s, n)
                     = Times(n, Scheduled(s)') + Carries(s, n)' + In(n, {x})
    <3>1. Times(n, Scheduled(s)) = 0 /\ Times(n, Scheduled(s)') = 0
      BY <1>1, <2>1, Nothing
    <3>2. In(n, {x}) \in {0, 1}
      BY DEF In
    <3> QED
      BY <2>3, <3>1, <3>2
  <2>5. /\ Below(author, {x}, Elements(Scheduled(s)'))
        /\ Elements(Scheduled(s)') \subseteq Elements(Scheduled(s))
        /\ Scheduled(s)' \in Seq(Item) /\ Sorted(author, Scheduled(s)')
    BY <2>1, Nothing DEF Below
  <2> QED
    BY <1>1, <1>2, <2>3, <2>4, <2>5 DEF Enters
<1>8. StreamInv(s)'
  BY <1>1, <1>7, EnterStep
<1> QED
  BY <1>4, <1>5, <1>6, <1>8 DEF IInv

(* The loop runs a callback that puts on the queue of an asynchronous      *)
(* stream.                                                                 *)
LEMMA RunCallbackStep ==
    ASSUME IInv, NEW s \in AsyncStream, RunCallback(s)
    PROVE  IInv'
<1> DEFINE c == callbacks[s]
           x == Head(c)
           d == Tail(c)
<1>1. /\ TypeOK /\ Own /\ \A t \in Stream : StreamInv(t)
      /\ s \in Stream /\ Scheduled(s) = c /\ c \in Seq(Item) /\ c # <<>>
      /\ callbacks \in [AsyncStream -> Seq(Item)]
  BY DEF IInv, Stream, RunCallback, Scheduled, TypeOK
<1>2. /\ callbacks' = [callbacks EXCEPT ![s] = d]
      /\ Enqueue(s, x)
      /\ UNCHANGED <<busVars, subs, deliveryVars, streamVars, heard, lastId>>
  BY DEF RunCallback
<1> HIDE DEF c
<1>3. /\ d \in Seq(Item) /\ x \in Item
      /\ Elements(c) = Elements(d) \cup {x}
      /\ Sorted(author, c) => Sorted(author, d) /\ Below(author, {x}, Elements(d))
      /\ \A n : Times(n, c) = Times(n, d) + In(n, {x})
  BY <1>1, Taken
<1> HIDE DEF d, x
<1>4. /\ UNCHANGED <<emitted, author, closed, stage, at, upto, joined, earlier, connects,
                     carrying, todo>>
      /\ Scheduled(s)' = d
  BY <1>1, <1>2 DEF busVars, streamVars, deliveryVars, Scheduled
<1>5. TypeOK'
  <2>1. /\ queue' \in [Stream -> Seq(Item)]
        /\ \A t \in Stream : Len(queue'[t]) <= QueueBound
        /\ lost' \in [Stream -> SUBSET Item]
        /\ mishaps' \in [Stream -> SUBSET Mishap]
    BY <1>1, <1>2, <1>3, EnqueueIs
  <2>2. callbacks' \in [AsyncStream -> Seq(Item)]
    BY <1>1, <1>2, <1>3
  <2> QED
    BY <1>1, <1>2, <1>4, <2>1, <2>2 DEF TypeOK
<1>6. Own'
  BY <1>1, <1>4 DEF Own
<1>7. ASSUME NEW t \in Stream \ {s} PROVE StreamInv(t)'
  <2>1. UNCHANGED <<queue[t], lost[t], mishaps[t]>>
    BY <1>1, <1>2, <1>3, EnqueueIs
  <2>2. UNCHANGED Scheduled(t)
    BY <1>1, <1>2 DEF Scheduled
  <2>3. Untouched(t)
    BY <1>2, <1>4, <2>1, <2>2 DEF Untouched
  <2> QED
    BY <1>1, <2>3, StaysAlike
<1>8. Enters(s, x)
  <2>1. s \in subs /\ stage[s] \in {"live", "over"}
    BY <1>1 DEF StreamInv, Present
  <2>2. x # End => joined[s] < x /\ x <= emitted
    BY <1>1, <1>3, <2>1 DEF StreamInv, Recent
  <2>3. /\ Below(author, Elements(heard[s]), {x})
        /\ Below(author, Elements(queue[s]), {x})
        /\ Below(author, {x}, Elements(d)) /\ Sorted(author, d)
    BY <1>1, <1>3 DEF StreamInv, Ordered, Below
  <2>4. \A e \in Emitter : s \in todo'[e] =>
          /\ s \in todo[e]
          /\ x # End /\ author[x] = e /\ carrying[e] # End => x < carrying[e]
    BY <1>1, <1>3, <1>4 DEF StreamInv, Ordered, Parts
  <2>5. ASSUME NEW n \in 1 .. emitted
        PROVE  /\ Carries(s, n)' \in {0, 1}
               /\ Times(n, Scheduled(s)) + Carries(s, n)
                     = Times(n, Scheduled(s)') + Carries(s, n)' + In(n, {x})
    <3>1. Carries(s, n)' = Carries(s, n) /\ Carries(s, n) \in {0, 1}
      BY <1>4 DEF Carries
    <3>2. Times(n, d) \in Nat /\ In(n, {x}) \in {0, 1}
      BY <1>3, TimesNatural DEF In
    <3>3. Times(n, Scheduled(s)) = Times(n, d) + In(n, {x})
      BY <1>1, <1>3
    <3>4. Times(n, Scheduled(s)') = Times(n, d)
      BY <1>4
    <3> QED
      BY <3>1, <3>2, <3>3, <3>4
  <2> QED
    BY <1>1, <1>2, <1>3, <1>4, <2>1, <2>2, <2>3, <2>4, <2>5 DEF Enters
<1>9. StreamInv(s)'
  BY <1>1, <1>8, EnterStep
<1> QED
  BY <1>5, <1>6, <1>7, <1>9 DEF IInv

(* What a scheduled or dropped item changes for a stream. *)
LEMMA ScheduleStep ==
    ASSUME IInv, NEW e \in Emitter, Schedule(e)
    PROVE  IInv'
<1> DEFINE x == carrying[e]
<1>1. /\ TypeOK /\ Own /\ \A t \in Stream : StreamInv(t)
      /\ todo[e] \subseteq AsyncStream /\ x \in Item
      /\ todo \in [Emitter -> SUBSET Stream]
      /\ callbacks \in [AsyncStream -> Seq(Item)]
      /\ lost \in [Stream -> SUBSET Item]
      /\ mishaps \in [Stream -> SUBSET Mishap]
      /\ AsyncStream \subseteq Stream
  BY Types DEF IInv, Stream, Schedule, TypeOK
<1>2. /\ todo' = [todo EXCEPT ![e] = {}]
      /\ UNCHANGED <<busVars, subs, carrying, queue, streamVars, heard, lastId>>
  BY DEF Schedule
<1>3. \/ /\ callbacks' = [s \in AsyncStream |->
                             IF s \in todo[e] THEN Append(callbacks[s], x)
                                              ELSE callbacks[s]]
         /\ UNCHANGED <<lost, mishaps>>
      \/ /\ lost' = [s \in Stream |-> IF s \in todo[e] THEN lost[s] \cup {x} ELSE lost[s]]
         /\ mishaps' = [s \in Stream |-> IF s \in todo[e] THEN mishaps[s] \cup {"dropped"}
                                                          ELSE mishaps[s]]
         /\ UNCHANGED callbacks
  BY DEF Schedule, Drop, Befalls
<1>4. UNCHANGED <<emitted, author, closed, stage, at, upto, joined, earlier, connects>>
  BY <1>2 DEF busVars, streamVars
<1> HIDE DEF x
<1>5. TypeOK'
  <2>1. todo' \in [Emitter -> SUBSET Stream]
    BY <1>1, <1>2
  <2>2. callbacks' \in [AsyncStream -> Seq(Item)]
    <3>1. \A s \in AsyncStream : Append(callbacks[s], x) \in Seq(Item)
      BY <1>1
    <3> QED
      BY <1>1, <1>3, <3>1
  <2>3. /\ lost' \in [Stream -> SUBSET Item]
        /\ mishaps' \in [Stream -> SUBSET Mishap]
    <3>1. CASE UNCHANGED <<lost, mishaps>>
      BY <1>1, <3>1
    <3>2. CASE /\ lost' = [s \in Stream |->
                              IF s \in todo[e] THEN lost[s] \cup {x} ELSE lost[s]]
               /\ mishaps' = [s \in Stream |->
                                 IF s \in todo[e] THEN mishaps[s] \cup {"dropped"}
                                                  ELSE mishaps[s]]
      <4>1. lost' \in [Stream -> SUBSET Item]
        BY <1>1, <3>2
      <4>2. mishaps' \in [Stream -> SUBSET Mishap]
        BY <1>1, <3>2 DEF Mishap
      <4> QED
        BY <4>1, <4>2
    <3> QED
      BY <1>3, <3>1, <3>2
  <2> QED
    BY <1>1, <1>2, <1>4, <2>1, <2>2, <2>3 DEF TypeOK
<1>6. Own'
  BY <1>1, <1>2, <1>4 DEF Own
<1>7. ASSUME NEW s \in Stream \ todo[e] PROVE StreamInv(s)'
  <2>1. UNCHANGED <<lost[s], mishaps[s], Scheduled(s)>>
    BY <1>1, <1>3 DEF Scheduled
  <2>2. \A f \in Emitter : s \in todo'[f] <=> s \in todo[f]
    BY <1>1, <1>2
  <2>3. Untouched(s)
    BY <1>2, <1>4, <2>1, <2>2 DEF Untouched
  <2> QED
    BY <1>1, <2>3, StaysAlike
<1>8. ASSUME NEW s \in todo[e] PROVE StreamInv(s)'
  <2> DEFINE c == Scheduled(s)
             d == Scheduled(s)'
  <2>1. Gives(e, s)
    BY <1>1, <1>2, <1>4 DEF Gives
  <2>2. /\ s \in Stream /\ s \in AsyncStream
        /\ s \in subs /\ stage[s] \in {"live", "over"} /\ StreamInv(s)
        /\ x # End => joined[s] < x /\ x <= emitted
        /\ Below(author, Elements(heard[s]), {x})
        /\ Below(author, Elements(queue[s]), {x})
        /\ Below(author, Elements(c), {x})
        /\ \A f \in Emitter : s \in todo'[f] =>
             /\ s \in todo[f]
             /\ x # End /\ author[x] = f /\ carrying[f] # End => x < carrying[f]
        /\ \A n \in 1 .. emitted : /\ Carries(s, n)' \in {0, 1}
                                   /\ Carries(s, n) = Carries(s, n)' + In(n, {x})
    BY <1>1, <2>1, GivesIs DEF x
  <2>3. /\ heard[s] \in Seq(Item) /\ queue[s] \in Seq(Item) /\ c \in Seq(Item)
        /\ emitted \in Nat /\ joined[s] \in Nat
    BY <1>1, <2>2, Types
  <2>4. \/ /\ d = Append(c, x)
           /\ UNCHANGED <<lost[s], mishaps[s]>>
        \/ /\ d = c
           /\ lost'[s] = lost[s] \cup {x}
           /\ "dropped" \in mishaps'[s]
    BY <1>1, <1>3, <2>2 DEF Scheduled
  <2> HIDE DEF c, d
  <2>5. /\ Elements(d) \subseteq Elements(c) \cup {x}
        /\ Sorted(author, d)
        /\ d \in Seq(Item)
    <3>1. Sorted(author, c)
      BY <2>2 DEF StreamInv, Ordered, c
    <3>2. /\ Append(c, x) \in Seq(Item)
          /\ Elements(Append(c, x)) = Elements(c) \cup {x}
          /\ Sorted(author, Append(c, x))
      BY <1>1, <2>2, <2>3, <3>1, Appended
    <3> QED
      BY <2>3, <2>4, <3>1, <3>2
  <2>6. Present(s)'
    BY <1>2, <1>4, <2>2 DEF StreamInv, Present
  <2>7. Recent(s)'
    <3>1. \A n \in Elements(queue[s]) \cup Elements(d) :
              n = End \/ (joined[s] < n /\ n <= emitted)
      BY <2>2, <2>5 DEF StreamInv, Recent, c
    <3>2. \A n \in lost'[s] : n = End \/ n <= emitted
      BY <2>2, <2>4 DEF StreamInv, Recent
    <3> QED
      BY <1>2, <1>4, <2>2, <3>1, <3>2 DEF StreamInv, Recent, d
  <2>8. Ordered(s)'
    <3>1. /\ Below(author, Elements(heard[s]), Elements(d))
          /\ Below(author, Elements(queue[s]), Elements(d))
      BY <2>2, <2>5 DEF StreamInv, Ordered, Below, c
    <3>2. ASSUME NEW f \in Emitter, s \in todo'[f], carrying[f] # End,
                 NEW m \in Parts(s)', m # End, author[m] = f
          PROVE  m < carrying[f]
      <4>1. m \in Parts(s) \/ m = x
        BY <1>2, <2>5 DEF Parts, c, d
      <4> QED
        BY <2>2, <3>2, <4>1 DEF StreamInv, Ordered
    <3> QED
      BY <1>2, <1>4, <2>2, <2>5, <3>1, <3>2 DEF StreamInv, Ordered, d
  <2>9. Accounted(s)'
    <3> SUFFICES ASSUME NEW n \in joined[s] + 1 .. emitted PROVE Count(s, n)' = 1
      BY <1>4 DEF Accounted
    <3>1. Count(s, n) = 1 /\ n \in 1 .. emitted
      BY <2>2, <2>3 DEF StreamInv, Accounted
    <3>2. /\ Times(n, heard[s]) \in Nat /\ Times(n, queue[s]) \in Nat
          /\ Times(n, c) \in Nat /\ Times(n, d) \in Nat
          /\ In(n, {x}) \in {0, 1} /\ In(n, lost[s]) \in {0, 1}
          /\ Carries(s, n)' \in {0, 1}
          /\ Carries(s, n) = Carries(s, n)' + In(n, {x})
      BY <2>2, <2>3, <2>5, <3>1, TimesNatural DEF In
    <3>3. Count(s, n) = Times(n, heard[s]) + Times(n, queue[s]) + Times(n, c)
                        + Carries(s, n) + In(n, lost[s])
      BY DEF Count, c
    <3>4. Times(n, d) + In(n, lost'[s]) = Times(n, c) + In(n, lost[s]) + In(n, {x})
      <4>1. CASE d = Append(c, x) /\ UNCHANGED lost[s]
        <5>1. Times(n, Append(c, x)) = Times(n, c) + In(n, {x})
          BY <1>1, <2>3, Appended
        <5> QED
          BY <3>2, <4>1, <5>1
      <4>2. CASE d = c /\ lost'[s] = lost[s] \cup {x}
        <5>1. n = x => In(n, {x}) = 1
          BY DEF In
        <5>2. n \in lost[s] => In(n, lost[s]) = 1
          BY DEF In
        <5>3. n = x => n \notin lost[s]
          BY <3>1, <3>2, <3>3, <5>1, <5>2
        <5>4. In(n, lost'[s]) = In(n, lost[s]) + In(n, {x})
          BY <4>2, <5>3 DEF In
        <5> QED
          BY <3>2, <4>2, <5>4
      <4> QED
        BY <2>4, <4>1, <4>2
    <3>5. Count(s, n)' = Times(n, heard[s]) + Times(n, queue[s]) + Times(n, d)
                         + Carries(s, n)' + In(n, lost'[s])
      BY <1>2 DEF Count, d
    <3>6. In(n, lost'[s]) \in {0, 1}
      BY DEF In
    <3> QED
      BY <3>1, <3>2, <3>3, <3>4, <3>5, <3>6
  <2>10. Complete(s)'
    BY <1>2, <1>4, <2>2, <2>4 DEF StreamInv, Complete, Had
  <2> QED
    BY <2>6, <2>7, <2>8, <2>9, <2>10 DEF StreamInv
<1>9. todo[e] \subseteq Stream
  BY <1>1
<1> QED
  BY <1>5, <1>6, <1>7, <1>8, <1>9 DEF IInv

-----------------------------------------------------------------------------
(* The bus's own steps. *)

(* The parts of a stream hold emitted events and the sentinel only. *)
LEMMA PartsAre ==
    ASSUME TypeOK, NEW s \in Stream, StreamInv(s)
    PROVE  Parts(s) \subseteq (1 .. emitted) \cup {End}
<1>1. emitted \in Nat /\ joined[s] \in Nat
  BY Types
<1>2. CASE s \notin subs
  BY <1>1, <1>2, Nothing DEF StreamInv, Present, Recent, Parts
<1>3. CASE s \in subs
  <2>1. stage[s] \in {"live", "over"}
    BY <1>3 DEF StreamInv, Present
  <2>2. /\ Elements(heard[s]) \subseteq 1 .. emitted
        /\ \A n \in Elements(queue[s]) \cup Elements(Scheduled(s)) :
              n = End \/ (joined[s] < n /\ n <= emitted)
    BY <2>1 DEF StreamInv, Recent
  <2>3. \A n \in Elements(queue[s]) \cup Elements(Scheduled(s)) : n \in Nat
    <3>1. queue[s] \in Seq(Item) /\ Scheduled(s) \in Seq(Item) /\ Item \subseteq Nat
      BY Types DEF Item, Event, End
    <3>2. \A i \in DOMAIN queue[s] : queue[s][i] \in Item
      BY <3>1
    <3>3. \A i \in DOMAIN Scheduled(s) : Scheduled(s)[i] \in Item
      BY <3>1
    <3> QED
      BY <3>1, <3>2, <3>3 DEF Elements
  <2> QED
    BY <1>1, <2>2, <2>3 DEF Parts
<1> QED
  BY <1>2, <1>3

(* An emitter takes a snapshot of the subscribers. *)
LEMMA EmitStep ==
    ASSUME IInv, NEW e \in Emitter, Emit(e)
    PROVE  IInv'
<1> DEFINE k == emitted + 1
<1>1. /\ TypeOK /\ Own /\ \A t \in Stream : StreamInv(t)
      /\ author \in [1 .. emitted -> Emitter] /\ emitted \in Nat
      /\ carrying \in [Emitter -> Item] /\ todo \in [Emitter -> SUBSET Stream]
      /\ MaxEvents \in Nat /\ subs \subseteq Stream
  BY Types DEF IInv, TypeOK
<1>2. /\ todo[e] = {} /\ ~closed /\ k <= MaxEvents
      /\ emitted' = k
      /\ author' = Append(author, e)
      /\ carrying' = [carrying EXCEPT ![e] = k]
      /\ todo' = [todo EXCEPT ![e] = subs]
      /\ UNCHANGED <<closed, subs, callbacks, queue, streamVars, heard, lastId,
                     lost, mishaps>>
  BY <1>1 DEF Emit, Idle
<1>3. /\ author' \in [1 .. k -> Emitter]
      /\ \A m \in 1 .. emitted : author'[m] = author[m]
      /\ author'[k] = e
  <2>1. author \in Seq(Emitter) /\ Len(author) = emitted
    BY <1>1
  <2>2. /\ Append(author, e) \in Seq(Emitter)
        /\ Len(Append(author, e)) = emitted + 1
        /\ \A m \in 1 .. emitted : Append(author, e)[m] = author[m]
        /\ Append(author, e)[emitted + 1] = e
    BY <1>1, <2>1, AppendIs
  <2>3. Append(author, e) \in [1 .. emitted + 1 -> Emitter]
    BY <2>2, LenProperties
  <2> QED
    BY <1>2, <2>2, <2>3
<1>4. /\ k \in 1 .. MaxEvents /\ k \in Item /\ k # End /\ k \in Nat
      /\ k = emitted + 1
  BY <1>1, <1>2 DEF Item, Event, End
<1>5. /\ UNCHANGED <<stage, at, upto, joined, earlier, connects>>
      /\ \A s \in Stream : UNCHANGED Scheduled(s)
  BY <1>2 DEF streamVars, Scheduled
<1> HIDE DEF k
<1>6. TypeOK'
  <2>1. carrying' \in [Emitter -> Item] /\ todo' \in [Emitter -> SUBSET Stream]
    BY <1>1, <1>2, <1>4
  <2>2. emitted' \in 0 .. MaxEvents /\ author' \in [1 .. emitted' -> Emitter]
    BY <1>2, <1>3, <1>4
  <2> QED
    BY <1>1, <1>2, <1>5, <2>1, <2>2 DEF TypeOK
<1>7. Own'
  BY <1>1, <1>2, <1>3, <1>4 DEF Own
<1>8. ASSUME NEW s \in Stream PROVE StreamInv(s)'
  <2>1. /\ StreamInv(s) /\ Parts(s) \subseteq (1 .. emitted) \cup {End}
        /\ joined[s] \in Nat /\ upto[s] \in Nat
        /\ heard[s] \in Seq(Item) /\ queue[s] \in Seq(Item)
        /\ Scheduled(s) \in Seq(Item)
    BY <1>1, PartsAre, Types
  <2>2. Parts(s)' = Parts(s)
    BY <1>2, <1>5 DEF Parts
  <2>3. /\ \A f \in Emitter \ {e} : /\ carrying'[f] = carrying[f]
                                    /\ todo'[f] = todo[f]
        /\ carrying'[e] = k /\ todo'[e] = subs
    BY <1>1, <1>2
  <2>4. Present(s)'
    BY <1>2, <1>5, <2>1, <2>3 DEF StreamInv, Present
  <2>5. Recent(s)'
    <3>1. joined[s] <= k /\ upto[s] <= k
      BY <1>1, <1>4, <2>1 DEF StreamInv, Recent
    <3>2. Elements(heard[s]) \subseteq 1 .. k
      BY <1>1, <1>4, <2>1 DEF StreamInv, Recent
    <3>3. stage[s] \in {"live", "over"} =>
            \A n \in Elements(queue[s]) \cup Elements(Scheduled(s)) :
              n = End \/ (joined[s] < n /\ n <= k)
      <4>1. \A n \in Elements(queue[s]) \cup Elements(Scheduled(s)) :
                n = End \/ n \in 1 .. emitted
        BY <2>1 DEF Parts
      <4> QED
        BY <1>1, <1>4, <2>1, <4>1 DEF StreamInv, Recent
    <3>4. \A n \in lost[s] : n = End \/ n <= k
      <4>1. \A n \in lost[s] : n \in Nat
        BY <1>1, Types DEF Item, Event, End
      <4> QED
        BY <1>1, <1>4, <2>1, <4>1 DEF StreamInv, Recent
    <3>5. \A f \in Emitter : s \in todo'[f] /\ carrying'[f] # End
              => joined[s] < carrying'[f]
      <4>1. /\ joined[s] <= emitted
            /\ \A f \in Emitter : s \in todo[f] /\ carrying[f] # End
                  => joined[s] < carrying[f]
        BY <2>1 DEF StreamInv, Recent
      <4>2. joined[s] < carrying'[e]
        BY <1>1, <1>4, <2>1, <2>3, <4>1
      <4> QED
        BY <2>3, <4>1, <4>2
    <3>6. /\ emitted' = k
          /\ UNCHANGED <<stage[s], at[s], upto[s], joined[s], heard[s], queue[s], lost[s]>>
          /\ Scheduled(s)' = Scheduled(s)
      BY <1>2, <1>5
    <3>7. /\ 1 <= at[s]
          /\ stage[s] = "replaying" =>
                \A n \in Elements(heard[s]) : n < at[s] /\ n <= upto[s]
      BY <2>1 DEF StreamInv, Recent
    <3>8. Elements(heard[s])' = Elements(heard[s]) /\ Elements(queue[s])' = Elements(queue[s])
          /\ Elements(Scheduled(s))' = Elements(Scheduled(s))
      <4>1. Elements(heard[s])' = Elements(heard[s])
        BY <3>6 DEF Elements
      <4>2. Elements(queue[s])' = Elements(queue[s])
        BY <3>6 DEF Elements
      <4>3. Elements(Scheduled(s))' = Elements(Scheduled(s))
        BY <3>6 DEF Elements
      <4> QED
        BY <4>1, <4>2, <4>3
    <3>9. (/\ joined[s] <= emitted /\ upto[s] <= emitted /\ 1 <= at[s]
           /\ Elements(heard[s]) \subseteq 1 .. emitted)'
      BY <3>1, <3>2, <3>6, <3>7, <3>8
    <3>10. (stage[s] = "replaying" =>
               \A n \in Elements(heard[s]) : n < at[s] /\ n <= upto[s])'
      BY <3>6, <3>7, <3>8
    <3>11. (stage[s] \in {"live", "over"} =>
               \A n \in Elements(queue[s]) \cup Elements(Scheduled(s)) :
                   n = End \/ (joined[s] < n /\ n <= emitted))'
      BY <3>3, <3>6, <3>8
    <3>12. (\A n \in lost[s] : n = End \/ n <= emitted)'
      BY <3>4, <3>6
    <3>13. (\A f \in Emitter : s \in todo[f] /\ carrying[f] # End
               => joined[s] < carrying[f])'
      BY <3>5, <3>6
    <3> QED
      BY <3>9, <3>10, <3>11, <3>12, <3>13 DEF Recent
  <2>6. Ordered(s)'
    <3>1. \A u \in {heard[s], queue[s], Scheduled(s)} :
              Sorted(author, u) => Sorted(author', u)
      <4> SUFFICES ASSUME NEW u \in {heard[s], queue[s], Scheduled(s)},
                          Sorted(author, u)
                   PROVE  Sorted(author', u)
        OBVIOUS
      <4>1. \A i \in DOMAIN u : u[i] # End => author'[u[i]] = author[u[i]]
        <5>1. \A i \in DOMAIN u : u[i] \in Parts(s)
          BY DEF Parts, Elements
        <5> QED
          BY <1>3, <2>1, <5>1
      <4> QED
        BY <4>1 DEF Sorted
    <3>2. \A A, B \in SUBSET Parts(s) : Below(author, A, B) => Below(author', A, B)
      BY <1>3, <2>1 DEF Below
    <3>3. ASSUME NEW f \in Emitter, s \in todo'[f], carrying'[f] # End,
                 NEW m \in Parts(s), m # End, author'[m] = f
          PROVE  m < carrying'[f]
      <4>1. m \in 1 .. emitted /\ author[m] = f
        BY <1>3, <2>1, <3>3
      <4>2. CASE f = e
        BY <1>1, <1>4, <2>3, <4>1, <4>2
      <4>3. CASE f # e
        BY <2>1, <2>3, <3>3, <4>1, <4>3 DEF StreamInv, Ordered
      <4> QED
        BY <4>2, <4>3
    <3>4. /\ Elements(heard[s]) \in SUBSET Parts(s)
          /\ Elements(queue[s]) \in SUBSET Parts(s)
          /\ Elements(Scheduled(s)) \in SUBSET Parts(s)
      BY DEF Parts
    <3>5. /\ Sorted(author', heard[s]) /\ Sorted(author', queue[s])
          /\ Sorted(author', Scheduled(s))
          /\ Below(author', Elements(heard[s]), Elements(queue[s]))
          /\ Below(author', Elements(heard[s]), Elements(Scheduled(s)))
          /\ Below(author', Elements(queue[s]), Elements(Scheduled(s)))
      BY <2>1, <3>1, <3>2, <3>4 DEF StreamInv, Ordered
    <3> QED
      BY <1>2, <1>5, <2>2, <3>3, <3>5 DEF Ordered
  <2>7. Accounted(s)'
    <3> SUFFICES ASSUME stage[s] \in {"live", "over"}, NEW n \in joined[s] + 1 .. k
                 PROVE  Count(s, n)' = 1
      BY <1>2, <1>5 DEF Accounted
    <3>1. Count(s, n)' = Times(n, heard[s]) + Times(n, queue[s])
                         + Times(n, Scheduled(s)) + Carries(s, n)' + In(n, lost[s])
      BY <1>2, <1>5 DEF Count
    <3>2. CASE n <= emitted
      <4>1. n \in joined[s] + 1 .. emitted /\ n \in 1 .. emitted /\ n # k
        BY <1>1, <1>4, <2>1, <3>2
      <4>2. author'[n] = author[n] /\ author[n] \in Emitter
        BY <1>1, <1>3, <4>1
      <4>3. Carries(s, n)' = Carries(s, n)
        BY <1>2, <2>3, <4>1, <4>2 DEF Carries
      <4>4. Count(s, n) = 1
        BY <2>1, <4>1 DEF StreamInv, Accounted
      <4> QED
        BY <3>1, <4>3, <4>4 DEF Count
    <3>3. CASE n = k
      <4>1. n \notin Parts(s) /\ n \notin lost[s]
        BY <1>1, <1>4, <2>1, <3>3 DEF StreamInv, Recent
      <4>2. /\ Times(n, heard[s]) = 0 /\ Times(n, queue[s]) = 0
            /\ Times(n, Scheduled(s)) = 0 /\ In(n, lost[s]) = 0
        BY <2>1, <4>1, TimesNatural DEF Parts, In
      <4>3. s \in subs
        BY <1>2, <2>1 DEF StreamInv, Present
      <4>4. Carries(s, n)' = 1
        BY <1>3, <2>3, <3>3, <4>3 DEF Carries
      <4> QED
        BY <3>1, <4>2, <4>4
    <3> QED
      BY <1>1, <1>4, <2>1, <3>2, <3>3
  <2>8. Complete(s)'
    BY <1>2, <1>5, <2>1 DEF StreamInv, Complete, Had
  <2> QED
    BY <2>4, <2>5, <2>6, <2>7, <2>8 DEF StreamInv
<1> QED
  BY <1>6, <1>7, <1>8 DEF IInv

(* Closing hands the sentinel to all subscribers. *)
LEMMA CloseStep ==
    ASSUME IInv, NEW e \in Emitter, Close(e)
    PROVE  IInv'
<1>1. /\ TypeOK /\ Own /\ \A t \in Stream : StreamInv(t)
      /\ carrying \in [Emitter -> Item] /\ todo \in [Emitter -> SUBSET Stream]
      /\ subs \subseteq Stream /\ End \in Item
  BY Types DEF IInv, TypeOK
<1>2. /\ todo[e] = {} /\ closed' = TRUE
      /\ carrying' = [carrying EXCEPT ![e] = End]
      /\ todo' = [todo EXCEPT ![e] = subs]
      /\ UNCHANGED <<emitted, author, subs, callbacks, queue, streamVars, heard,
                     lastId, lost, mishaps>>
  BY DEF Close, Idle
<1>3. /\ UNCHANGED <<stage, at, upto, joined, earlier, connects>>
      /\ \A s \in Stream : UNCHANGED Scheduled(s)
      /\ \A f \in Emitter \ {e} : carrying'[f] = carrying[f] /\ todo'[f] = todo[f]
      /\ carrying'[e] = End /\ todo'[e] = subs
  BY <1>1, <1>2 DEF streamVars, Scheduled
<1>4. TypeOK'
  <2>1. carrying' \in [Emitter -> Item] /\ todo' \in [Emitter -> SUBSET Stream]
    BY <1>1, <1>2
  <2>2. closed' \in BOOLEAN
    BY <1>2
  <2> QED
    BY <1>1, <1>2, <1>3, <2>1, <2>2 DEF TypeOK
<1>5. Own'
  BY <1>1, <1>2, <1>3 DEF Own
<1>6. ASSUME NEW s \in Stream PROVE StreamInv(s)'
  <2>1. StreamInv(s)
    BY <1>1
  <2>2. Present(s)'
    BY <1>2, <1>3, <2>1 DEF StreamInv, Present
  <2>3. Recent(s)'
    BY <1>2, <1>3, <2>1 DEF StreamInv, Recent
  <2>4. Ordered(s)'
    BY <1>2, <1>3, <2>1 DEF StreamInv, Ordered, Parts
  <2>5. Accounted(s)'
    <3> SUFFICES ASSUME stage[s] \in {"live", "over"}, NEW n \in joined[s] + 1 .. emitted
                 PROVE  Count(s, n)' = 1
      BY <1>2, <1>3 DEF Accounted
    <3>1. author[n] \in Emitter /\ n # End
      BY <1>1, Types DEF End
    <3>2. Carries(s, n)' = Carries(s, n)
      BY <1>2, <1>3, <3>1 DEF Carries
    <3>3. Count(s, n)' = Count(s, n)
      BY <1>2, <1>3, <3>2 DEF Count
    <3> QED
      BY <2>1, <3>3 DEF StreamInv, Accounted
  <2>6. Complete(s)'
    BY <1>2, <1>3, <2>1 DEF StreamInv, Complete, Had
  <2> QED
    BY <2>2, <2>3, <2>4, <2>5, <2>6 DEF StreamInv
<1> QED
  BY <1>4, <1>5, <1>6 DEF IInv

-----------------------------------------------------------------------------
(* The steps of a stream. *)

(* A stream that has not subscribed has nothing under way. *)
LEMMA Absent ==
    ASSUME TypeOK, NEW s \in Stream, StreamInv(s), stage[s] \in {"away", "replaying"}
    PROVE  /\ s \notin subs /\ queue[s] = <<>> /\ Scheduled(s) = <<>> /\ lost[s] = {}
           /\ \A e \in Emitter : s \notin todo[e]
           /\ Elements(queue[s]) = {} /\ Elements(Scheduled(s)) = {}
           /\ Parts(s) = Elements(heard[s])
<1>1. /\ s \notin subs /\ queue[s] = <<>> /\ Scheduled(s) = <<>> /\ lost[s] = {}
      /\ \A e \in Emitter : s \notin todo[e]
  BY DEF StreamInv, Present
<1> QED
  BY <1>1, Nothing DEF Parts

(* A client connects. *)
LEMMA ConnectStep ==
    ASSUME IInv, NEW s \in Stream, Connect(s)
    PROVE  IInv'
<1>1. /\ TypeOK /\ Own /\ \A t \in Stream : StreamInv(t)
      /\ emitted \in 0 .. MaxEvents /\ lastId \in [Stream -> 0 .. MaxEvents]
      /\ stage \in [Stream -> {"away", "replaying", "live", "over"}]
      /\ at \in [Stream -> Nat] /\ upto \in [Stream -> 0 .. MaxEvents]
      /\ mishaps \in [Stream -> SUBSET Mishap] /\ connects \in 0 .. MaxConnects
      /\ MaxConnects \in Nat /\ MaxEvents \in Nat /\ BufferBound \in Nat
  BY BusAssumption DEF IInv, TypeOK
<1>2. /\ stage[s] = "away" /\ connects < MaxConnects /\ connects' = connects + 1
      /\ stage' = [stage EXCEPT ![s] = "replaying"]
      /\ at' = [at EXCEPT ![s] = FirstToReplay(s)]
      /\ upto' = [upto EXCEPT ![s] = emitted]
      /\ IF OldestBuffered > lastId[s] + 1 THEN Befalls({s}, "evicted")
                                           ELSE UNCHANGED mishaps
      /\ UNCHANGED <<emitted, author, closed, subs, carrying, todo, callbacks, queue,
                     joined, heard, earlier, lastId, lost>>
  BY DEF Connect, Goto, busVars, deliveryVars
<1>3. /\ OldestBuffered \in Nat \ {0} /\ FirstToReplay(s) \in Nat \ {0}
      /\ ~(OldestBuffered > lastId[s] + 1) => FirstToReplay(s) = lastId[s] + 1
  BY <1>1 DEF OldestBuffered, FirstToReplay, Bigger
<1>4. /\ mishaps' \in [Stream -> SUBSET Mishap]
      /\ \A t \in Stream \ {s} : mishaps'[t] = mishaps[t]
      /\ mishaps'[s] = {} => mishaps[s] = {} /\ ~(OldestBuffered > lastId[s] + 1)
  <2>1. CASE OldestBuffered > lastId[s] + 1
    <3>1. mishaps' = [t \in Stream |-> IF t \in {s} THEN mishaps[t] \cup {"evicted"}
                                                    ELSE mishaps[t]]
      BY <1>2, <2>1 DEF Befalls
    <3> QED
      BY <1>1, <3>1 DEF Mishap
  <2>2. CASE ~(OldestBuffered > lastId[s] + 1)
    BY <1>1, <1>2, <2>2
  <2> QED
    BY <2>1, <2>2
<1>5. /\ stage'[s] = "replaying" /\ at'[s] = FirstToReplay(s) /\ upto'[s] = emitted
      /\ \A t \in Stream \ {s} : UNCHANGED <<stage[t], at[t], upto[t]>>
      /\ \A t \in Stream : UNCHANGED Scheduled(t)
  BY <1>1, <1>2 DEF Scheduled
<1>6. TypeOK'
  <2>1. /\ connects' \in 0 .. MaxConnects
        /\ stage' \in [Stream -> {"away", "replaying", "live", "over"}]
        /\ at' \in [Stream -> Nat] /\ upto' \in [Stream -> 0 .. MaxEvents]
    BY <1>1, <1>2, <1>3
  <2> QED
    BY <1>1, <1>2, <1>4, <2>1 DEF TypeOK
<1>7. Own'
  BY <1>1, <1>2 DEF Own
<1>8. ASSUME NEW t \in Stream \ {s} PROVE StreamInv(t)'
  <2>1. Untouched(t)
    BY <1>2, <1>4, <1>5 DEF Untouched
  <2> QED
    BY <1>1, <2>1, StaysAlike
<1>9. StreamInv(s)'
  <2>1. /\ StreamInv(s) /\ heard[s] = <<>> /\ Elements(heard[s]) = {}
        /\ s \notin subs /\ queue[s] = <<>> /\ Scheduled(s) = <<>> /\ lost[s] = {}
        /\ \A e \in Emitter : s \notin todo[e]
        /\ joined[s] <= emitted
    BY <1>1, <1>2, Absent, Nothing DEF StreamInv, Present, Recent
  <2>2. Present(s)'
    BY <1>2, <1>5, <2>1 DEF Present
  <2>3. Recent(s)'
    BY <1>1, <1>2, <1>3, <1>5, <2>1 DEF Recent
  <2>4. Ordered(s)'
    BY <1>2, <1>5, <2>1 DEF StreamInv, Ordered, Parts
  <2>5. Accounted(s)'
    BY <1>5 DEF Accounted
  <2>6. Complete(s)'
    BY <1>2, <1>3, <1>4, <1>5, <2>1 DEF StreamInv, Complete, Had
  <2> QED
    BY <2>2, <2>3, <2>4, <2>5, <2>6 DEF StreamInv
<1> QED
  BY <1>6, <1>7, <1>8, <1>9 DEF IInv

(* A client is replayed the buffer. *)
LEMMA ReplayStep ==
    ASSUME IInv, NEW s \in Stream, Replay(s)
    PROVE  IInv'
<1> DEFINE x == at[s]
<1>1. /\ TypeOK /\ Own /\ \A t \in Stream : StreamInv(t)
      /\ emitted \in 0 .. MaxEvents /\ lastId \in [Stream -> 0 .. MaxEvents]
      /\ at \in [Stream -> Nat] /\ upto \in [Stream -> 0 .. MaxEvents]
      /\ heard \in [Stream -> Seq(Event)] /\ MaxEvents \in Nat
  BY BusAssumption DEF IInv, TypeOK
<1>2. /\ stage[s] = "replaying" /\ x <= upto[s]
      /\ heard' = [heard EXCEPT ![s] = Append(heard[s], x)]
      /\ lastId' = [lastId EXCEPT ![s] = x]
      /\ at' = [at EXCEPT ![s] = x + 1]
      /\ UNCHANGED <<emitted, author, closed, subs, carrying, todo, callbacks, queue,
                     stage, upto, joined, earlier, connects, lost, mishaps>>
  BY DEF Replay, Yield, busVars, deliveryVars
<1>3. /\ x \in 1 .. emitted /\ x \in Event /\ x \in Item /\ x # End /\ x <= upto[s]
      /\ upto[s] \in Nat
  BY <1>1, <1>2 DEF StreamInv, Recent, Event, Item, End
<1> HIDE DEF x
<1>4. /\ heard'[s] = Append(heard[s], x) /\ lastId'[s] = x /\ at'[s] = x + 1
      /\ \A t \in Stream \ {s} : UNCHANGED <<heard[t], lastId[t], at[t]>>
      /\ \A t \in Stream : UNCHANGED Scheduled(t)
  BY <1>1, <1>2 DEF Scheduled
<1>5. TypeOK'
  <2>1. Append(heard[s], x) \in Seq(Event)
    BY <1>1, <1>3
  <2>2. /\ heard' \in [Stream -> Seq(Event)]
        /\ lastId' \in [Stream -> 0 .. MaxEvents] /\ at' \in [Stream -> Nat]
    BY <1>1, <1>2, <1>3, <2>1
  <2> QED
    BY <1>1, <1>2, <2>2 DEF TypeOK
<1>6. Own'
  BY <1>1, <1>2 DEF Own
<1>7. ASSUME NEW t \in Stream \ {s} PROVE StreamInv(t)'
  <2>1. Untouched(t)
    BY <1>2, <1>4 DEF Untouched
  <2> QED
    BY <1>1, <2>1, StaysAlike
<1>8. StreamInv(s)'
  <2>1. /\ StreamInv(s) /\ heard[s] \in Seq(Item)
        /\ s \notin subs /\ queue[s] = <<>> /\ Scheduled(s) = <<>> /\ lost[s] = {}
        /\ Elements(queue[s]) = {} /\ Elements(Scheduled(s)) = {}
        /\ \A e \in Emitter : s \notin todo[e]
    BY <1>1, <1>2, Absent, Types
  <2>2. /\ \A n \in Elements(heard[s]) : n \in Nat /\ n < x /\ n <= upto[s]
        /\ Elements(heard[s]) \subseteq 1 .. emitted
    BY <1>1, <1>2, <2>1 DEF StreamInv, Recent, x
  <2>3. /\ Elements(heard'[s]) = Elements(heard[s]) \cup {x}
        /\ Sorted(author, heard'[s])
    <3>1. Sorted(author, heard[s]) /\ Below(author, Elements(heard[s]), {x})
      BY <2>1, <2>2 DEF StreamInv, Ordered, Below
    <3>2. /\ Elements(Append(heard[s], x)) = Elements(heard[s]) \cup {x}
          /\ Sorted(author, Append(heard[s], x))
      BY <1>3, <2>1, <3>1, Appended
    <3> QED
      BY <1>4, <3>2
  <2>4. Present(s)'
    BY <1>2, <1>4, <2>1 DEF StreamInv, Present
  <2>5. Recent(s)'
    <3>1. \A n \in Elements(heard'[s]) : n < x + 1 /\ n <= upto[s] /\ n \in 1 .. emitted
      BY <1>1, <1>3, <2>2, <2>3
    <3>2. 1 <= x + 1
      BY <1>3
    <3> QED
      BY <1>1, <1>2, <1>4, <2>1, <3>1, <3>2 DEF StreamInv, Recent
  <2>6. Ordered(s)'
    BY <1>2, <1>4, <2>1, <2>3 DEF StreamInv, Ordered, Below
  <2>7. Accounted(s)'
    BY <1>2 DEF Accounted
  <2>8. Complete(s)'
    <3> SUFFICES ASSUME mishaps[s] = {}
                 PROVE  \A n \in 1 .. x : n \in earlier[s] \cup Elements(heard'[s])
      BY <1>2, <1>4, <2>1 DEF StreamInv, Complete, Had
    <3>1. x = lastId[s] + 1 /\ \A n \in 1 .. lastId[s] : n \in Had(s)
      BY <1>2, <2>1 DEF StreamInv, Complete, x
    <3>2. lastId[s] \in Nat
      BY <1>1
    <3>3. \A n \in 1 .. x : n = x \/ n \in 1 .. lastId[s]
      BY <3>1, <3>2
    <3> QED
      BY <2>3, <3>1, <3>3 DEF Had
  <2> QED
    BY <2>4, <2>5, <2>6, <2>7, <2>8 DEF StreamInv
<1> QED
  BY <1>5, <1>6, <1>7, <1>8 DEF IInv

(* A stream subscribes after its replay. *)
LEMMA SubscribeStep ==
    ASSUME IInv, NEW s \in Stream, Subscribe(s)
    PROVE  IInv'
<1>1. /\ TypeOK /\ Own /\ \A t \in Stream : StreamInv(t)
      /\ emitted \in 0 .. MaxEvents /\ lastId \in [Stream -> 0 .. MaxEvents]
      /\ stage \in [Stream -> {"away", "replaying", "live", "over"}]
      /\ at \in [Stream -> Nat] /\ upto \in [Stream -> 0 .. MaxEvents]
      /\ joined \in [Stream -> 0 .. MaxEvents] /\ subs \subseteq Stream
      /\ mishaps \in [Stream -> SUBSET Mishap] /\ MaxEvents \in Nat
  BY BusAssumption DEF IInv, TypeOK
<1>2. /\ stage[s] = "replaying" /\ at[s] > upto[s]
      /\ joined' = [joined EXCEPT ![s] = emitted]
      /\ IF emitted > upto[s] THEN Befalls({s}, "gap") ELSE UNCHANGED mishaps
      /\ \/ /\ closed /\ stage' = [stage EXCEPT ![s] = "over"] /\ subs' = subs
         \/ /\ stage' = [stage EXCEPT ![s] = "live"] /\ subs' = subs \cup {s}
      /\ UNCHANGED <<emitted, author, closed, carrying, todo, callbacks, queue, at,
                     upto, heard, earlier, connects, lastId, lost>>
  BY DEF Subscribe, Goto, busVars, deliveryVars
<1>3. /\ joined'[s] = emitted
      /\ \/ closed /\ stage'[s] = "over" /\ s \notin subs'
         \/ stage'[s] = "live" /\ s \in subs'
      /\ \A t \in Stream \ {s} : UNCHANGED <<joined[t], stage[t]>>
      /\ \A t \in Stream \ {s} : t \in subs' <=> t \in subs
      /\ \A t \in Stream : UNCHANGED Scheduled(t)
  BY <1>1, <1>2, Absent DEF Scheduled
<1>4. /\ mishaps' \in [Stream -> SUBSET Mishap]
      /\ \A t \in Stream \ {s} : mishaps'[t] = mishaps[t]
      /\ mishaps'[s] = {} => mishaps[s] = {} /\ emitted <= upto[s]
  <2>1. CASE emitted > upto[s]
    <3>1. mishaps' = [t \in Stream |-> IF t \in {s} THEN mishaps[t] \cup {"gap"}
                                                    ELSE mishaps[t]]
      BY <1>2, <2>1 DEF Befalls
    <3> QED
      BY <1>1, <3>1 DEF Mishap
  <2>2. CASE ~(emitted > upto[s])
    BY <1>1, <1>2, <2>2
  <2> QED
    BY <2>1, <2>2
<1>5. TypeOK'
  <2>1. /\ stage' \in [Stream -> {"away", "replaying", "live", "over"}]
        /\ joined' \in [Stream -> 0 .. MaxEvents] /\ subs' \subseteq Stream
    BY <1>1, <1>2
  <2> QED
    BY <1>1, <1>2, <1>4, <2>1 DEF TypeOK
<1>6. Own'
  BY <1>1, <1>2 DEF Own
<1>7. ASSUME NEW t \in Stream \ {s} PROVE StreamInv(t)'
  <2>1. Untouched(t)
    BY <1>2, <1>3, <1>4 DEF Untouched
  <2> QED
    BY <1>1, <2>1, StaysAlike
<1>8. StreamInv(s)'
  <2>1. /\ StreamInv(s)
        /\ s \notin subs /\ queue[s] = <<>> /\ Scheduled(s) = <<>> /\ lost[s] = {}
        /\ Elements(queue[s]) = {} /\ Elements(Scheduled(s)) = {}
        /\ \A e \in Emitter : s \notin todo[e]
    BY <1>1, <1>2, Absent
  <2>2. Present(s)'
    BY <1>2, <1>3, <2>1 DEF Present
  <2>3. Recent(s)'
    BY <1>1, <1>2, <1>3, <2>1 DEF StreamInv, Recent
  <2>4. Ordered(s)'
    BY <1>2, <1>3, <2>1 DEF StreamInv, Ordered, Parts
  <2>5. Accounted(s)'
    BY <1>1, <1>2, <1>3 DEF Accounted
  <2>6. Complete(s)'
    <3> SUFFICES ASSUME mishaps'[s] = {}
                 PROVE  /\ \A n \in 1 .. lastId[s] : n \in Had(s)
                        /\ \A n \in 1 .. emitted : n \in Had(s)
      BY <1>2, <1>3, <2>1 DEF Complete, Had
    <3>1. at[s] = lastId[s] + 1 /\ \A n \in 1 .. lastId[s] : n \in Had(s)
      BY <1>2, <1>4, <2>1 DEF StreamInv, Complete
    <3>2. \A n \in 1 .. emitted : n \in 1 .. lastId[s]
      BY <1>1, <1>2, <1>4, <3>1
    <3> QED
      BY <3>1, <3>2
  <2> QED
    BY <2>2, <2>3, <2>4, <2>5, <2>6 DEF StreamInv
<1> QED
  BY <1>5, <1>6, <1>7, <1>8 DEF IInv

(* A stream unsubscribes; what is under way to it goes nowhere. *)
LEMMA DisconnectStep ==
    ASSUME IInv, NEW s \in Stream, Disconnect(s)
    PROVE  IInv'
<1>1. /\ TypeOK /\ Own /\ \A t \in Stream : StreamInv(t)
      /\ stage \in [Stream -> {"away", "replaying", "live", "over"}]
      /\ heard \in [Stream -> Seq(Event)] /\ queue \in [Stream -> Seq(Item)]
      /\ callbacks \in [AsyncStream -> Seq(Item)]
      /\ earlier \in [Stream -> SUBSET Event] /\ lost \in [Stream -> SUBSET Item]
      /\ todo \in [Emitter -> SUBSET Stream] /\ subs \subseteq Stream
      /\ QueueBound \in Nat
      /\ \A t \in Stream : Len(queue[t]) <= QueueBound
  BY BusAssumption DEF IInv, TypeOK
<1>2. /\ stage' = [stage EXCEPT ![s] = "away"]
      /\ subs' = subs \ {s}
      /\ todo' = [e \in Emitter |-> todo[e] \ {s}]
      /\ callbacks' = [t \in AsyncStream |-> IF t = s THEN <<>> ELSE callbacks[t]]
      /\ queue' = [queue EXCEPT ![s] = <<>>]
      /\ earlier' = [earlier EXCEPT ![s] = earlier[s] \cup Elements(heard[s])]
      /\ heard' = [heard EXCEPT ![s] = <<>>]
      /\ lost' = [lost EXCEPT ![s] = {}]
      /\ UNCHANGED <<emitted, author, closed, carrying, at, upto, joined, connects,
                     lastId, mishaps>>
  BY DEF Disconnect, Goto, busVars
<1>3. /\ stage'[s] = "away" /\ queue'[s] = <<>> /\ heard'[s] = <<>> /\ lost'[s] = {}
      /\ earlier'[s] = earlier[s] \cup Elements(heard[s])
      /\ Scheduled(s)' = <<>> /\ s \notin subs'
      /\ \A e \in Emitter : s \notin todo'[e]
      /\ \A t \in Stream \ {s} :
            /\ UNCHANGED <<stage[t], queue[t], heard[t], lost[t], earlier[t], Scheduled(t)>>
            /\ t \in subs' <=> t \in subs
            /\ \A e \in Emitter : t \in todo'[e] <=> t \in todo[e]
  BY <1>1, <1>2 DEF Scheduled
<1>4. TypeOK'
  <2>1. Elements(heard[s]) \subseteq Event
    BY <1>1 DEF Elements
  <2>2. /\ stage' \in [Stream -> {"away", "replaying", "live", "over"}]
        /\ subs' \subseteq Stream /\ todo' \in [Emitter -> SUBSET Stream]
        /\ earlier' \in [Stream -> SUBSET Event] /\ lost' \in [Stream -> SUBSET Item]
    BY <1>1, <1>2, <2>1
  <2>3. /\ heard' \in [Stream -> Seq(Event)] /\ queue' \in [Stream -> Seq(Item)]
        /\ callbacks' \in [AsyncStream -> Seq(Item)]
    BY <1>1, <1>2, Nothing
  <2>4. \A t \in Stream : Len(queue'[t]) <= QueueBound
    <3>1. Len(queue'[s]) = 0
      BY <1>3, Nothing, Zenon
    <3>2. \A t \in Stream \ {s} : queue'[t] = queue[t]
      BY <1>3
    <3>3. 0 <= QueueBound
      BY <1>1
    <3> QED
      BY <1>1, <3>1, <3>2, <3>3, Zenon
  <2> QED
    BY <1>1, <1>2, <2>2, <2>3, <2>4 DEF TypeOK
<1>5. Own'
  BY <1>1, <1>2 DEF Own
<1>6. ASSUME NEW t \in Stream \ {s} PROVE StreamInv(t)'
  <2>1. Untouched(t)
    BY <1>2, <1>3 DEF Untouched
  <2> QED
    BY <1>1, <2>1, StaysAlike
<1>7. StreamInv(s)'
  <2>1. StreamInv(s) /\ joined[s] <= emitted
    BY <1>1 DEF StreamInv, Recent
  <2>2. Present(s)'
    BY <1>3 DEF Present
  <2>3. Recent(s)'
    BY <1>2, <1>3, <2>1, Nothing DEF StreamInv, Recent
  <2>4. Ordered(s)'
    BY <1>2, <1>3, Nothing DEF Ordered, Below, Parts
  <2>5. Accounted(s)'
    BY <1>3 DEF Accounted
  <2>6. Complete(s)'
    BY <1>2, <1>3, <2>1, Nothing DEF StreamInv, Complete, Had
  <2> QED
    BY <2>2, <2>3, <2>4, <2>5, <2>6 DEF StreamInv
<1> QED
  BY <1>4, <1>5, <1>6, <1>7 DEF IInv

(* A client receives the next item of its queue. *)
LEMMA ReceiveStep ==
    ASSUME IInv, NEW s \in Stream, Receive(s)
    PROVE  IInv'
<1> DEFINE q == queue[s]
           x == Head(q)
           r == Tail(q)
<1>1. /\ TypeOK /\ Own /\ \A t \in Stream : StreamInv(t)
      /\ emitted \in 0 .. MaxEvents /\ lastId \in [Stream -> 0 .. MaxEvents]
      /\ stage \in [Stream -> {"away", "replaying", "live", "over"}]
      /\ joined \in [Stream -> 0 .. MaxEvents]
      /\ heard \in [Stream -> Seq(Event)] /\ queue \in [Stream -> Seq(Item)]
      /\ mishaps \in [Stream -> SUBSET Mishap] /\ MaxEvents \in Nat /\ QueueBound \in Nat
      /\ \A t \in Stream : Len(queue[t]) <= QueueBound /\ Len(queue[t]) \in Nat
      /\ q \in Seq(Item)
  <2>1. queue \in [Stream -> Seq(Item)] /\ \A t \in Stream : Len(queue[t]) <= QueueBound
    BY DEF IInv, TypeOK
  <2>2. MaxEvents \in Nat /\ QueueBound \in Nat
    BY BusAssumption
  <2>3. (\A t \in Stream : Len(queue[t]) \in Nat) /\ q \in Seq(Item)
    BY <2>1
  <2> QED
    BY <2>1, <2>2, <2>3 DEF IInv, TypeOK
<1>2. /\ stage[s] = "live" /\ q # <<>>
      /\ queue' = [queue EXCEPT ![s] = r]
      /\ IF x = End
         THEN /\ stage' = [stage EXCEPT ![s] = "over"]
              /\ UNCHANGED <<heard, lastId, mishaps>>
         ELSE /\ heard' = [heard EXCEPT ![s] = Append(heard[s], x)]
              /\ lastId' = [lastId EXCEPT ![s] = x]
              /\ IF Overtakes(s, x) THEN Befalls({s}, "overtaken") ELSE UNCHANGED mishaps
              /\ UNCHANGED stage
      /\ UNCHANGED <<emitted, author, closed, subs, carrying, todo, callbacks, at, upto,
                     joined, earlier, connects, lost>>
  BY DEF Receive, Goto, Yield, busVars, deliveryVars
<1> HIDE DEF q
<1>3. /\ x \in Item /\ r \in Seq(Item) /\ Len(r) < Len(q)
      /\ Elements(q) = Elements(r) \cup {x}
      /\ Sorted(author, q) => Sorted(author, r) /\ Below(author, {x}, Elements(r))
      /\ \A n : Times(n, q) = Times(n, r) + In(n, {x})
  BY <1>1, <1>2, Taken
<1> HIDE DEF x, r
<1>4. /\ StreamInv(s) /\ s \in subs /\ heard[s] \in Seq(Item) /\ heard[s] \in Seq(Event)
      /\ q \in Seq(Item) /\ Scheduled(s) \in Seq(Item)
      /\ x # End => x \in Event /\ joined[s] < x /\ x <= emitted /\ x \in 1 .. emitted
      /\ joined[s] \in Nat /\ emitted \in Nat /\ End \notin Event
  <2>1. StreamInv(s) /\ s \in subs
    BY <1>1, <1>2 DEF StreamInv, Present
  <2>2. /\ heard[s] \in Seq(Item) /\ heard[s] \in Seq(Event)
        /\ q \in Seq(Item) /\ Scheduled(s) \in Seq(Item)
        /\ joined[s] \in Nat /\ emitted \in Nat /\ End \notin Event
    BY <1>1, Types
  <2>3. x # End => joined[s] < x /\ x <= emitted
    BY <1>2, <1>3, <2>1 DEF StreamInv, Recent, q
  <2>4. x # End => x \in Event /\ x \in Nat
    BY <1>3 DEF Item, Event
  <2> QED
    BY <2>1, <2>2, <2>3, <2>4
<1>5. /\ queue'[s] = r /\ stage'[s] \in {"live", "over"}
      /\ \A t \in Stream \ {s} : UNCHANGED <<queue[t], stage[t], heard[t], lastId[t]>>
      /\ \A t \in Stream : UNCHANGED Scheduled(t)
  BY <1>1, <1>2 DEF Scheduled
<1>6. \/ /\ x = End /\ stage'[s] = "over"
         /\ UNCHANGED <<heard, lastId, mishaps>>
      \/ /\ x # End /\ stage'[s] = "live"
         /\ heard'[s] = Append(heard[s], x) /\ lastId'[s] = x
  BY <1>1, <1>2
<1>7. /\ mishaps' \in [Stream -> SUBSET Mishap]
      /\ \A t \in Stream \ {s} : mishaps'[t] = mishaps[t]
      /\ mishaps'[s] = {} => mishaps[s] = {} /\ (x # End => ~Overtakes(s, x))
  <2>1. CASE x # End /\ Overtakes(s, x)
    <3>1. mishaps' = [t \in Stream |-> IF t \in {s} THEN mishaps[t] \cup {"overtaken"}
                                                    ELSE mishaps[t]]
      BY <1>2, <2>1 DEF Befalls
    <3> QED
      BY <1>1, <3>1 DEF Mishap
  <2>2. CASE x = End \/ ~Overtakes(s, x)
    BY <1>1, <1>2, <2>2
  <2> QED
    BY <2>1, <2>2
<1>8. TypeOK'
  <2>1. x # End => Append(heard[s], x) \in Seq(Event)
    BY <1>4
  <2>2. /\ queue' \in [Stream -> Seq(Item)]
        /\ heard' \in [Stream -> Seq(Event)]
    BY <1>1, <1>2, <1>3, <2>1
  <2>3. \A t \in Stream : Len(queue'[t]) <= QueueBound
    <3>1. Len(r) <= QueueBound
      <4>1. Len(r) \in Nat /\ Len(q) \in Nat /\ Len(q) <= QueueBound
        BY <1>1, <1>3 DEF q
      <4> QED
        BY <1>1, <1>3, <4>1
    <3> QED
      BY <1>1, <1>5, <3>1
  <2>4. /\ stage' \in [Stream -> {"away", "replaying", "live", "over"}]
        /\ lastId' \in [Stream -> 0 .. MaxEvents]
    <3>1. x # End => x \in 0 .. MaxEvents
      BY <1>1, <1>4
    <3> QED
      BY <1>1, <1>2, <3>1
  <2> QED
    BY <1>1, <1>2, <1>7, <2>2, <2>3, <2>4 DEF TypeOK
<1>9. Own'
  BY <1>1, <1>2 DEF Own
<1>10. ASSUME NEW t \in Stream \ {s} PROVE StreamInv(t)'
  <2>1. Untouched(t)
    BY <1>2, <1>5, <1>7 DEF Untouched
  <2> QED
    BY <1>1, <2>1, StaysAlike
<1>11. StreamInv(s)'
  <2>1. /\ Below(author, {x}, Elements(r)) /\ Sorted(author, r)
        /\ Sorted(author, heard[s])
        /\ Below(author, Elements(heard[s]), {x})
        /\ Below(author, Elements(heard[s]), Elements(r))
        /\ Below(author, Elements(heard[s]), Elements(Scheduled(s)))
        /\ Below(author, Elements(r), Elements(Scheduled(s)))
        /\ Below(author, {x}, Elements(Scheduled(s)))
    BY <1>3, <1>4 DEF StreamInv, Ordered, Below, q
  <2>2. /\ Elements(Append(heard[s], x)) = Elements(heard[s]) \cup {x}
        /\ Sorted(author, Append(heard[s], x))
        /\ \A n : Times(n, Append(heard[s], x)) = Times(n, heard[s]) + In(n, {x})
    BY <1>3, <1>4, <2>1, Appended
  <2>3. /\ Elements(heard'[s]) \subseteq Elements(heard[s]) \cup {x}
        /\ Elements(heard'[s]) \subseteq Elements(heard[s]) \cup (1 .. emitted)
        /\ Sorted(author, heard'[s])
    BY <1>4, <1>6, <2>1, <2>2
  <2>4. Present(s)'
    BY <1>2, <1>4, <1>5 DEF StreamInv, Present
  <2>5. Recent(s)'
    <3>1. Elements(heard'[s]) \subseteq 1 .. emitted
      BY <1>4, <2>3 DEF StreamInv, Recent
    <3>2. \A n \in Elements(r) \cup Elements(Scheduled(s)) :
              n = End \/ (joined[s] < n /\ n <= emitted)
      BY <1>2, <1>3, <1>4 DEF StreamInv, Recent, q
    <3> QED
      BY <1>2, <1>4, <1>5, <3>1, <3>2 DEF StreamInv, Recent
  <2>6. Ordered(s)'
    <3>1. /\ Below(author, Elements(heard'[s]), Elements(r))
          /\ Below(author, Elements(heard'[s]), Elements(Scheduled(s)))
      BY <2>1, <2>3 DEF Below
    <3>2. Parts(s)' \subseteq Parts(s)
      BY <1>3, <1>5, <2>3 DEF Parts, q
    <3> QED
      BY <1>2, <1>4, <1>5, <2>1, <2>3, <3>1, <3>2 DEF StreamInv, Ordered
  <2>7. Accounted(s)'
    <3> SUFFICES ASSUME NEW n \in joined[s] + 1 .. emitted PROVE Count(s, n)' = 1
      BY <1>2 DEF Accounted
    <3>1. Count(s, n) = 1 /\ n # End
      BY <1>2, <1>4 DEF StreamInv, Accounted, End
    <3>2. Carries(s, n)' = Carries(s, n)
      BY <1>2 DEF Carries
    <3>3. /\ Times(n, heard[s]) \in Nat /\ Times(n, r) \in Nat
          /\ Times(n, q) = Times(n, r) + In(n, {x}) /\ In(n, {x}) \in {0, 1}
      BY <1>3, <1>4, TimesNatural DEF In
    <3>4. Times(n, heard'[s]) = Times(n, heard[s]) + In(n, {x})
      <4>1. CASE x = End /\ heard' = heard
        <5>1. In(n, {x}) = 0
          BY <3>1, <4>1 DEF In
        <5> QED
          BY <3>3, <4>1, <5>1
      <4>2. CASE heard'[s] = Append(heard[s], x)
        BY <2>2, <4>2
      <4> QED
        BY <1>6, <4>1, <4>2
    <3>5. Count(s, n)' = Times(n, heard'[s]) + Times(n, r) + Times(n, Scheduled(s))
                         + Carries(s, n) + In(n, lost[s])
      BY <1>2, <1>5, <3>2 DEF Count
    <3>6. Count(s, n) = Times(n, heard[s]) + Times(n, q) + Times(n, Scheduled(s))
                        + Carries(s, n) + In(n, lost[s])
      BY DEF Count, q
    <3>7. Times(n, Scheduled(s)) \in Nat /\ Carries(s, n) \in Nat /\ In(n, lost[s]) \in Nat
      BY <1>4, TimesNatural DEF Carries, In
    <3> QED
      BY <3>1, <3>3, <3>4, <3>5, <3>6, <3>7
  <2>8. Complete(s)'
    <3> SUFFICES ASSUME mishaps'[s] = {}
                 PROVE  /\ \A n \in 1 .. lastId'[s] : n \in Had(s)'
                        /\ \A n \in 1 .. joined[s] : n \in Had(s)'
                        /\ lost[s] = {}
      BY <1>2, <1>5 DEF Complete
    <3>1. /\ lost[s] = {} /\ \A n \in 1 .. lastId[s] : n \in Had(s)
          /\ \A n \in 1 .. joined[s] : n \in Had(s)
      BY <1>2, <1>4, <1>7 DEF StreamInv, Complete
    <3>2. Had(s) \subseteq Had(s)'
      BY <1>2, <1>6, <2>2 DEF Had
    <3>3. CASE x = End /\ UNCHANGED lastId
      BY <3>1, <3>2, <3>3
    <3>4. CASE x # End /\ heard'[s] = Append(heard[s], x) /\ lastId'[s] = x
      <4>1. x \in Had(s)'
        BY <2>2, <3>4 DEF Had
      <4>2. \A m \in joined[s] + 1 .. x - 1 : m \in Elements(heard[s])
        BY <1>7, <3>1, <3>4 DEF Overtakes
      <4>3. ASSUME NEW n \in 1 .. x PROVE n \in Had(s)'
        <5>1. n = x \/ n \in 1 .. joined[s] \/ n \in joined[s] + 1 .. x - 1
          BY <1>4, <3>4
        <5> QED
          BY <3>1, <3>2, <4>1, <4>2, <5>1 DEF Had
      <4> QED
        BY <3>1, <3>2, <3>4, <4>3
    <3> QED
      BY <1>6, <3>3, <3>4
  <2> QED
    BY <2>4, <2>5, <2>6, <2>7, <2>8 DEF StreamInv
<1> QED
  BY <1>8, <1>9, <1>10, <1>11 DEF IInv

-----------------------------------------------------------------------------
(* The theorems. *)

(* Every step of the bus keeps the invariant. *)
LEMMA NextIInv == IInv /\ [Next]_vars => IInv'
<1> SUFFICES ASSUME IInv, [Next]_vars PROVE IInv'
  OBVIOUS
<1>1. CASE UNCHANGED vars
  <2>1. /\ UNCHANGED <<emitted, author, closed, subs, carrying, todo, callbacks, queue,
                       stage, at, upto, joined, earlier, connects, heard, lastId, lost,
                       mishaps>>
    BY <1>1 DEF vars, busVars, deliveryVars, streamVars
  <2>2. TypeOK' /\ Own'
    BY <2>1 DEF IInv, TypeOK, Own
  <2>3. ASSUME NEW s \in Stream PROVE StreamInv(s)'
    <3>1. Untouched(s)
      BY <2>1 DEF Untouched, Scheduled
    <3> QED
      BY <3>1, StaysAlike DEF IInv
  <2> QED
    BY <2>2, <2>3 DEF IInv
<1>2. CASE Next
  <2>1. CASE \E e \in Emitter : Emit(e)
    BY <2>1, EmitStep
  <2>2. CASE \E e \in Emitter : Close(e)
    BY <2>2, CloseStep
  <2>3. CASE \E e \in Emitter : Deliver(e)
    BY <2>3, PutStep, ScheduleStep DEF Deliver
  <2>4. CASE \E s \in AsyncStream : RunCallback(s)
    BY <2>4, RunCallbackStep
  <2>5. CASE \E s \in Stream : Connect(s)
    BY <2>5, ConnectStep
  <2>6. CASE \E s \in Stream : Read(s)
    BY <2>6, ReplayStep, SubscribeStep, ReceiveStep DEF Read
  <2>7. CASE \E s \in Stream : Disconnect(s)
    BY <2>7, DisconnectStep
  <2> QED
    BY <1>2, <2>1, <2>2, <2>3, <2>4, <2>5, <2>6, <2>7 DEF Next
<1> QED
  BY <1>1, <1>2

(* So every reachable state has it. *)
LEMMA Invariant == Spec => []IInv
BY InitIInv, NextIInv, PTL DEF Spec

(* The state of bus and streams has its types: numbers, bounded queues.    *)
(* (emitter.py:107-127, sse.py:88-160)                                     *)
THEOREM TypeCorrect == Spec => []TypeOK
<1>1. IInv => TypeOK
  BY DEF IInv
<1> QED
  BY <1>1, Invariant, PTL

(* An event is carried to a stream by its author only, so that carriers    *)
(* are counted by membership.                                              *)
LEMMA PlacesIsCount ==
    ASSUME IInv, NEW s \in Stream, NEW n \in 1 .. emitted
    PROVE  /\ Places(s, n) = Count(s, n)
           /\ Carries(s, n) = 1 => Carrying(s, n) # {}
<1>1. /\ author[n] \in Emitter /\ n # End
      /\ \A e \in Emitter : carrying[e] = n => e = author[n]
  BY Types DEF IInv, Own, End
<1>2. CASE s \in todo[author[n]] /\ carrying[author[n]] = n
  <2>1. Carrying(s, n) = {author[n]}
    BY <1>1, <1>2 DEF Carrying
  <2> QED
    BY <1>2, <2>1, FS_Singleton DEF Places, Count, Carries
<1>3. CASE ~(s \in todo[author[n]] /\ carrying[author[n]] = n)
  <2>1. Carrying(s, n) = {}
    BY <1>1, <1>3 DEF Carrying
  <2>2. Cardinality(Carrying(s, n)) = 0
    BY <2>1, FS_EmptySet
  <2> QED
    BY <1>3, <2>2 DEF Places, Count, Carries
<1> QED
  BY <1>2, <1>3

(* emit() hands an event to every queue registered at that moment, once:   *)
(* whatever emitters, event loop and readers do, a stream has an event     *)
(* emitted since it subscribed at exactly one place.                       *)
(* (emitter.py:129-160, sse.py:88-160)                                     *)
THEOREM EventsAccounted == Spec => []EveryEventAccounted
<1>1. IInv => EveryEventAccounted
  <2> SUFFICES ASSUME IInv, NEW s \in Stream, stage[s] \in {"live", "over"},
                      NEW n \in joined[s] + 1 .. emitted
               PROVE  Places(s, n) = 1
    BY DEF EveryEventAccounted
  <2>1. n \in 1 .. emitted
    BY Types DEF IInv
  <2>2. Count(s, n) = 1
    BY DEF IInv, StreamInv, Accounted
  <2> QED
    BY <2>1, <2>2, PlacesIsCount
<1> QED
  BY <1>1, Invariant, PTL

(* Two queues in order, one below the other, are in order end to end. *)
LEMMA Joined ==
    ASSUME NEW u \in Seq(Item), NEW v \in Seq(Item), NEW a,
           Sorted(a, u), Sorted(a, v), Below(a, Elements(u), Elements(v))
    PROVE  /\ u \o v \in Seq(Item) /\ Sorted(a, u \o v)
           /\ Elements(u \o v) = Elements(u) \cup Elements(v)
<1> DEFINE w == u \o v
           k == Len(u)
<1>1. /\ w \in Seq(Item) /\ k \in Nat /\ Len(v) \in Nat /\ Len(w) = k + Len(v)
      /\ DOMAIN u = 1 .. k /\ DOMAIN v = 1 .. Len(v) /\ DOMAIN w = 1 .. Len(w)
      /\ \A i \in 1 .. k : w[i] = u[i]
      /\ \A i \in k + 1 .. k + Len(v) : w[i] = v[i - k]
  BY LenProperties, ConcatProperties
<1> HIDE DEF w, k
<1>2. \A i \in DOMAIN w : \/ i \in DOMAIN u /\ w[i] = u[i]
                          \/ i - k \in DOMAIN v /\ w[i] = v[i - k] /\ k < i
  BY <1>1
<1>3. Sorted(a, w)
  <2> SUFFICES ASSUME NEW i \in DOMAIN w, NEW j \in DOMAIN w, i < j,
                      w[i] # End, w[j] # End, a[w[i]] = a[w[j]]
               PROVE  w[i] < w[j]
    BY DEF Sorted
  <2>1. CASE i \in DOMAIN u /\ w[i] = u[i] /\ j \in DOMAIN u /\ w[j] = u[j]
    BY <2>1 DEF Sorted
  <2>2. CASE /\ i \in DOMAIN u /\ w[i] = u[i]
             /\ j - k \in DOMAIN v /\ w[j] = v[j - k]
    BY <2>2 DEF Below, Elements
  <2>3. CASE k < i
    <3>1. /\ i - k \in DOMAIN v /\ w[i] = v[i - k]
          /\ j - k \in DOMAIN v /\ w[j] = v[j - k] /\ i - k < j - k
      BY <1>1, <2>3
    <3> QED
      BY <3>1 DEF Sorted
  <2> QED
    BY <1>2, <2>1, <2>2, <2>3
<1>4. Elements(w) = Elements(u) \cup Elements(v)
  <2>1. Elements(w) \subseteq Elements(u) \cup Elements(v)
    BY <1>2 DEF Elements
  <2>2. Elements(u) \subseteq Elements(w)
    BY <1>1 DEF Elements
  <2>3. \A i \in DOMAIN v : i + k \in DOMAIN w /\ w[i + k] = v[i]
    BY <1>1
  <2>4. Elements(v) \subseteq Elements(w)
    BY <2>3 DEF Elements
  <2> QED
    BY <2>1, <2>2, <2>4
<1> QED
  BY <1>1, <1>3, <1>4 DEF w

(* What a stream has heard, has queued and is to get makes one line in     *)
(* order.                                                                  *)
LEMMA LineIs ==
    ASSUME IInv, NEW s \in Stream
    PROVE  Sorted(author, Line(s)) /\ Elements(Line(s)) = Parts(s)
<1> DEFINE u == heard[s] \o queue[s]
<1>1. /\ heard[s] \in Seq(Item) /\ queue[s] \in Seq(Item) /\ Scheduled(s) \in Seq(Item)
      /\ Ordered(s)
  BY Types DEF IInv, StreamInv
<1>2. /\ u \in Seq(Item) /\ Sorted(author, u)
      /\ Elements(u) = Elements(heard[s]) \cup Elements(queue[s])
  BY <1>1, Joined DEF Ordered
<1> HIDE DEF u
<1>3. Below(author, Elements(u), Elements(Scheduled(s)))
  BY <1>1, <1>2 DEF Ordered, Below
<1>4. /\ Sorted(author, u \o Scheduled(s))
      /\ Elements(u \o Scheduled(s)) = Elements(u) \cup Elements(Scheduled(s))
  BY <1>1, <1>2, <1>3, Joined DEF Ordered
<1> QED
  BY <1>2, <1>4 DEF Line, Parts, u

(* Queues are filled after the lock is given back, so that two emitters    *)
(* may cross; but emit() returns only when every queue is served and       *)
(* callbacks of one loop run in their order, so that one emitter's events  *)
(* reach each stream in the order they were numbered in.                   *)
(* (emitter.py:129-160)                                                    *)
THEOREM EmittersKeepOrder == Spec => []EmittersInOrder
<1>1. IInv => EmittersInOrder
  BY LineIs DEF EmittersInOrder, Sorted
<1> QED
  BY <1>1, Invariant, PTL

(* Unless an event was evicted, missed, dropped or overtaken for a client, *)
(* what it has had over all its connections, with what is on its way, is   *)
(* all that was ever emitted.  (tel_stream.py:14-16, sse.py:88-160)        *)
THEOREM ResumesComplete == Spec => []ResumeIsComplete
<1>1. IInv => ResumeIsComplete
  <2> SUFFICES ASSUME IInv, NEW s \in Stream, stage[s] = "live", mishaps[s] = {},
                      NEW n \in 1 .. emitted
               PROVE  \/ n \in earlier[s] \cup Elements(Line(s))
                      \/ Carrying(s, n) # {}
    BY DEF ResumeIsComplete
  <2>1. /\ Accounted(s) /\ Complete(s) /\ Elements(Line(s)) = Parts(s)
        /\ heard[s] \in Seq(Item) /\ queue[s] \in Seq(Item)
        /\ Scheduled(s) \in Seq(Item) /\ joined[s] \in Nat /\ emitted \in Nat
    BY Types, LineIs DEF IInv, StreamInv
  <2>2. CASE n <= joined[s]
    BY <2>1, <2>2 DEF Complete, Had, Parts
  <2>3. CASE n > joined[s]
    <3>1. Count(s, n) = 1 /\ In(n, lost[s]) = 0
      BY <2>1, <2>3 DEF Accounted, Complete, In
    <3>2. /\ Times(n, heard[s]) = 0 <=> n \notin Elements(heard[s])
          /\ Times(n, queue[s]) = 0 <=> n \notin Elements(queue[s])
          /\ Times(n, Scheduled(s)) = 0 <=> n \notin Elements(Scheduled(s))
          /\ Times(n, heard[s]) \in Nat /\ Times(n, queue[s]) \in Nat
          /\ Times(n, Scheduled(s)) \in Nat
      BY <2>1, TimesNatural
    <3>3. Carries(s, n) \in {0, 1}
      BY DEF Carries
    <3>4. n \in Parts(s) \/ Carries(s, n) = 1
      BY <3>1, <3>2, <3>3 DEF Count, Parts
    <3> QED
      BY <2>1, <3>4, PlacesIsCount
  <2> QED
    BY <2>1, <2>2, <2>3
<1> QED
  BY <1>1, Invariant, PTL

-----------------------------------------------------------------------------
(* What the model checker's CloseUnblocks rests on. *)

(* The sentinel for a stream is queued or scheduled, or in close()'s hands. *)
EndIsAhead(s) ==
    \/ End \in Elements(queue[s]) \cup Elements(Scheduled(s))
    \/ Carrying(s, End) # {}

SentinelOnItsWay ==
    \A s \in Stream : closed /\ stage[s] = "live" =>
        EndIsAhead(s) \/ End \in lost[s]

(* How a step may change what EndIsAhead looks at: nothing but the end of  *)
(* the stream takes a sentinel from it.                                    *)
Keeps(s) ==
    /\ End \in Elements(queue[s]) => End \in Elements(queue'[s])
    /\ End \in Elements(Scheduled(s)) =>
          End \in Elements(Scheduled(s)') \cup Elements(queue'[s]) \cup lost'[s]
    /\ \A e \in Emitter : s \in todo[e] =>
          \/ s \in todo'[e]
          \/ carrying[e] \in Elements(Scheduled(s)') \cup Elements(queue'[s]) \cup lost'[s]
    /\ carrying' = carrying /\ closed' = closed
    /\ lost[s] \subseteq lost'[s]
    /\ stage'[s] = "live" => stage[s] = "live"

(* A step that keeps a stream's sentinel keeps it somewhere. *)
LEMMA KeepsIs ==
    ASSUME SentinelOnItsWay, NEW s \in Stream, Keeps(s),
           closed', stage'[s] = "live"
    PROVE  EndIsAhead(s)' \/ End \in lost'[s]
<1>1. EndIsAhead(s) \/ End \in lost[s]
  BY DEF SentinelOnItsWay, Keeps
<1>2. CASE End \in Elements(queue[s]) \cup Elements(Scheduled(s)) \cup lost[s]
  BY <1>2 DEF Keeps, EndIsAhead
<1>3. CASE Carrying(s, End) # {}
  <2>1. PICK e \in Emitter : s \in todo[e] /\ carrying[e] = End
    BY <1>3 DEF Carrying
  <2>2. CASE s \in todo'[e]
    BY <2>1, <2>2 DEF Keeps, EndIsAhead, Carrying
  <2>3. CASE s \notin todo'[e]
    BY <2>1, <2>3 DEF Keeps, EndIsAhead
  <2> QED
    BY <2>2, <2>3
<1> QED
  BY <1>1, <1>2, <1>3 DEF EndIsAhead

(* An item put on a queue is in it, or lost to it. *)
LEMMA PutKeeps ==
    ASSUME TypeOK, NEW s \in Stream, NEW x \in Item, Enqueue(s, x)
    PROVE  /\ x \in Elements(queue'[s]) \cup lost'[s]
           /\ \A t \in Stream : /\ Elements(queue[t]) \subseteq Elements(queue'[t])
                                /\ lost[t] \subseteq lost'[t]
<1>1. queue[s] \in Seq(Item)
  BY Types
<1>2. Elements(Append(queue[s], x)) = Elements(queue[s]) \cup {x}
  BY <1>1, Appended
<1> QED
  BY <1>2, EnqueueIs

(* After close(), every live stream has a sentinel before it: in its       *)
(* queue, scheduled on the loop, or still with close(), unless its queue   *)
(* was full or close() had no loop (emitter.py:181-201).  The sentinel is  *)
(* never taken by anything but the end of the stream.                      *)
THEOREM StreamsEnd == Spec => []SentinelOnItsWay
<1>1. Init => SentinelOnItsWay
  BY DEF Init, SentinelOnItsWay
<1>2. IInv /\ SentinelOnItsWay /\ [Next]_vars => SentinelOnItsWay'
  <2> SUFFICES ASSUME IInv, SentinelOnItsWay, [Next]_vars,
                      NEW s \in Stream, closed', stage'[s] = "live"
               PROVE  EndIsAhead(s)' \/ End \in lost'[s]
    BY DEF SentinelOnItsWay
  <2>0. /\ TypeOK /\ Present(s)
        /\ todo \in [Emitter -> SUBSET Stream]
        /\ carrying \in [Emitter -> Item]
        /\ stage \in [Stream -> {"away", "replaying", "live", "over"}]
        /\ queue \in [Stream -> Seq(Item)] /\ lost \in [Stream -> SUBSET Item]
        /\ callbacks \in [AsyncStream -> Seq(Item)]
    BY DEF IInv, StreamInv, TypeOK
  <2>1. ASSUME NEW e \in Emitter, Emit(e) PROVE FALSE
    BY <2>1 DEF Emit
  <2>2. ASSUME NEW e \in Emitter, Close(e) PROVE EndIsAhead(s)'
    <3>1. s \in subs
      BY <2>0, <2>2 DEF Close, streamVars, Present
    <3>2. s \in todo'[e] /\ carrying'[e] = End
      BY <2>0, <2>2, <3>1 DEF Close
    <3> QED
      BY <3>2 DEF EndIsAhead, Carrying
  <2>3. ASSUME NEW e \in Emitter, Schedule(e) PROVE Keeps(s)
    <3>1. UNCHANGED <<closed, carrying, queue, stage>> /\ todo[e] \subseteq AsyncStream
      BY <2>3 DEF Schedule, busVars, streamVars
    <3>2. CASE e \in LoopEmitter
      <4>1. lost' = lost
        BY <2>3, <3>2 DEF Schedule
      <4>2. /\ Elements(Scheduled(s)) \subseteq Elements(Scheduled(s)')
            /\ s \in todo[e] => carrying[e] \in Elements(Scheduled(s)')
        <5>1. CASE s \in todo[e]
          <6>1. s \in AsyncStream /\ Scheduled(s) = callbacks[s]
                /\ Scheduled(s)' = Append(callbacks[s], carrying[e])
            BY <2>3, <3>1, <3>2, <5>1 DEF Schedule, Scheduled
          <6>2. callbacks[s] \in Seq(Item) /\ carrying[e] \in Item
            BY <2>0, <6>1
          <6>3. Elements(Append(callbacks[s], carrying[e]))
                  = Elements(callbacks[s]) \cup {carrying[e]}
            BY <6>2, Appended
          <6> QED
            BY <6>1, <6>3
        <5>2. CASE s \notin todo[e]
          BY <2>3, <3>2, <5>2 DEF Schedule, Scheduled
        <5> QED
          BY <5>1, <5>2
      <4>3. \A f \in Emitter \ {e} : todo'[f] = todo[f]
        BY <2>0, <2>3 DEF Schedule
      <4> QED
        BY <3>1, <4>1, <4>2, <4>3 DEF Keeps
    <3>3. CASE e \notin LoopEmitter
      <4>1. Drop(todo[e], carrying[e]) /\ callbacks' = callbacks
        BY <2>3, <3>3 DEF Schedule
      <4>2. /\ lost[s] \subseteq lost'[s]
            /\ s \in todo[e] => carrying[e] \in lost'[s]
        BY <4>1 DEF Drop
      <4>3. \A f \in Emitter \ {e} : todo'[f] = todo[f]
        BY <2>0, <2>3 DEF Schedule
      <4> QED
        BY <3>1, <4>1, <4>2, <4>3 DEF Keeps, Scheduled
    <3> QED
      BY <3>2, <3>3
  <2>4. ASSUME NEW e \in Emitter, NEW t \in SyncStream, Put(e, t) PROVE Keeps(s)
    <3>1. /\ UNCHANGED <<closed, carrying, callbacks, stage>>
          /\ todo' = [todo EXCEPT ![e] = todo[e] \ {t}]
          /\ Enqueue(t, carrying[e]) /\ t \in Stream
      BY <2>4 DEF Put, busVars, streamVars, Stream
    <3>2. /\ carrying[e] \in Elements(queue'[t]) \cup lost'[t]
          /\ Elements(queue[s]) \subseteq Elements(queue'[s])
          /\ lost[s] \subseteq lost'[s]
      BY <2>0, <3>1, PutKeeps
    <3> QED
      BY <2>0, <3>1, <3>2 DEF Keeps, Scheduled
  <2>5. ASSUME NEW t \in AsyncStream, RunCallback(t) PROVE Keeps(s)
    <3>1. /\ UNCHANGED <<closed, carrying, todo, stage>>
          /\ callbacks[t] # <<>> /\ callbacks[t] \in Seq(Item)
          /\ callbacks' = [callbacks EXCEPT ![t] = Tail(callbacks[t])]
          /\ Enqueue(t, Head(callbacks[t])) /\ t \in Stream
      BY <2>0, <2>5 DEF RunCallback, busVars, deliveryVars, streamVars, Stream
    <3>2. /\ Head(callbacks[t]) \in Item
          /\ Elements(callbacks[t]) = Elements(Tail(callbacks[t])) \cup {Head(callbacks[t])}
      BY <3>1, Taken
    <3>3. /\ Head(callbacks[t]) \in Elements(queue'[t]) \cup lost'[t]
          /\ Elements(queue[s]) \subseteq Elements(queue'[s])
          /\ lost[s] \subseteq lost'[s]
      BY <2>0, <3>1, <3>2, PutKeeps
    <3>4. Elements(Scheduled(s)) \subseteq
              Elements(Scheduled(s)') \cup Elements(queue'[s]) \cup lost'[s]
      <4>1. CASE s = t
        BY <2>0, <3>1, <3>2, <3>3, <4>1 DEF Scheduled
      <4>2. CASE s # t
        BY <2>0, <3>1, <4>2 DEF Scheduled
      <4> QED
        BY <4>1, <4>2
    <3> QED
      BY <3>1, <3>3, <3>4 DEF Keeps
  <2>6. ASSUME NEW t \in Stream, Connect(t) \/ Replay(t) PROVE Keeps(s)
    BY <2>0, <2>6 DEF Connect, Replay, Keeps, Goto, busVars, deliveryVars, Scheduled
  <2>7. ASSUME NEW t \in Stream, Subscribe(t) PROVE Keeps(s)
    <3>1. /\ UNCHANGED <<closed, carrying, todo, callbacks, queue, lost>>
          /\ stage' = [stage EXCEPT ![t] = "over"]
      BY <2>7 DEF Subscribe, busVars, deliveryVars, Goto
    <3> QED
      BY <2>0, <3>1 DEF Keeps, Scheduled
  <2>8. ASSUME NEW t \in Stream, Receive(t) PROVE Keeps(s)
    <3>1. /\ UNCHANGED <<closed, carrying, todo, callbacks, lost>>
          /\ queue[t] # <<>> /\ queue' = [queue EXCEPT ![t] = Tail(queue[t])]
          /\ IF Head(queue[t]) = End THEN stage' = [stage EXCEPT ![t] = "over"]
                                     ELSE stage' = stage
      BY <2>8 DEF Receive, busVars, deliveryVars, Goto
    <3>2. Elements(queue[t]) = Elements(Tail(queue[t])) \cup {Head(queue[t])}
      BY <2>0, <3>1, Taken
    <3>3. End \in Elements(queue[s]) => End \in Elements(queue'[s])
      BY <2>0, <3>1, <3>2
    <3> QED
      BY <2>0, <3>1, <3>3 DEF Keeps, Scheduled
  <2>9. ASSUME NEW t \in Stream, Disconnect(t) PROVE Keeps(s)
    <3>1. /\ UNCHANGED <<closed, carrying>> /\ s # t
          /\ stage' = [stage EXCEPT ![t] = "away"]
          /\ todo' = [e \in Emitter |-> todo[e] \ {t}]
          /\ callbacks' = [u \in AsyncStream |-> IF u = t THEN <<>> ELSE callbacks[u]]
          /\ queue' = [queue EXCEPT ![t] = <<>>]
          /\ lost' = [lost EXCEPT ![t] = {}]
      BY <2>0, <2>9 DEF Disconnect, busVars, Goto
    <3> QED
      BY <2>0, <3>1 DEF Keeps, Scheduled
  <2>10. ASSUME UNCHANGED vars PROVE Keeps(s)
    BY <2>10 DEF vars, busVars, deliveryVars, streamVars, Keeps, Scheduled
  <2>11. CASE Keeps(s)
    BY <2>11, KeepsIs
  <2> QED
    BY <2>1, <2>2, <2>3, <2>4, <2>5, <2>6, <2>7, <2>8, <2>9, <2>10, <2>11
    DEF Next, Deliver, Read
<1> QED
  BY <1>1, <1>2, Invariant, PTL DEF Spec
=============================================================================
