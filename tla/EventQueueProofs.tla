-------------------------- MODULE EventQueueProofs --------------------------
(***************************************************************************)
(* The event queue for every number of threads and calls: the mutex is     *)
(* held by whoever is in a critical section and by nobody else, no wake-up *)
(* is lost, no event is lost, duplicated or overtaken by a younger one of  *)
(* its thread, and waitEvent() is the hand-over the executor counts on.    *)
(***************************************************************************)
EXTENDS EventQueue, SequenceTheorems, TLAPS

Events == Pushers \X Nat

\* Where pushEvent() and wakeDispatcher() can be, and where waitEvent() can be.
OtherPlaces == {"out", "notify", "unlock"}
ReceiverPlaces == {"out", "test", "asleep", "woken", "late", "last"}

TypeInv ==
    /\ mtx_ \in Others \cup {Receiver, None}
    /\ queue_ \in Seq(Events)
    /\ received \in Seq(Events)
    /\ dispatcher_wake_ \in BOOLEAN
    /\ due \in BOOLEAN
    /\ pc \in [Others \cup {Receiver} -> OtherPlaces \cup ReceiverPlaces]
    /\ \A t \in Others : pc[t] \in OtherPlaces
    /\ pc[Receiver] \in ReceiverPlaces
    /\ calls \in [Others -> Nat]

\* The owner of the mutex is the thread inside lock ... unlock.
LockInv ==
    /\ \A t \in Others : mtx_ = t <=> pc[t] # "out"
    /\ mtx_ = Receiver <=> pc[Receiver] \in {"test", "last"}

\* Only a timeout takes waitEvent() past its predicate.
LateInv == pc[Receiver] \in {"late", "last"} => due

QueueInv == TypeInv /\ LockInv /\ LateInv /\ NoLostWakeup

\* The threads are different from each other and from nobody: pushEvent(),
\* wakeDispatcher() and waitEvent() run on threads of their own.
LEMMA Threads ==
    ASSUME NEW t \in Others
    PROVE  t # Receiver /\ t # None /\ Receiver # None
BY QueueAssumption DEF Others

\* Taking the oldest event moves it from the queue to the received ones and
\* changes nothing in their sequence.
LEMMA TakeKeeps ==
    ASSUME NEW S, NEW r \in Seq(S), NEW q \in Seq(S), q # <<>>
    PROVE  /\ Append(r, Head(q)) \in Seq(S)
           /\ Tail(q) \in Seq(S)
           /\ Append(r, Head(q)) \o Tail(q) = r \o q
<1>1. Len(q) \in Nat /\ Len(q) > 0 /\ Head(q) = q[1] /\ Head(q) \in S
    BY EmptySeq, ElementOfSeq
<1>2. Append(r, Head(q)) \in Seq(S)
    BY <1>1, AppendProperties
<1>3. Tail(q) \in Seq(S)
    BY HeadTailProperties
<1>4. Append(r, Head(q)) \o Tail(q) = r \o q
    BY <1>1, <1>2, <1>3
<1> QED BY <1>2, <1>3, <1>4

\* Pushing an event puts it after all that was pushed before.
LEMMA PutExtends ==
    ASSUME NEW S, NEW r \in Seq(S), NEW q \in Seq(S), NEW e \in S
    PROVE  /\ r \o Append(q, e) \in Seq(S)
           /\ Len(r \o Append(q, e)) = Len(r \o q) + 1
           /\ (r \o Append(q, e))[Len(r \o q) + 1] = e
           /\ \A i \in 1 .. Len(r \o q) : (r \o Append(q, e))[i] = (r \o q)[i]
OBVIOUS

\* Before the first call nobody holds the mutex and nobody sleeps.
LEMMA InitInv == Init => QueueInv
<1> SUFFICES ASSUME Init PROVE QueueInv
    OBVIOUS
<1>1. TypeInv
  <2>1. <<>> \in Seq(Events) OBVIOUS
  <2> QED BY <2>1 DEF Init, TypeInv, OtherPlaces, ReceiverPlaces
<1>2. LockInv BY Threads, QueueAssumption DEF Init, LockInv
<1>3. LateInv BY DEF Init, LateInv
<1>4. NoLostWakeup BY DEF Init, NoLostWakeup
<1> QED BY <1>1, <1>2, <1>3, <1>4 DEF QueueInv

\* Every step of every thread keeps the mutex's discipline, the typing and the
\* promise that a sleeping receiver with something to do is about to be told.
LEMMA NextInv == QueueInv /\ [Next]_queueVars => QueueInv'
<1> SUFFICES ASSUME QueueInv, [Next]_queueVars PROVE QueueInv'
    OBVIOUS
<1> USE DEF QueueInv
<1>a. ASSUME NEW t \in Pushers, pushEvent(t) PROVE QueueInv'
  <2> t \in Others /\ Receiver # t /\ t # None /\ Receiver # None
      BY <1>a, Threads DEF Others
  <2>1. calls[t] + 1 \in Nat /\ calls'[t] = calls[t] + 1
      BY <1>a DEF pushEvent, TypeInv
  <2>2. TypeInv'
    <3>1. <<t, calls'[t]>> \in Events
        BY <2>1 DEF Events
    <3>2. queue_' \in Seq(Events)
        BY <1>a, <3>1, AppendProperties DEF pushEvent, Pushed, TypeInv
    <3> QED BY <1>a, <3>2, <2>1 DEF TypeInv, pushEvent, Locks, OtherPlaces
  <2>3. LockInv' BY <1>a, Threads DEF TypeInv, LockInv, pushEvent, Locks
  <2>4. LateInv' BY <1>a DEF TypeInv, LateInv, pushEvent, Locks
  <2>5. NoLostWakeup' BY <1>a DEF TypeInv, NoLostWakeup, pushEvent, Locks
  <2> QED BY <2>2, <2>3, <2>4, <2>5
<1>b. ASSUME NEW t \in Wakers, wakeDispatcher(t) PROVE QueueInv'
  <2> t \in Others /\ Receiver # t /\ t # None /\ Receiver # None
      BY <1>b, Threads DEF Others
  <2>2. TypeInv' BY <1>b DEF TypeInv, wakeDispatcher, Locks, OtherPlaces
  <2>3. LockInv' BY <1>b, Threads DEF TypeInv, LockInv, wakeDispatcher, Locks
  <2>4. LateInv' BY <1>b DEF TypeInv, LateInv, wakeDispatcher, Locks
  <2>5. NoLostWakeup' BY <1>b DEF TypeInv, NoLostWakeup, wakeDispatcher, Locks
  <2> QED BY <2>2, <2>3, <2>4, <2>5
<1>c. ASSUME NEW t \in Others, notify_one(t) PROVE QueueInv'
  <2> Receiver # t /\ t # None /\ Receiver # None
      BY <1>c, Threads
  <2>1. /\ pc'[t] = "unlock"
        /\ \A u \in Others : u # t => pc'[u] = pc[u]
        /\ pc'[Receiver] = IF pc[Receiver] = "asleep" THEN "woken" ELSE pc[Receiver]
        /\ pc' \in [Others \cup {Receiver} -> OtherPlaces \cup ReceiverPlaces]
      BY <1>c, Threads DEF notify_one, Notified, TypeInv, OtherPlaces, ReceiverPlaces
  <2>2. TypeInv' BY <1>c, <2>1 DEF TypeInv, notify_one, OtherPlaces, ReceiverPlaces
  <2>3. LockInv' BY <1>c, <2>1 DEF TypeInv, LockInv, notify_one
  <2>4. LateInv' BY <1>c, <2>1 DEF TypeInv, LateInv, notify_one
  <2>5. NoLostWakeup' BY <1>c, <2>1 DEF NoLostWakeup, notify_one
  <2> QED BY <2>2, <2>3, <2>4, <2>5
<1>d. ASSUME NEW t \in Others, Unlock(t) PROVE QueueInv'
  <2> Receiver # t /\ t # None /\ Receiver # None
      BY <1>d, Threads
  <2>1. mtx_ = t
      BY <1>d DEF Unlock, LockInv
  <2>2. TypeInv' BY <1>d DEF TypeInv, Unlock, OtherPlaces
  <2>3. LockInv'
      BY <1>d, <2>1, Threads DEF TypeInv, LockInv, Unlock
  <2>4. LateInv' BY <1>d DEF TypeInv, LateInv, Unlock
  <2>5. NoLostWakeup'
      BY <1>d, <2>1 DEF TypeInv, NoLostWakeup, Ready, Unlock
  <2> QED BY <2>2, <2>3, <2>4, <2>5
<1>e. CASE Enter
  <2>2. TypeInv' BY <1>e, Threads DEF TypeInv, Enter, Locks, ReceiverPlaces
  <2>3. LockInv' BY <1>e, Threads, QueueAssumption DEF TypeInv, LockInv, Enter, Locks
  <2>4. LateInv' BY <1>e DEF TypeInv, LateInv, Enter, Locks
  <2>5. NoLostWakeup' BY <1>e DEF TypeInv, NoLostWakeup, Enter, Locks
  <2> QED BY <2>2, <2>3, <2>4, <2>5
<1>f. CASE Sleep
  <2>2. TypeInv' BY <1>f, Threads DEF TypeInv, Sleep, ReceiverPlaces
  <2>3. LockInv' BY <1>f, Threads, QueueAssumption DEF TypeInv, LockInv, Sleep
  <2>4. LateInv' BY <1>f DEF TypeInv, LateInv, Sleep
  <2>5. NoLostWakeup' BY <1>f DEF TypeInv, NoLostWakeup, Sleep, Ready
  <2> QED BY <2>2, <2>3, <2>4, <2>5
<1>g. CASE Relock
  <2>2. TypeInv' BY <1>g, Threads DEF TypeInv, Relock, Locks, AfterSleep, ReceiverPlaces
  <2>3. LockInv' BY <1>g, Threads, QueueAssumption DEF TypeInv, LockInv, Relock, Locks, AfterSleep
  <2>4. LateInv' BY <1>g DEF TypeInv, LateInv, Relock, Locks, AfterSleep
  <2>5. NoLostWakeup' BY <1>g DEF TypeInv, NoLostWakeup, Relock, Locks, AfterSleep
  <2> QED BY <2>2, <2>3, <2>4, <2>5
<1>h. CASE Leave
  <2>1. queue_' \in Seq(Events) /\ received' \in Seq(Events)
    <3>1. CASE Takes
      <4>1. received' = Append(received, Head(queue_)) /\ queue_' = Tail(queue_)
          BY <1>h, <3>1 DEF Leave
      <4>2. queue_ \in Seq(Events) /\ received \in Seq(Events) /\ queue_ # <<>>
          BY <3>1 DEF TypeInv, Takes
      <4> QED BY <4>1, <4>2, TakeKeeps
    <3>2. CASE ~ Takes
        BY <1>h, <3>2 DEF Leave, TypeInv
    <3> QED BY <3>1, <3>2
  <2>2. TypeInv' BY <1>h, <2>1, Threads DEF TypeInv, Leave, ReceiverPlaces
  <2>3. LockInv' BY <1>h, Threads, QueueAssumption DEF TypeInv, LockInv, Leave
  <2>4. LateInv' BY <1>h DEF TypeInv, LateInv, Leave
  <2>5. NoLostWakeup' BY <1>h DEF TypeInv, NoLostWakeup, Leave
  <2> QED BY <2>2, <2>3, <2>4, <2>5
<1>i. CASE Spurious
  <2>2. TypeInv' BY <1>i, Threads DEF TypeInv, Spurious, ReceiverPlaces
  <2>3. LockInv' BY <1>i, Threads DEF TypeInv, LockInv, Spurious
  <2>4. LateInv' BY <1>i DEF TypeInv, LateInv, Spurious
  <2>5. NoLostWakeup' BY <1>i DEF TypeInv, NoLostWakeup, Spurious
  <2> QED BY <2>2, <2>3, <2>4, <2>5
<1>j. CASE TimePasses
  BY <1>j DEF TypeInv, LockInv, LateInv, NoLostWakeup, Ready, TimePasses
<1>k. CASE TimeOut
  <2>2. TypeInv' BY <1>k, Threads DEF TypeInv, TimeOut, ReceiverPlaces
  <2>3. LockInv' BY <1>k, Threads DEF TypeInv, LockInv, TimeOut
  <2>4. LateInv' BY <1>k DEF TypeInv, LateInv, TimeOut
  <2>5. NoLostWakeup' BY <1>k DEF TypeInv, NoLostWakeup, TimeOut
  <2> QED BY <2>2, <2>3, <2>4, <2>5
<1>l. CASE UNCHANGED queueVars
  BY <1>l DEF TypeInv, LockInv, LateInv, NoLostWakeup, Ready, queueVars
<1> QED
  BY <1>a, <1>b, <1>c, <1>d, <1>e, <1>f, <1>g, <1>h, <1>i, <1>j, <1>k, <1>l
     DEF Next, Wait, Call

\* Whatever happens after a push, the pushed events stay where they are: no step
\* but pushEvent() changes the sequence of received and queued events, or the
\* number of calls that a pushing thread has made.
LEMMA HistoryKept ==
    ASSUME QueueInv, [Next]_queueVars, \A t \in Pushers : ~ pushEvent(t)
    PROVE  History' = History /\ \A t \in Pushers : calls'[t] = calls[t]
<1> USE DEF QueueInv
<1>1. CASE Leave
  <2>1. CASE Takes
      BY <1>1, <2>1, TakeKeeps DEF Leave, Takes, TypeInv, History
  <2>2. CASE ~ Takes
      BY <1>1, <2>2 DEF Leave, History
  <2> QED BY <1>1, <2>1, <2>2 DEF Leave
<1>2. CASE Enter \/ Sleep \/ Relock \/ Spurious \/ TimePasses \/ TimeOut
  BY <1>2 DEF Enter, Sleep, Relock, Spurious, TimePasses, TimeOut, History
<1>3. ASSUME NEW t \in Wakers, wakeDispatcher(t)
      PROVE  History' = History /\ \A u \in Pushers : calls'[u] = calls[u]
  BY <1>3, QueueAssumption DEF wakeDispatcher, History, TypeInv, Others
<1>4. ASSUME NEW t \in Others, Call(t)
      PROVE  History' = History /\ \A u \in Pushers : calls'[u] = calls[u]
  BY <1>4 DEF Call, notify_one, Unlock, History
<1>5. CASE UNCHANGED queueVars
  BY <1>5 DEF queueVars, History
<1> QED BY <1>1, <1>2, <1>3, <1>4, <1>5 DEF Next, Wait

\* An event pushed by its thread is the youngest of that thread's.
LEMMA NextOrder == QueueInv /\ InOrderOnce /\ [Next]_queueVars => InOrderOnce'
<1> SUFFICES ASSUME QueueInv, InOrderOnce, [Next]_queueVars PROVE InOrderOnce'
    OBVIOUS
<1> DEFINE m == Len(History)
<1>1. CASE \A t \in Pushers : ~ pushEvent(t)
  <2>1. History' = History /\ \A t \in Pushers : calls'[t] = calls[t]
      BY <1>1, HistoryKept
  <2> QED BY <2>1 DEF InOrderOnce
<1>2. ASSUME NEW t \in Pushers, pushEvent(t) PROVE InOrderOnce'
  <2> DEFINE e == <<t, calls'[t]>>
  <2>1. /\ calls[t] \in Nat
        /\ calls'[t] = calls[t] + 1
        /\ \A u \in Pushers : u # t => calls'[u] = calls[u]
        /\ \A u \in Pushers : calls[u] \in Nat /\ calls'[u] \in Nat
        /\ e \in Events
      BY <1>2 DEF pushEvent, QueueInv, TypeInv, Others, Events
  <2>2. /\ received' = received
        /\ queue_' = Append(queue_, e)
      BY <1>2 DEF pushEvent, Pushed
  <2>3. /\ Len(History') = m + 1
        /\ History'[m + 1] = e
        /\ \A i \in 1 .. m : History'[i] = History[i]
        /\ m \in Nat
      BY <2>1, <2>2, PutExtends, ConcatProperties, LenProperties
         DEF QueueInv, TypeInv, History
  <2>4. ASSUME NEW i \in 1 .. Len(History')
        PROVE  \E u \in Pushers : \E n \in 1 .. calls'[u] : History'[i] = <<u, n>>
    <3>1. CASE i = m + 1
        BY <2>1, <2>3, <3>1
    <3>2. CASE i \in 1 .. m
      <4>1. PICK u \in Pushers : \E n \in 1 .. calls[u] : History[i] = <<u, n>>
          BY <3>2 DEF InOrderOnce
      <4>2. \A n \in 1 .. calls[u] : n \in 1 .. calls'[u]
          BY <2>1
      <4> QED BY <2>3, <3>2, <4>1, <4>2
    <3> QED BY <2>3, <3>1, <3>2
  <2>5. ASSUME NEW u \in Pushers, NEW n \in 1 .. calls'[u]
        PROVE  \E i \in 1 .. Len(History') : History'[i] = <<u, n>>
    <3>1. CASE u = t /\ n = calls'[t]
      <4>1. m + 1 \in 1 .. Len(History') BY <2>3
      <4> QED BY <2>3, <3>1, <4>1
    <3>2. CASE ~ (u = t /\ n = calls'[t])
      <4>1. n \in 1 .. calls[u]
          BY <2>1, <3>2
      <4>2. PICK i \in 1 .. m : History[i] = <<u, n>>
          BY <4>1 DEF InOrderOnce
      <4>3. i \in 1 .. Len(History')
          BY <2>3
      <4> QED BY <2>3, <4>2, <4>3
    <3> QED BY <3>1, <3>2
  <2>6. ASSUME NEW i \in 1 .. Len(History'), NEW j \in 1 .. Len(History'),
               i < j, History'[i][1] = History'[j][1]
        PROVE  History'[i][2] < History'[j][2]
    <3>1. i \in 1 .. m
        BY <2>3, <2>6
    <3>2. CASE j \in 1 .. m
        BY <2>3, <2>6, <3>1, <3>2 DEF InOrderOnce
    <3>3. CASE j = m + 1
      <4>1. PICK u \in Pushers : \E n \in 1 .. calls[u] : History[i] = <<u, n>>
          BY <3>1 DEF InOrderOnce
      <4>2. u = t
          BY <2>3, <2>6, <3>1, <3>3, <4>1
      <4> QED BY <2>1, <2>3, <3>1, <3>3, <4>1, <4>2
    <3> QED BY <2>3, <3>2, <3>3
  <2> QED BY <2>4, <2>5, <2>6 DEF InOrderOnce
<1> QED BY <1>1, <1>2

\* The mutex, the places of the threads and the pending notification agree in
\* every reachable state.
THEOREM QueueInvariant == Spec => []QueueInv
<1>1. QueueInv /\ [Next]_queueVars => QueueInv'
    BY NextInv
<1> QED BY <1>1, InitInv, PTL DEF Spec

\* However many threads push and wake, waitEvent() never sleeps through a
\* notification: its test and its sleep are one step for the others.
THEOREM NoWakeupLost == Spec => []NoLostWakeup
<1>1. QueueInv => NoLostWakeup
    BY DEF QueueInv
<1> QED BY <1>1, QueueInvariant, PTL

\* However many threads push however often, waitEvent() returns every event
\* once, and each thread's in the order in which it pushed them.
THEOREM OrderKept == Spec => []InOrderOnce
<1>1. Init => InOrderOnce
  <2> SUFFICES ASSUME Init PROVE InOrderOnce
      OBVIOUS
  <2>1. Len(History) = 0
      BY DEF Init, History
  <2>2. \A t \in Pushers : calls[t] = 0
      BY DEF Init, Others
  <2> QED BY <2>1, <2>2 DEF InOrderOnce
<1>2. QueueInv /\ InOrderOnce /\ [Next]_queueVars => InOrderOnce'
    BY NextOrder
<1> QED BY <1>1, <1>2, QueueInvariant, PTL DEF Spec

\* Every step of the threads is one of the hand-over's steps, or none that it
\* sees: waitEvent() returns an event if there is one, and false only if its
\* time is up or wakeDispatcher() was called since it began.
THEOREM QueueImplementsHandover == Spec => ImplementsHandover
<1>1. Init => Handover!Init
    BY QueueAssumption DEF Init, Handover!Init
<1>2. QueueInv /\ [Next]_queueVars => [Handover!Next]_(Handover!handoverVars)
  <2> SUFFICES ASSUME QueueInv, [Next]_queueVars
               PROVE  Handover!Next \/ UNCHANGED Handover!handoverVars
      BY DEF Handover!handoverVars
  <2> USE DEF QueueInv
  <2>a. ASSUME NEW t \in Pushers, pushEvent(t) PROVE Handover!Put
    <3>1. t \in Others /\ Receiver # t
        BY Threads DEF Others
    <3>2. pc'[Receiver] = pc[Receiver]
        BY <2>a, <3>1 DEF pushEvent, Locks, TypeInv
    <3>3. <<t, calls'[t]>> \in Events
        BY <2>a, <3>1 DEF pushEvent, TypeInv, Events
    <3>4. Len(queue_') = Len(queue_) + 1 /\ SubSeq(queue_', 1, Len(queue_)) = queue_
        BY <2>a, <3>3 DEF pushEvent, Pushed, TypeInv
    <3> QED BY <2>a, <3>2, <3>4 DEF Handover!Put, pushEvent
  <2>b. ASSUME NEW t \in Wakers, wakeDispatcher(t) PROVE Handover!Ring
    <3>1. t \in Others /\ Receiver # t
        BY Threads DEF Others
    <3> QED BY <2>b, <3>1 DEF Handover!Ring, wakeDispatcher, Locks, TypeInv
  <2>c. ASSUME NEW t \in Others, Call(t) PROVE UNCHANGED Handover!handoverVars
    <3>1. Receiver # t
        BY Threads
    <3>2. (pc'[Receiver] # "out") = (pc[Receiver] # "out")
        BY <2>c, <3>1 DEF Call, notify_one, Notified, Unlock, TypeInv
    <3> QED BY <2>c, <3>2 DEF Call, notify_one, Unlock, Handover!handoverVars
  <2>e. CASE Enter
      BY <2>e DEF Handover!Enter, Handover!Next, Enter, Locks, TypeInv
  <2>f. CASE Sleep \/ Relock \/ Spurious \/ TimeOut
    <3>1. (pc'[Receiver] # "out") = (pc[Receiver] # "out")
        BY <2>f DEF Sleep, Relock, Locks, AfterSleep, Spurious, TimeOut, TypeInv
    <3> QED BY <2>f, <3>1
            DEF Sleep, Relock, Spurious, TimeOut, Handover!handoverVars
  <2>g. CASE TimePasses
      BY <2>g DEF Handover!TimeUp, Handover!Next, TimePasses
  <2>h. CASE Leave
    <3>1. pc[Receiver] # "out" /\ pc'[Receiver] = "out"
        BY <2>h DEF Leave, TypeInv
    <3>2. CASE Takes
        BY <2>h, <3>1, <3>2 DEF Leave, Takes, Handover!Take, Handover!Next
    <3>3. CASE ~ Takes
      <4>1. dispatcher_wake_ \/ due
          BY <2>h, <3>3 DEF Leave, Takes, Ready, LateInv
      <4> QED BY <2>h, <3>1, <3>3, <4>1
              DEF Leave, Takes, Handover!GiveUp, Handover!Next
    <3> QED BY <3>2, <3>3
  <2>i. CASE UNCHANGED queueVars
      BY <2>i DEF queueVars, Handover!handoverVars
  <2> QED BY <2>a, <2>b, <2>c, <2>e, <2>f, <2>g, <2>h, <2>i
          DEF Next, Wait, Handover!Next
<1> QED BY <1>1, <1>2, QueueInvariant, PTL DEF Spec, ImplementsHandover, Handover!Spec
=============================================================================
