------------------------- MODULE BurstQueue_proofs -------------------------
(***************************************************************************)
(* What holds of the burst queue for every limit and every set of request  *)
(* contexts: its types, that no wake-up is lost, that no context is in two *)
(* places, and that it implements SerialService, step by step.             *)
(***************************************************************************)
EXTENDS BurstQueue, SequenceTheorems, TLAPS

(* The three facts are inductive together: that a context handed to the    *)
(* waiting listener is the only entry needs NoLostWakeup.                  *)
QueueInv == QueueTypeOK /\ NoLostWakeup /\ OnePlace

-----------------------------------------------------------------------------

(* What Append, Head and Tail do to the entries, in the words of Queued.   *)
LEMMA AppendedEntry ==
    ASSUME NEW S, NEW s \in Seq(S), NEW x \in S
    PROVE  /\ Append(s, x) \in Seq(S)
           /\ Len(Append(s, x)) = Len(s) + 1
           /\ \A k \in 1..Len(s) : Append(s, x)[k] = s[k]
           /\ Append(s, x)[Len(s) + 1] = x
  OBVIOUS

LEMMA ShiftedEntry ==
    ASSUME NEW S, NEW s \in Seq(S), s # <<>>
    PROVE  /\ Head(s) \in S
           /\ Head(s) = s[1]
           /\ Tail(s) \in Seq(S)
           /\ Len(s) \in Nat \ {0}
           /\ Len(Tail(s)) = Len(s) - 1
           /\ \A k \in 1..Len(Tail(s)) : Tail(s)[k] = s[k + 1]
  OBVIOUS

(* The listener finds the context that was just pushed and nothing else.   *)
LEMMA HandedOver ==
    ASSUME NEW S, NEW x \in S, NEW s, s = <<>>
    PROVE  Head(Append(s, x)) = x /\ Tail(Append(s, x)) = <<>>
  OBVIOUS

(* Entries never exceed the limit, and every variable keeps its type: a    *)
(* step that pushes found the queue not full (Queue.enqueue).              *)
THEOREM QueueInvInit == QueueInit => QueueInv
  BY QueueAssumption DEF QueueInit, QueueInv, QueueTypeOK, NoLostWakeup,
                         OnePlace, Queued, ConsumerPlace

(* An enqueue() preserves the invariant; it is told apart whether the      *)
(* consumer listens.                                                       *)
LEMMA EnqueueKeepsQueueInv ==
    ASSUME QueueInv, NEW item \in Requests,
           item \notin Queued \cup {inHand},
           Enqueue(item)
    PROVE  QueueInv'
  <1> USE QueueAssumption DEF QueueInv
  <1>1. entries \in Seq(Requests) /\ Len(entries) \in Nat /\ Len(entries) <= Limit
    BY DEF QueueTypeOK
  <1>2. CASE EnqueueToWaiting(item)
    <2>1. consumer = "waiting" /\ entries = <<>>
      BY <1>2 DEF EnqueueToWaiting, NoLostWakeup
    <2>2. inHand' = item /\ entries' = <<>> /\ consumer' = "busy"
      BY <1>2, <2>1, HandedOver DEF EnqueueToWaiting
    <2> QED
      BY <2>2 DEF QueueTypeOK, NoLostWakeup, OnePlace, Queued, ConsumerPlace
  <1>3. CASE EnqueueBehind(item)
    <2>1. /\ entries' = Append(entries, item)
          /\ consumer' = consumer /\ inHand' = inHand
          /\ consumer # "waiting"
          /\ Len(entries) < Limit
      BY <1>1, <1>3 DEF EnqueueBehind, Full
    <2>2. /\ entries' \in Seq(Requests)
          /\ Len(entries') = Len(entries) + 1
          /\ \A k \in 1..Len(entries) : entries'[k] = entries[k]
          /\ entries'[Len(entries) + 1] = item
          /\ DOMAIN entries = 1..Len(entries)
          /\ DOMAIN entries' = 1..Len(entries')
      BY <1>1, <2>1, AppendedEntry
    <2>3. QueueTypeOK'
      BY <1>1, <2>1, <2>2 DEF QueueTypeOK
    <2>4. NoLostWakeup'
      BY <2>1 DEF NoLostWakeup
    <2>5. \A k \in DOMAIN entries : entries[k] # item
      BY DEF Queued
    <2>6. OnePlace'
      <3>1. ASSUME NEW j \in DOMAIN entries', NEW k \in DOMAIN entries',
                   entries'[j] = entries'[k]
            PROVE  j = k
        BY <1>1, <2>2, <2>5, <3>1 DEF OnePlace
      <3>2. inHand' \notin Queued'
        <4>1. \A k \in DOMAIN entries : entries[k] # inHand
          BY DEF OnePlace, Queued
        <4>2. ASSUME NEW k \in DOMAIN entries' PROVE entries'[k] # inHand
          BY <1>1, <2>2, <4>1
        <4> QED
          BY <2>1, <4>2 DEF Queued
      <3> QED
        BY <3>1, <3>2 DEF OnePlace
    <2> QED
      BY <2>3, <2>4, <2>6
  <1> QED
    BY <1>2, <1>3 DEF Enqueue

(* consume() on a queue that is not empty preserves the invariant.         *)
LEMMA TakeNextKeepsQueueInv ==
    ASSUME QueueInv, TakeNext
    PROVE  QueueInv'
  <1> USE QueueAssumption DEF QueueInv
  <1>1. /\ entries \in Seq(Requests) /\ entries # <<>>
        /\ inHand' = Head(entries) /\ entries' = Tail(entries)
        /\ consumer' = "busy"
    BY DEF QueueTypeOK, TakeNext
  <1>2. /\ Len(entries) \in Nat \ {0} /\ Len(entries) <= Limit
        /\ inHand' \in Requests /\ inHand' = entries[1]
        /\ entries' \in Seq(Requests)
        /\ Len(entries') = Len(entries) - 1
        /\ \A k \in 1..Len(entries') : entries'[k] = entries[k + 1]
        /\ DOMAIN entries = 1..Len(entries)
        /\ DOMAIN entries' = 1..Len(entries')
    BY <1>1, ShiftedEntry DEF QueueTypeOK
  <1>3. QueueTypeOK'
    BY <1>1, <1>2 DEF QueueTypeOK, ConsumerPlace
  <1>4. NoLostWakeup'
    BY <1>1, <1>2 DEF NoLostWakeup
  <1>5. OnePlace'
    <2>1. ASSUME NEW j \in DOMAIN entries', NEW k \in DOMAIN entries',
                 entries'[j] = entries'[k]
          PROVE  j = k
      BY <1>2, <2>1 DEF OnePlace
    <2>2. ASSUME NEW k \in DOMAIN entries' PROVE entries'[k] # inHand'
      <3>1. k + 1 \in DOMAIN entries /\ 1 \in DOMAIN entries /\ k + 1 # 1
        BY <1>2
      <3> QED
        BY <1>2, <3>1 DEF OnePlace
    <2> QED
      BY <2>1, <2>2 DEF OnePlace, Queued
  <1> QED
    BY <1>3, <1>4, <1>5

LEMMA QueueStepKeepsQueueInv ==
    ASSUME QueueInv, [QueueNext]_qvars
    PROVE  QueueInv'
  <1> USE QueueAssumption DEF QueueInv
  <1>1. ASSUME NEW item \in Requests, item \notin Queued \cup {inHand},
               Enqueue(item)
        PROVE  QueueInv'
    BY <1>1, EnqueueKeepsQueueInv
  <1>2. CASE UNCHANGED qvars
    BY <1>2 DEF qvars, QueueTypeOK, NoLostWakeup, OnePlace, Queued
  <1>3. CASE TakeNext
    BY <1>3, TakeNextKeepsQueueInv
  <1>4. CASE WaitForEntry
    BY <1>4 DEF WaitForEntry, QueueTypeOK, NoLostWakeup, OnePlace, Queued,
                ConsumerPlace
  <1>5. CASE CallbackSettles
    <2>1. \A k \in DOMAIN entries : entries[k] \in Requests
      BY DEF QueueTypeOK
    <2> QED
      BY <1>5, <2>1 DEF CallbackSettles, QueueTypeOK, NoLostWakeup, OnePlace,
                        Queued, ConsumerPlace
  <1> QED
    BY <1>1, <1>2, <1>3, <1>4, <1>5 DEF QueueNext, Refuse

THEOREM QueueInvariant == QueueSpec => []QueueInv
  <1>1. QueueInit => QueueInv
    BY QueueInvInit
  <1>2. QueueInv /\ [QueueNext]_qvars => QueueInv'
    BY QueueStepKeepsQueueInv
  <1> QED
    BY <1>1, <1>2, PTL DEF QueueSpec

(* The queue never holds more than its limit, for every limit.             *)
THEOREM QueueTyped == QueueSpec => []QueueTypeOK
  BY QueueInvariant, PTL DEF QueueInv

(* While the consumer listens for 'enqueue' the queue is empty.            *)
THEOREM QueueWakes == QueueSpec => []NoLostWakeup
  BY QueueInvariant, PTL DEF QueueInv

(* No context is twice in the queue, or queued and in processing.          *)
THEOREM QueueOnePlace == QueueSpec => []OnePlace
  BY QueueInvariant, PTL DEF QueueInv

-----------------------------------------------------------------------------

(* A push to the waiting consumer is a caller that walks in, any other     *)
(* push joins the line, and consume() serves its head.                     *)
LEMMA QueueStepServes ==
    ASSUME QueueInv, [QueueNext]_qvars
    PROVE  [Service!Next]_(Service!vars)
  <1> USE QueueAssumption
  <1>1. entries \in Seq(Requests) /\ Len(entries) \in Nat /\ Len(entries) <= Limit
    BY DEF QueueInv, QueueTypeOK
  <1>2. ASSUME NEW item \in Requests, item \notin Queued \cup {inHand},
               Enqueue(item)
        PROVE  Service!Next
    <2>1. CASE EnqueueToWaiting(item)
      <3>1. entries = <<>> /\ inHand = None
        BY <2>1 DEF EnqueueToWaiting, QueueInv, NoLostWakeup
      <3>2. inHand' = item /\ entries' = <<>>
        BY <2>1, <3>1, HandedOver DEF EnqueueToWaiting
      <3>3. Service!WalkIn(item)
        BY <3>1, <3>2 DEF Service!WalkIn
      <3> QED
        BY <3>3 DEF Service!Next
    <2>2. CASE EnqueueBehind(item)
      <3>1. Service!Join(item)
        BY <1>1, <1>2, <2>2
        DEF EnqueueBehind, Full, Service!Join, Service!Present, Queued
      <3> QED
        BY <3>1 DEF Service!Next
    <2> QED
      BY <1>2, <2>1, <2>2 DEF Enqueue
  <1>3. CASE UNCHANGED qvars
    BY <1>3 DEF qvars, Service!vars
  <1>4. CASE TakeNext
    <2>1. Service!Serve
      BY <1>4 DEF TakeNext, Service!Serve, QueueInv, NoLostWakeup
    <2> QED
      BY <2>1 DEF Service!Next
  <1>5. CASE WaitForEntry
    BY <1>5 DEF WaitForEntry, Service!vars
  <1>6. CASE CallbackSettles
    <2>1. Service!Leave
      BY <1>6 DEF CallbackSettles, Service!Leave, QueueInv, NoLostWakeup
    <2> QED
      BY <2>1 DEF Service!Next
  <1> QED
    BY <1>2, <1>3, <1>4, <1>5, <1>6 DEF QueueNext, Refuse

(* Burst handling serves one request at a time, in the order of arrival:   *)
(* queue and consumer implement the abstract service.                      *)
THEOREM QueueServesInOrder == QueueSpec => ServesInOrder
  <1>1. QueueInit => Service!Init
    BY DEF QueueInit, Service!Init
  <1>2. QueueInv /\ [QueueNext]_qvars => [Service!Next]_(Service!vars)
    BY QueueStepServes
  <1> QED
    BY <1>1, <1>2, QueueInvariant, PTL DEF QueueSpec, ServesInOrder, Service!Spec

=============================================================================
