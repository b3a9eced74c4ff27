----------------------------- MODULE BurstQueue -----------------------------
(***************************************************************************)
(* The burst queue of AS3: the bounded Queue of src/lib/queue.js and the   *)
(* single QueueConsumer of src/lib/queueConsumer.js that DeclareHandler    *)
(* attaches to it with delegate().                                         *)
(*                                                                         *)
(* The consumer is a promise chain.  Between two turns of the event loop   *)
(* it is in one of three places:                                           *)
(*   "idle"     delegate() is about to call consume();                     *)
(*   "waiting"  consume() found the queue empty and registered a one-shot  *)
(*              listener for the 'enqueue' event (_waitingToConsume);      *)
(*   "busy"     the promise of the callback, which processes inHand, has   *)
(*              not settled.                                               *)
(* enqueue() emits the event synchronously, so when the consumer waits the *)
(* listener takes the item out of the queue inside the call of enqueue().  *)
(***************************************************************************)
EXTENDS Naturals, Sequences

CONSTANTS Requests,      \* the request contexts that may be queued
          Limit,      \* Queue.limit
          None        \* the value of inHand when the consumer is not busy

ASSUME QueueAssumption ==
    /\ Limit \in Nat \ {0}
    /\ None \notin Requests

VARIABLES entries,    \* Queue.entries
          consumer,   \* where the consumer's promise chain is
          inHand      \* the item the callback processes

qvars == <<entries, consumer, inHand>>

ConsumerPlace == {"idle", "waiting", "busy"}

Queued == {entries[k] : k \in DOMAIN entries}

QueueTypeOK ==
    /\ entries \in Seq(Requests)
    /\ Len(entries) <= Limit
    /\ consumer \in ConsumerPlace
    /\ inHand \in Requests \cup {None}

-----------------------------------------------------------------------------

(* The constructor of DeclareHandler makes both and calls delegate(). *)
QueueInit ==
    /\ entries = <<>>
    /\ consumer = "idle"
    /\ inHand = None

(* Mutant of Full: the limit is off by one. *)
FullOffByOne == Len(entries) = Limit + 1

Full == Len(entries) = Limit

(* Mutant of EnqueueToWaiting: the event is emitted to nobody. *)
EnqueueWithoutEvent(item) ==
    /\ consumer = "waiting"
    /\ ~ Full
    /\ entries' = Append(entries, item)
    /\ UNCHANGED <<consumer, inHand>>

(* enqueue(), when somebody listens: the item is pushed and, before the    *)
(* call returns, the listener shifts the first entry and resolves with it. *)
EnqueueToWaiting(item) ==
    /\ consumer = "waiting"
    /\ ~ Full
    /\ LET pushed == Append(entries, item)
       IN  /\ inHand' = Head(pushed)
           /\ entries' = Tail(pushed)
    /\ consumer' = "busy"

(* enqueue(), when nobody listens for the event. *)
EnqueueBehind(item) ==
    /\ consumer # "waiting"
    /\ ~ Full
    /\ entries' = Append(entries, item)
    /\ UNCHANGED <<consumer, inHand>>

Enqueue(item) == EnqueueToWaiting(item) \/ EnqueueBehind(item)

(* enqueue() on a full queue throws and leaves the queue as it was. *)
Refuse == Full /\ UNCHANGED qvars

(* Mutant of TakeNext: the newest entry is taken. *)
TakeLast ==
    /\ consumer = "idle"
    /\ entries # <<>>
    /\ inHand' = entries[Len(entries)]
    /\ entries' = SubSeq(entries, 1, Len(entries) - 1)
    /\ consumer' = "busy"

(* Mutant of TakeNext: the entry is read and left in the queue. *)
TakeWithoutShift ==
    /\ consumer = "idle"
    /\ entries # <<>>
    /\ inHand' = Head(entries)
    /\ consumer' = "busy"
    /\ UNCHANGED entries

(* consume() with something in the queue. *)
TakeNext ==
    /\ consumer = "idle"
    /\ entries # <<>>
    /\ inHand' = Head(entries)
    /\ entries' = Tail(entries)
    /\ consumer' = "busy"

(* Mutant of WaitForEntry: the consumer listens without looking first. *)
WaitUnchecked ==
    /\ consumer = "idle"
    /\ consumer' = "waiting"
    /\ UNCHANGED <<entries, inHand>>

(* consume() with nothing in the queue: the check and the registration of  *)
(* the listener happen in one turn of the event loop.                      *)
WaitForEntry ==
    /\ consumer = "idle"
    /\ entries = <<>>
    /\ consumer' = "waiting"
    /\ UNCHANGED <<entries, inHand>>

(* The callback's promise settles, fulfilled or rejected: delegate() logs  *)
(* a rejection and calls itself again either way.                          *)
CallbackSettles ==
    /\ consumer = "busy"
    /\ consumer' = "idle"
    /\ inHand' = None
    /\ UNCHANGED entries

QueueNext ==
    \/ \E item \in Requests :
          /\ item \notin Queued \cup {inHand}
          /\ Enqueue(item) \/ Refuse
    \/ TakeNext
    \/ WaitForEntry
    \/ CallbackSettles

QueueSpec == QueueInit /\ [][QueueNext]_qvars

(* delegate()'s steps run by themselves; the callback's promise is assumed *)
(* to settle.  Nothing makes a caller enqueue.                             *)
QueueFairSpec ==
    /\ QueueSpec
    /\ WF_qvars(TakeNext)
    /\ WF_qvars(WaitForEntry)
    /\ WF_qvars(CallbackSettles)

-----------------------------------------------------------------------------

(* No wake-up is lost: while the consumer listens for 'enqueue' nothing is *)
(* in the queue, so no entry waits for an event that was already emitted,  *)
(* and the consumer holds an item exactly while its callback runs          *)
(* (QueueConsumer.consume and delegate).                                   *)
NoLostWakeup ==
    /\ consumer = "waiting" => entries = <<>>
    /\ (inHand = None) <=> (consumer # "busy")

(* A request context is in one place only: never twice in the queue, and   *)
(* never still queued while the callback already processes it              *)
(* (Queue.enqueue, Queue.dequeue).                                         *)
OnePlace ==
    /\ \A j, k \in DOMAIN entries : entries[j] = entries[k] => j = k
    /\ inHand \notin Queued

(* Queue and consumer together serve one caller at a time, in the order of *)
(* their arrival, and leave nobody in the line for ever.                   *)
Service == INSTANCE SerialService
    WITH Callers <- Requests, Room <- Limit, Nobody <- None,
         line <- entries, serving <- inHand

ServesInOrder == Service!Spec

ServesEverybody == Service!FairSpec

=============================================================================
