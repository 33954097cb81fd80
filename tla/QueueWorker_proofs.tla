-------------------------- MODULE QueueWorker_proofs --------------------------
(* What TLAPS proves of QueueWorker.tla for every number of messages,        *)
(* servers and deliveries, and for all times that keep the order of those    *)
(* in the code: its types, that a server handles an entry once at a time,    *)
(* and, until something fails or stalls, that a parallel handler runs under  *)
(* the lease of its message and that a message is handled once.              *)
EXTENDS QueueWorker, TLAPS

USE NobodyAssumption, TimesAssumption

-------------------------------------------------------------------------------
(* Types.                                                                    *)
LEMMA Live ==
  ASSUME TypeOK, NEW d \in Deliveries, ~At(d, "free")
  PROVE  /\ delivery[d] \in Delivery
         /\ Item(d) \in Entries /\ Server(d) \in Servers
         /\ delivery[d].left \in 0..DequeueLease /\ delivery[d].ping \in 0..KeepAlive
         /\ message[Item(d)] \in Message
<1>1. delivery[d] \in Delivery
  BY DEF TypeOK, At, Free
<1> QED
  BY <1>1 DEF Delivery, Item, Server, TypeOK

LEMMA StepsAreNotFree == "free" \notin Steps
BY DEF Steps

LEMMA GoneIsMessage == Gone \in Message
BY DEF Gone, Message

LEMMA LessType ==
  ASSUME NEW m \in Nat, NEW n \in 0..m
  PROVE  Less(n) \in 0..m /\ (n > 0 => Less(n) = n - 1)
BY DEF Less

(* What the operations of a delivery do to the messages.                     *)
LEMMA PingedMessages ==
  ASSUME TypeOK, NEW d \in Deliveries, ~At(d, "free"), NEW lease \in 0..DequeueLease
  PROVE  /\ Pinged(d, lease) \in [Entries -> Message]
         /\ \A e \in Entries : /\ Pinged(d, lease)[e].queued = message[e].queued
                               /\ Pinged(d, lease)[e].receipt = message[e].receipt
                               /\ message[e].receipt # d => Pinged(d, lease)[e] = message[e]
         /\ Holds(d) => Pinged(d, lease)[Item(d)].left = lease
<1>1. Item(d) \in Entries /\ message[Item(d)] \in Message /\ message \in [Entries -> Message]
  BY Live DEF TypeOK
<1>2. CASE ~Holds(d)
  BY <1>1, <1>2 DEF Pinged
<1>3. CASE Holds(d)
  <2>1. /\ [message[Item(d)] EXCEPT !.left = lease] \in Message
        /\ [message[Item(d)] EXCEPT !.left = lease].left = lease
        /\ [message[Item(d)] EXCEPT !.left = lease].queued = message[Item(d)].queued
        /\ [message[Item(d)] EXCEPT !.left = lease].receipt = message[Item(d)].receipt
    BY <1>1 DEF Message
  <2>2. Pinged(d, lease) = [message EXCEPT ![Item(d)] = [message[Item(d)] EXCEPT !.left = lease]]
    BY <1>1, <1>3 DEF Pinged
  <2> QED
    BY <1>1, <1>3, <2>1, <2>2 DEF Holds
<1> QED
  BY <1>2, <1>3

LEMMA CompletedMessages ==
  ASSUME TypeOK, NEW d \in Deliveries, ~At(d, "free")
  PROVE  /\ Completed(d) \in [Entries -> Message]
         /\ \A e \in Entries : /\ Completed(d)[e] = Gone \/ Completed(d)[e] = message[e]
                               /\ message[e].receipt # d => Completed(d)[e] = message[e]
         /\ Holds(d) => Completed(d)[Item(d)] = Gone
BY Live, GoneIsMessage DEF Completed, Holds, TypeOK

LEMMA EndStep ==
  ASSUME TypeOK, NEW d \in Deliveries, ~At(d, "free"), NEW msgs \in [Entries -> Message], End(d, msgs)
  PROVE  /\ message' \in [Entries -> Message]
         /\ delivery' \in [Deliveries -> Delivery \cup {Free}]
         /\ At(d, "free")' /\ \A k \in Deliveries : k # d => delivery'[k] = delivery[k]
         /\ \A e \in Entries :
               /\ message'[e].queued = msgs[e].queued
               /\ message'[e].receipt \in {msgs[e].receipt, Nobody}
               /\ msgs[e].receipt # d => message'[e] = msgs[e]
<1>1. Item(d) \in Entries /\ msgs[Item(d)] \in Message
  BY Live
<1> DEFINE m == Forget(msgs[Item(d)], d)
<1>2. /\ m \in Message /\ m.queued = msgs[Item(d)].queued
      /\ m.receipt \in {msgs[Item(d)].receipt, Nobody}
      /\ msgs[Item(d)].receipt # d => m = msgs[Item(d)]
  BY <1>1 DEF Forget, Message
<1>3. message' = [msgs EXCEPT ![Item(d)] = m]
  BY DEF End
<1> HIDE DEF m
<1>4. /\ message' \in [Entries -> Message]
      /\ \A e \in Entries :
            /\ message'[e].queued = msgs[e].queued
            /\ message'[e].receipt \in {msgs[e].receipt, Nobody}
            /\ msgs[e].receipt # d => message'[e] = msgs[e]
  BY <1>1, <1>2, <1>3
<1>5. /\ delivery' \in [Deliveries -> Delivery \cup {Free}]
      /\ At(d, "free")' /\ \A k \in Deliveries : k # d => delivery'[k] = delivery[k]
  BY DEF End, TypeOK, At, Free
<1> QED
  BY <1>4, <1>5

(* A delivery that goes on: the others, and what it is a delivery of, stay.  *)
LEMMA GoStep ==
  ASSUME TypeOK, NEW d \in Deliveries, ~At(d, "free"), NEW step \in Steps, Go(d, step)
  PROVE  /\ delivery' \in [Deliveries -> Delivery \cup {Free}]
         /\ At(d, step)' /\ \A k \in Deliveries : k # d => delivery'[k] = delivery[k]
         /\ \A k \in Deliveries :
               /\ ~At(k, "free") => /\ Item(k)' = Item(k) /\ Server(k)' = Server(k)
                                    /\ delivery'[k].left = delivery[k].left
                                    /\ delivery'[k].ping = delivery[k].ping
                                    /\ delivery'[k].keyed = delivery[k].keyed
<1>1. delivery[d] \in Delivery
  BY Live
<1> DEFINE new == [delivery[d] EXCEPT !.step = step]
<1>2. /\ new \in Delivery /\ new.step = step /\ new.entry = delivery[d].entry
      /\ new.server = delivery[d].server /\ new.left = delivery[d].left
      /\ new.ping = delivery[d].ping /\ new.keyed = delivery[d].keyed
  BY <1>1 DEF Delivery
<1>3. delivery' = [delivery EXCEPT ![d] = new]
  BY DEF Go
<1> HIDE DEF new
<1> QED
  BY <1>2, <1>3 DEF TypeOK, At, Item, Server

LEMMA TimeStep ==
  ASSUME TypeOK, TimePasses
  PROVE  /\ message' \in [Entries -> Message]
         /\ delivery' \in [Deliveries -> Delivery \cup {Free}]
         /\ \A e \in Entries : /\ message'[e].queued = message[e].queued
                               /\ message'[e].receipt = message[e].receipt
                               /\ message'[e].left = Less(message[e].left)
         /\ \A d \in Deliveries :
               /\ \A step \in Steps \cup {"free"} : At(d, step)' <=> At(d, step)
               /\ ~At(d, "free") => /\ Item(d)' = Item(d) /\ Server(d)' = Server(d)
                                    /\ delivery'[d].left = Less(delivery[d].left)
                                    /\ delivery'[d].ping = Less(delivery[d].ping)
                                    /\ delivery'[d].keyed = delivery[d].keyed
<1>1. ASSUME NEW e \in Entries
      PROVE  /\ message'[e] \in Message
             /\ message'[e].queued = message[e].queued
             /\ message'[e].receipt = message[e].receipt
             /\ message'[e].left = Less(message[e].left)
  <2>1. message[e] \in Message /\ Less(message[e].left) \in 0..DequeueLease
    BY LessType DEF TypeOK, Message
  <2> DEFINE new == [message[e] EXCEPT !.left = Less(message[e].left)]
  <2>2. /\ new \in Message /\ new.queued = message[e].queued
        /\ new.receipt = message[e].receipt /\ new.left = Less(message[e].left)
    BY <2>1 DEF Message
  <2>3. message'[e] = new
    BY DEF TimePasses
  <2> QED
    BY <2>2, <2>3
<1>2. message' \in [Entries -> Message]
  BY <1>1 DEF TimePasses
<1>3. ASSUME NEW d \in Deliveries, At(d, "free")
      PROVE  delivery'[d] = Free /\ delivery'[d].step = "free"
  BY <1>3 DEF TimePasses, Free
<1>4. ASSUME NEW d \in Deliveries, ~At(d, "free")
      PROVE  /\ delivery'[d] \in Delivery /\ delivery'[d].step = delivery[d].step
             /\ Item(d)' = Item(d) /\ Server(d)' = Server(d)
             /\ delivery'[d].left = Less(delivery[d].left)
             /\ delivery'[d].ping = Less(delivery[d].ping)
             /\ delivery'[d].keyed = delivery[d].keyed
  <2>1. /\ delivery[d] \in Delivery
        /\ Less(delivery[d].left) \in 0..DequeueLease /\ Less(delivery[d].ping) \in 0..KeepAlive
    BY <1>4, Live, LessType
  <2> DEFINE new == [delivery[d] EXCEPT !.left = Less(delivery[d].left),
                                        !.ping = Less(delivery[d].ping)]
  <2>2. /\ new \in Delivery /\ new.step = delivery[d].step /\ new.entry = delivery[d].entry
        /\ new.server = delivery[d].server /\ new.left = Less(delivery[d].left)
        /\ new.ping = Less(delivery[d].ping) /\ new.keyed = delivery[d].keyed
    BY <2>1 DEF Delivery
  <2>3. delivery'[d] = new
    BY <1>4 DEF TimePasses
  <2> QED
    BY <2>2, <2>3 DEF Item, Server
<1>5. delivery' \in [Deliveries -> Delivery \cup {Free}]
  <2>1. \A d \in Deliveries : delivery'[d] \in Delivery \cup {Free}
    BY <1>3, <1>4
  <2>2. \E f : delivery' = [d \in Deliveries |-> f[d]]
    <3>1. delivery' = [d \in Deliveries |-> delivery'[d]]
      BY DEF TimePasses
    <3> QED
      BY <3>1
  <2> QED
    BY <2>1, <2>2
<1> QED
  BY <1>1, <1>2, <1>3, <1>4, <1>5 DEF At

LEMMA RemovedType ==
  ASSUME TypeOK, NEW d \in Deliveries, ~At(d, "free")
  PROVE  Removed(d) \in [Servers -> SUBSET Entries]
BY Live DEF Removed, TypeOK

(* A message handed out, its delivery, one handed over and one handled.      *)
LEMMA HandedOutMessage ==
  ASSUME NEW m \in Message, NEW d \in Deliveries
  PROVE  /\ HandedOut(m, d) \in Message
         /\ HandedOut(m, d).receipt = d /\ HandedOut(m, d).left = DequeueLease
         /\ HandedOut(m, d).queued = m.queued
<1> DEFINE c == More(m.count)
           x == [m EXCEPT !.receipt = d]
           y == [x EXCEPT !.left = DequeueLease]
           z == [y EXCEPT !.count = c]
<1>1. c \in 0..(MaxDequeues + 1)
  BY DEF Message, More
<1> HIDE DEF c
<1>2. x \in Message /\ x.receipt = d /\ x.queued = m.queued /\ x.count = m.count
  BY DEF Message
<1> HIDE DEF x
<1>3. y \in Message /\ y.receipt = d /\ y.queued = m.queued /\ y.left = DequeueLease
      /\ y.count = m.count
  BY <1>2 DEF Message
<1> HIDE DEF y
<1>4. z \in Message /\ z.receipt = d /\ z.queued = m.queued /\ z.left = DequeueLease
  BY <1>1, <1>3 DEF Message
<1> HIDE DEF z
<1>5. HandedOut(m, d) = z
  <2>1. HandedOut(m, d) = [m EXCEPT !.receipt = d, !.left = DequeueLease, !.count = c]
    BY DEF HandedOut, c, Message
  <2> QED
    BY <2>1 DEF x, y, z
<1> QED
  BY <1>4, <1>5

LEMMA NewDeliveryType ==
  ASSUME TypeOK, NEW e \in Entries, NEW s \in Servers
  PROVE  /\ NewDelivery(e, s) \in Delivery
         /\ NewDelivery(e, s).step = "waiting" /\ NewDelivery(e, s).entry = e
         /\ NewDelivery(e, s).left = DequeueLease /\ NewDelivery(e, s).keyed = FALSE
<1>1. More(message[e].count) \in 0..(MaxDequeues + 1)
  BY DEF TypeOK, Message, More
<1> QED
  BY <1>1 DEF NewDelivery, Delivery, Steps

LEMMA QueuedDelivery ==
  ASSUME NEW x \in Delivery
  PROVE  /\ Queued(x) \in Delivery
         /\ Queued(x).step = "waiting" /\ Queued(x).keyed = TRUE
         /\ Queued(x).entry = x.entry /\ Queued(x).server = x.server
BY DEF Queued, Delivery, Steps

LEMMA UnderWayDelivery ==
  ASSUME NEW x \in Delivery
  PROVE  /\ UnderWay(x) \in Delivery
         /\ UnderWay(x).step = "handling" /\ UnderWay(x).ping = KeepAlive
         /\ UnderWay(x).entry = x.entry /\ UnderWay(x).server = x.server
         /\ UnderWay(x).keyed = x.keyed
<1> DEFINE a == [x EXCEPT !.left = 0]
           b == [a EXCEPT !.ping = KeepAlive]
           c == [b EXCEPT !.step = "handling"]
<1>1. a \in Delivery /\ a.entry = x.entry /\ a.server = x.server /\ a.keyed = x.keyed
  BY DEF Delivery
<1> HIDE DEF a
<1>2. /\ b \in Delivery /\ b.entry = x.entry /\ b.server = x.server /\ b.keyed = x.keyed
      /\ b.ping = KeepAlive
  BY <1>1 DEF Delivery
<1> HIDE DEF b
<1>3. /\ c \in Delivery /\ c.entry = x.entry /\ c.server = x.server /\ c.keyed = x.keyed
      /\ c.ping = KeepAlive /\ c.step = "handling"
  BY <1>2 DEF Delivery, Steps
<1> HIDE DEF c
<1>4. UnderWay(x) = c
  BY DEF UnderWay, a, b, c
<1> QED
  BY <1>3, <1>4

(* A hand-over that fails ends its delivery, with or without the ping of       *)
(* OnError; where it is not OnError's, the pair is left for the finally.       *)
LEMMA HandOverEnds ==
  ASSUME TypeOK, NEW d \in Deliveries, HandOverFails(d)
  PROVE  /\ ~At(d, "free") /\ ~At(d, "complete") /\ UNCHANGED <<keyed, successes, faults>>
         /\ \E msgs \in [Entries -> Message] :
               /\ End(d, msgs)
               /\ \A e \in Entries : /\ msgs[e].queued = message[e].queued
                                     /\ msgs[e].receipt = message[e].receipt
                                     /\ message[e].receipt # d => msgs[e] = message[e]
<1>1. /\ ~At(d, "free") /\ ~At(d, "complete") /\ UNCHANGED <<keyed, successes, faults>>
      /\ End(d, message) \/ End(d, Pinged(d, ErrorLease))
  BY DEF HandOverFails, At
<1>2. CASE End(d, message)
  BY <1>1, <1>2 DEF TypeOK
<1>3. CASE End(d, Pinged(d, ErrorLease))
  BY <1>1, <1>3, PingedMessages
<1> QED
  BY <1>1, <1>2, <1>3

LEMMA TypeStep == TypeOK /\ [Next]_vars => TypeOK'
<1> SUFFICES ASSUME TypeOK, [Next]_vars PROVE TypeOK'
  OBVIOUS
<1>0. ASSUME NEW lease \in {PingLease, ErrorLease} PROVE lease \in 0..DequeueLease
  OBVIOUS
<1>a. Steps \cap {"free"} = {} /\ {"ping", "pinged", "handling", "complete", "waiting"} \subseteq Steps
  BY DEF Steps
<1>1. ASSUME NEW s \in Servers, NEW e \in Entries, Dequeue(s, e) PROVE TypeOK'
  <2>1. PICK d \in Deliveries :
          /\ message' = [message EXCEPT ![e] = HandedOut(@, d)]
          /\ delivery' = [delivery EXCEPT ![d] = NewDelivery(e, s)]
    BY <1>1 DEF Dequeue
  <2>2. HandedOut(message[e], d) \in Message /\ NewDelivery(e, s) \in Delivery
    BY HandedOutMessage, NewDeliveryType DEF TypeOK
  <2>3. message' \in [Entries -> Message] /\ delivery' \in [Deliveries -> Delivery \cup {Free}]
    BY <2>1, <2>2 DEF TypeOK
  <2> QED
    BY <1>1, <2>3 DEF Dequeue, TypeOK
<1>2. ASSUME NEW d \in Deliveries, Take(d) PROVE TypeOK'
  BY <1>2, <1>a, GoStep DEF Take, TypeOK, At
<1>3. ASSUME NEW d \in Deliveries, TakeLate(d) \/ Skip(d) PROVE TypeOK'
  <2>1. ~At(d, "free") /\ End(d, message) /\ message \in [Entries -> Message]
    BY <1>3 DEF TakeLate, Skip, At, TypeOK
  <2>2. message' \in [Entries -> Message] /\ delivery' \in [Deliveries -> Delivery \cup {Free}]
    BY <2>1, EndStep
  <2> QED
    BY <1>3, <2>2 DEF TakeLate, Skip, TypeOK
<1>4. ASSUME NEW d \in Deliveries, Ping(d) PROVE TypeOK'
  <2>1. /\ ~At(d, "free") /\ Pinged(d, PingLease) \in [Entries -> Message]
        /\ Completed(d) \in [Entries -> Message]
    BY <1>4, <1>0, PingedMessages, CompletedMessages DEF Ping, At
  <2>2. message' \in [Entries -> Message] /\ delivery' \in [Deliveries -> Delivery \cup {Free}]
    BY <1>4, <1>a, <2>1, EndStep, GoStep DEF Ping
  <2> QED
    BY <1>4, <2>2 DEF Ping, TypeOK
<1>5. ASSUME NEW d \in Deliveries, Invoke(d) PROVE TypeOK'
  <2>1. /\ ~At(d, "free") /\ delivery[d] \in Delivery /\ Item(d) \in Entries
        /\ Server(d) \in Servers
    BY <1>5, Live DEF Invoke, At
  <2>2. Queued(delivery[d]) \in Delivery /\ UnderWay(delivery[d]) \in Delivery
    BY <2>1, QueuedDelivery, UnderWayDelivery
  <2>3. delivery' \in [Deliveries -> Delivery \cup {Free}] /\ handing' \subseteq Servers \X Entries
    BY <1>5, <2>1, <2>2 DEF Invoke, TypeOK
  <2>4. inFlight' \in [Servers -> SUBSET Entries]
    BY <1>5, <2>1 DEF Invoke, TypeOK
  <2> QED
    BY <1>5, <2>3, <2>4 DEF Invoke, TypeOK
<1>6. ASSUME NEW s \in Servers, NEW e \in Entries, HandedOver(s, e) PROVE TypeOK'
  BY <1>6 DEF HandedOver, TypeOK
<1>7. ASSUME NEW d \in Deliveries, KeepAlivePing(d) PROVE TypeOK'
  <2>1. ~At(d, "free") /\ Pinged(d, PingLease) \in [Entries -> Message] /\ delivery[d] \in Delivery
    BY <1>7, <1>0, PingedMessages, Live DEF KeepAlivePing, At
  <2>2. [delivery[d] EXCEPT !.ping = KeepAlive] \in Delivery
    BY <2>1 DEF Delivery
  <2>3. delivery' \in [Deliveries -> Delivery \cup {Free}]
    BY <1>7, <2>2 DEF KeepAlivePing, TypeOK
  <2> QED
    BY <1>7, <2>1, <2>3 DEF KeepAlivePing, TypeOK
<1>8. ASSUME NEW d \in Deliveries, Handled(d) PROVE TypeOK'
  <2>1. ~At(d, "free") /\ Go(d, "complete")
    BY <1>8 DEF Handled, At
  <2>2. delivery' \in [Deliveries -> Delivery \cup {Free}]
    BY <1>a, <2>1, GoStep
  <2>3. successes' \in [Entries -> 0..2]
    BY <1>8, <2>1, Live DEF Handled, TypeOK
  <2> QED
    BY <1>8, <2>2, <2>3 DEF Handled, TypeOK
<1>9. ASSUME NEW d \in Deliveries, HandlerFails(d) \/ CompleteFails(d) PROVE TypeOK'
  <2>1. /\ ~At(d, "free") /\ Fails(d)
        /\ faults' \in 0..MaxFaults
    BY <1>9 DEF HandlerFails, CompleteFails, Fault, At, TypeOK
  <2>2. Pinged(d, ErrorLease) \in [Entries -> Message]
    BY <1>0, <2>1, PingedMessages
  <2>3. message' \in [Entries -> Message] /\ delivery' \in [Deliveries -> Delivery \cup {Free}]
    BY <2>1, <2>2, EndStep DEF Fails
  <2> QED
    BY <2>1, <2>3, RemovedType DEF Fails, TypeOK
<1>10. ASSUME NEW d \in Deliveries, Complete(d) PROVE TypeOK'
  <2>1. ~At(d, "free") /\ Completed(d) \in [Entries -> Message]
    BY <1>10, CompletedMessages DEF Complete, At
  <2>2. message' \in [Entries -> Message] /\ delivery' \in [Deliveries -> Delivery \cup {Free}]
    BY <1>10, <2>1, EndStep DEF Complete
  <2> QED
    BY <1>10, <2>1, <2>2, RemovedType DEF Complete, TypeOK
<1>11. ASSUME Tick \/ Stall PROVE TypeOK'
  <2>1. TimePasses /\ faults' \in 0..MaxFaults
    BY <1>11 DEF Tick, Stall, Fault, TypeOK
  <2>2. message' \in [Entries -> Message] /\ delivery' \in [Deliveries -> Delivery \cup {Free}]
    BY <2>1, TimeStep
  <2> QED
    BY <2>1, <2>2 DEF TimePasses, TypeOK
<1>12. ASSUME NEW s \in Servers, Crash(s) PROVE TypeOK'
  <2>1. delivery' \in [Deliveries -> Delivery \cup {Free}]
    BY <1>12 DEF Crash, TypeOK
  <2>2. \A e \in Entries : [message[e] EXCEPT !.receipt = Nobody] \in Message
    BY DEF TypeOK, Message
  <2>3. message' \in [Entries -> Message]
    BY <1>12, <2>2 DEF Crash, TypeOK
  <2>4. inFlight' \in [Servers -> SUBSET Entries] /\ handing' \subseteq Servers \X Entries
    BY <1>12 DEF Crash, TypeOK
  <2> QED
    BY <1>12, <2>1, <2>3, <2>4 DEF Crash, Fault, TypeOK
<1>13. CASE UNCHANGED vars
  BY <1>13 DEF vars, TypeOK
<1>20. ASSUME NEW d \in Deliveries, HandOverFails(d) PROVE TypeOK'
  <2>1. message' \in [Entries -> Message] /\ delivery' \in [Deliveries -> Delivery \cup {Free}]
    BY <1>20, HandOverEnds, EndStep
  <2>2. Item(d) \in Entries /\ Server(d) \in Servers
    BY <1>20, HandOverEnds, Live
  <2>3. inFlight' \in [Servers -> SUBSET Entries] /\ handing' \subseteq Servers \X Entries
    BY <1>20, <2>2 DEF HandOverFails, TypeOK
  <2> QED
    BY <1>20, <2>1, <2>3, HandOverEnds DEF TypeOK
<1> QED
  BY <1>1, <1>2, <1>3, <1>4, <1>5, <1>6, <1>7, <1>8, <1>9, <1>10, <1>11, <1>12, <1>13, <1>20
  DEF Next, Job, Return

LEMMA InitInv == Init => IInv
<1> SUFFICES ASSUME Init PROVE IInv
  OBVIOUS
<1>1. TypeOK
  <2>1. [Gone EXCEPT !.queued = TRUE] \in Message
    <3>1. ASSUME NEW m \in Message PROVE [m EXCEPT !.queued = TRUE] \in Message
      BY DEF Message
    <3> QED
      BY <3>1, GoneIsMessage
  <2>2. message \in [Entries -> Message]
    BY <2>1 DEF Init
  <2>3. delivery \in [Deliveries -> Delivery \cup {Free}] /\ successes \in [Entries -> 0..2]
    BY DEF Init
  <2>4. /\ inFlight \in [Servers -> SUBSET Entries] /\ handing \subseteq Servers \X Entries
        /\ keyed \subseteq Entries /\ faults \in 0..MaxFaults
    BY DEF Init
  <2> QED
    BY <2>2, <2>3, <2>4 DEF TypeOK
<1>2. \A d \in Deliveries : At(d, "free")
  BY DEF Init, At, Free
<1>3. Handling = {}
  BY <1>2 DEF Handling, At
<1>4. OncePerServer /\ InFlightInv
  BY <1>3 DEF Init, OncePerServer, InFlightInv
<1>5. GoneInv
  BY DEF Init, GoneInv, Gone
<1>6. \A e \in Entries : DoneInv(e)
  BY DEF Init, DoneInv
<1> QED
  BY <1>1, <1>2, <1>4, <1>5, <1>6 DEF IInv

(* QueueWorker.TypeOK, for every number of messages, servers and deliveries. *)
THEOREM TypeCorrect == Spec => []TypeOK
<1>1. Init => TypeOK
  BY InitInv DEF IInv
<1> QED
  BY <1>1, TypeStep, PTL DEF Spec

-------------------------------------------------------------------------------
(* InFlight.                                                                 *)
Guarded == OncePerServer /\ InFlightInv

(* Steps that neither change InFlight nor begin to handle anything.          *)
LEMMA NothingBegun ==
  ASSUME TypeOK, Guarded, UNCHANGED <<inFlight, handing>>,
         \A d \in Deliveries : d \in Handling' =>
            d \in Handling /\ Item(d)' = Item(d) /\ Server(d)' = Server(d)
  PROVE  Guarded'
<1>1. \A d \in Handling' : d \in Handling /\ Item(d)' = Item(d) /\ Server(d)' = Server(d)
  BY DEF Handling
<1>2. OncePerServer'
  BY <1>1 DEF Guarded, OncePerServer
<1>3. InFlightInv'
  BY <1>1 DEF Guarded, InFlightInv
<1> QED
  BY <1>2, <1>3 DEF Guarded

(* A delivery that was handled leaves InFlight.                              *)
LEMMA HandlingEnds ==
  ASSUME TypeOK, Guarded, NEW d \in Handling, inFlight' = Removed(d), UNCHANGED handing,
         At(d, "free")', \A k \in Deliveries : k # d => delivery'[k] = delivery[k]
  PROVE  Guarded'
<1>1. d \in Deliveries /\ Server(d) \in Servers /\ Item(d) \in Entries
  BY Live DEF Handling, At
<1>2. ASSUME NEW k \in Handling'
      PROVE  /\ k # d /\ k \in Handling /\ Item(k)' = Item(k) /\ Server(k)' = Server(k)
             /\ Item(k) \in Entries /\ Server(k) \in Servers
  <2>1. k \in Deliveries /\ (At(k, "handling")' \/ At(k, "complete")')
    BY <1>2 DEF Handling
  <2>2. k # d
    BY <2>1 DEF At
  <2>3. delivery'[k] = delivery[k]
    BY <2>1, <2>2
  <2>4. k \in Handling /\ ~At(k, "free")
    BY <2>1, <2>3 DEF Handling, At
  <2> QED
    BY <2>1, <2>2, <2>3, <2>4, Live DEF Item, Server
<1>3. OncePerServer'
  BY <1>2 DEF Guarded, OncePerServer
<1>4. \A k \in Handling' : Item(k)' \in inFlight'[Server(k)'] /\ <<Server(k)', Item(k)'>> \notin handing'
  <2> SUFFICES ASSUME NEW k \in Handling'
               PROVE  Item(k)' \in inFlight'[Server(k)'] /\ <<Server(k)', Item(k)'>> \notin handing'
    OBVIOUS
  <2>1. /\ k # d /\ k \in Handling /\ Item(k)' = Item(k) /\ Server(k)' = Server(k)
        /\ Server(k) \in Servers
    BY <1>2
  <2>2. /\ Item(k) \in inFlight[Server(k)] /\ <<Server(k), Item(k)>> \notin handing
        /\ ~(Item(k) = Item(d) /\ Server(k) = Server(d))
    BY <2>1 DEF Guarded, OncePerServer, InFlightInv
  <2>3. Item(k) \in inFlight'[Server(k)]
    BY <1>1, <2>1, <2>2 DEF Removed, TypeOK
  <2> QED
    BY <2>1, <2>2, <2>3
<1>5. \A s \in Servers, e \in Entries : <<s, e>> \in handing' => e \in inFlight'[s]
  <2> SUFFICES ASSUME NEW s \in Servers, NEW e \in Entries, <<s, e>> \in handing
               PROVE  e \in inFlight'[s]
    OBVIOUS
  <2>1. e \in inFlight[s] /\ ~(s = Server(d) /\ e = Item(d))
    BY DEF Guarded, InFlightInv
  <2> QED
    BY <1>1, <2>1 DEF Removed, TypeOK
<1>6. InFlightInv'
  BY <1>4, <1>5 DEF InFlightInv
<1> QED
  BY <1>3, <1>6 DEF Guarded

LEMMA GuardStep == ASSUME TypeOK, Guarded, [Next]_vars PROVE Guarded'
<1>a. "free" \notin Steps /\ {"ping", "pinged", "handling", "complete", "waiting"} \subseteq Steps
  BY DEF Steps
<1>0. ASSUME NEW d \in Deliveries, d \notin Handling', UNCHANGED <<inFlight, handing>>,
             \A k \in Deliveries : k # d => delivery'[k] = delivery[k]
      PROVE  Guarded'
  <2>1. \A k \in Deliveries : k \in Handling' =>
            k \in Handling /\ Item(k)' = Item(k) /\ Server(k)' = Server(k)
    BY <1>0 DEF Handling, At, Item, Server
  <2> QED
    BY <1>0, <2>1, NothingBegun
<1>1. ASSUME NEW s \in Servers, NEW e \in Entries, Dequeue(s, e) PROVE Guarded'
  <2>1. PICK d \in Deliveries : delivery' = [delivery EXCEPT ![d] = NewDelivery(e, s)]
    BY <1>1 DEF Dequeue
  <2>2. At(d, "waiting")' /\ \A k \in Deliveries : k # d => delivery'[k] = delivery[k]
    BY <2>1, NewDeliveryType DEF TypeOK, At
  <2> QED
    BY <1>0, <1>1, <2>2 DEF Dequeue, Handling, At
<1>2. ASSUME NEW d \in Deliveries, Take(d) PROVE Guarded'
  <2>1. At(d, "ping")' /\ \A k \in Deliveries : k # d => delivery'[k] = delivery[k]
    BY <1>2, <1>a, GoStep DEF Take, At
  <2> QED
    BY <1>0, <1>2, <2>1 DEF Take, Handling, At
<1>3. ASSUME NEW d \in Deliveries, TakeLate(d) \/ Skip(d) PROVE Guarded'
  <2>1. ~At(d, "free") /\ End(d, message) /\ message \in [Entries -> Message]
    BY <1>3 DEF TakeLate, Skip, At, TypeOK
  <2>2. At(d, "free")' /\ \A k \in Deliveries : k # d => delivery'[k] = delivery[k]
    BY <2>1, EndStep
  <2> QED
    BY <1>0, <1>3, <2>2 DEF TakeLate, Skip, Handling, At
<1>4. ASSUME NEW d \in Deliveries, Ping(d) PROVE Guarded'
  <2>1. /\ ~At(d, "free") /\ Pinged(d, PingLease) \in [Entries -> Message]
        /\ Completed(d) \in [Entries -> Message]
    BY <1>4, PingedMessages, CompletedMessages DEF Ping, At
  <2>2. At(d, "free")' \/ At(d, "pinged")'
    BY <1>4, <1>a, <2>1, EndStep, GoStep DEF Ping
  <2>3. \A k \in Deliveries : k # d => delivery'[k] = delivery[k]
    BY <1>4, <1>a, <2>1, EndStep, GoStep DEF Ping
  <2> QED
    BY <1>0, <1>4, <2>2, <2>3 DEF Ping, Handling, At
<1>5. ASSUME NEW d \in Deliveries, Invoke(d) PROVE Guarded'
  <2>1. /\ ~At(d, "free") /\ delivery[d] \in Delivery
        /\ Item(d) \in Entries /\ Server(d) \in Servers
    BY <1>5, Live DEF Invoke, At
  <2>2. Item(d) \notin inFlight[Server(d)]
    BY <1>5 DEF Invoke, Skipped
  <2>3. /\ Item(d)' = Item(d) /\ Server(d)' = Server(d)
        /\ \A k \in Deliveries : k # d => delivery'[k] = delivery[k]
    <3>1. PICK x \in {Queued(delivery[d]), UnderWay(delivery[d])} : delivery' = [delivery EXCEPT ![d] = x]
      BY <1>5 DEF Invoke
    <3>2. x.entry = delivery[d].entry /\ x.server = delivery[d].server
      <4>1. /\ Queued(delivery[d]).entry = delivery[d].entry
            /\ Queued(delivery[d]).server = delivery[d].server
        BY <2>1, QueuedDelivery
      <4>2. /\ UnderWay(delivery[d]).entry = delivery[d].entry
            /\ UnderWay(delivery[d]).server = delivery[d].server
        BY <2>1, UnderWayDelivery
      <4> QED
        BY <4>1, <4>2
    <3>3. delivery'[d] = x /\ \A k \in Deliveries : k # d => delivery'[k] = delivery[k]
      BY <3>1 DEF TypeOK
    <3> QED
      BY <3>2, <3>3 DEF Item, Server
  <2>4. ASSUME NEW k \in Handling', k # d
        PROVE  /\ k \in Handling /\ Item(k)' = Item(k) /\ Server(k)' = Server(k)
               /\ Server(k) \in Servers
               /\ Item(k) \in inFlight[Server(k)] /\ <<Server(k), Item(k)>> \notin handing
               /\ ~(Item(k) = Item(d) /\ Server(k) = Server(d))
    <3>1. k \in Deliveries /\ delivery'[k] = delivery[k]
      BY <2>3, <2>4 DEF Handling
    <3>2. k \in Handling /\ ~At(k, "free") /\ Item(k)' = Item(k) /\ Server(k)' = Server(k)
      BY <2>4, <3>1 DEF Handling, At, Item, Server
    <3>3. Item(k) \in inFlight[Server(k)] /\ <<Server(k), Item(k)>> \notin handing
      BY <3>2 DEF Guarded, InFlightInv
    <3> QED
      BY <2>2, <3>1, <3>2, <3>3, Live
  <2>5. \A s \in Servers : inFlight'[s] = IF s = Server(d) THEN inFlight[s] \cup {Item(d)} ELSE inFlight[s]
    BY <1>5, <2>1 DEF Invoke, TypeOK
  <2>6. OncePerServer'
    BY <2>3, <2>4 DEF Guarded, OncePerServer
  <2>7. CASE Item(d) \in keyed /\ ~delivery[d].keyed
    <3>1. delivery' = [delivery EXCEPT ![d] = Queued(@)] /\ handing' = handing \cup {<<Server(d), Item(d)>>}
      BY <1>5, <2>7 DEF Invoke
    <3>2. d \notin Handling'
      BY <2>1, <3>1, QueuedDelivery DEF Handling, At, TypeOK
    <3>3. \A k \in Handling' : Item(k)' \in inFlight'[Server(k)'] /\ <<Server(k)', Item(k)'>> \notin handing'
      <4> SUFFICES ASSUME NEW k \in Handling'
                   PROVE  Item(k)' \in inFlight'[Server(k)'] /\ <<Server(k)', Item(k)'>> \notin handing'
        OBVIOUS
      <4>1. k # d
        BY <3>2
      <4> QED
        BY <2>4, <2>5, <3>1, <4>1
    <3>4. \A s \in Servers, e \in Entries : <<s, e>> \in handing' => e \in inFlight'[s]
      BY <2>5, <3>1 DEF Guarded, InFlightInv
    <3> QED
      BY <2>6, <3>3, <3>4 DEF Guarded, InFlightInv
  <2>8. CASE ~(Item(d) \in keyed /\ ~delivery[d].keyed)
    <3>1. UNCHANGED handing
      BY <1>5, <2>8 DEF Invoke
    <3>2. <<Server(d), Item(d)>> \notin handing
      BY <2>1, <2>2 DEF Guarded, InFlightInv
    <3>3. \A k \in Handling' : Item(k)' \in inFlight'[Server(k)'] /\ <<Server(k)', Item(k)'>> \notin handing'
      <4> SUFFICES ASSUME NEW k \in Handling'
                   PROVE  Item(k)' \in inFlight'[Server(k)'] /\ <<Server(k)', Item(k)'>> \notin handing'
        OBVIOUS
      <4>1. CASE k = d
        BY <2>1, <2>3, <2>5, <3>1, <3>2, <4>1
      <4>2. CASE k # d
        BY <2>4, <2>5, <3>1, <4>2
      <4> QED
        BY <4>1, <4>2
    <3>4. \A s \in Servers, e \in Entries : <<s, e>> \in handing' => e \in inFlight'[s]
      BY <2>5, <3>1 DEF Guarded, InFlightInv
    <3> QED
      BY <2>6, <3>3, <3>4 DEF Guarded, InFlightInv
  <2> QED
    BY <2>7, <2>8
<1>6. ASSUME NEW s \in Servers, NEW e \in Entries, HandedOver(s, e) PROVE Guarded'
  <2>1. /\ <<s, e>> \in handing /\ handing' = handing \ {<<s, e>>}
        /\ inFlight' = [inFlight EXCEPT ![s] = @ \ {e}]
        /\ UNCHANGED delivery
    BY <1>6 DEF HandedOver
  <2>2. Handling' = Handling /\ \A k \in Deliveries : Item(k)' = Item(k) /\ Server(k)' = Server(k)
    BY <2>1 DEF Handling, At, Item, Server
  <2>3. OncePerServer'
    BY <2>2 DEF Guarded, OncePerServer, Handling
  <2>4. \A k \in Handling' : Item(k)' \in inFlight'[Server(k)'] /\ <<Server(k)', Item(k)'>> \notin handing'
    <3> SUFFICES ASSUME NEW k \in Handling
                 PROVE  Item(k) \in inFlight'[Server(k)] /\ <<Server(k), Item(k)>> \notin handing'
      BY <2>2 DEF Handling
    <3>1. k \in Deliveries /\ ~At(k, "free")
      BY DEF Handling, At
    <3>2. /\ Item(k) \in inFlight[Server(k)] /\ <<Server(k), Item(k)>> \notin handing
          /\ Server(k) \in Servers
      BY <3>1, Live DEF Guarded, InFlightInv
    <3>3. ~(Server(k) = s /\ Item(k) = e)
      BY <2>1, <3>2
    <3> QED
      BY <2>1, <3>2, <3>3 DEF TypeOK
  <2>5. \A t \in Servers, f \in Entries : <<t, f>> \in handing' => f \in inFlight'[t]
    BY <2>1 DEF Guarded, InFlightInv, TypeOK
  <2> QED
    BY <2>3, <2>4, <2>5 DEF Guarded, InFlightInv
<1>7. ASSUME NEW d \in Deliveries, KeepAlivePing(d) PROVE Guarded'
  <2>1. At(d, "handling") /\ delivery[d] \in Delivery
    BY <1>7, Live DEF KeepAlivePing, At
  <2>2. \A k \in Deliveries : /\ delivery'[k].step = delivery[k].step
                              /\ delivery'[k].entry = delivery[k].entry
                              /\ delivery'[k].server = delivery[k].server
    BY <1>7, <2>1 DEF KeepAlivePing, TypeOK, Delivery
  <2> QED
    BY <1>7, <2>2, NothingBegun DEF KeepAlivePing, Handling, At, Item, Server
<1>8. ASSUME NEW d \in Deliveries, Handled(d) PROVE Guarded'
  <2>1. ~At(d, "free") /\ d \in Handling /\ Go(d, "complete")
    BY <1>8 DEF Handled, At, Handling
  <2>2. \A k \in Deliveries : k # d => delivery'[k] = delivery[k]
    BY <1>a, <2>1, GoStep
  <2>3. Item(d)' = Item(d) /\ Server(d)' = Server(d)
    BY <1>a, <2>1, GoStep
  <2>4. \A k \in Deliveries : k \in Handling' =>
            k \in Handling /\ Item(k)' = Item(k) /\ Server(k)' = Server(k)
    BY <2>1, <2>2, <2>3 DEF Handling, At, Item, Server
  <2> QED
    BY <1>8, <2>4, NothingBegun DEF Handled
<1>9. ASSUME NEW d \in Deliveries, HandlerFails(d) \/ CompleteFails(d) PROVE Guarded'
  <2>1. ~At(d, "free") /\ Fails(d) /\ d \in Handling
    BY <1>9 DEF HandlerFails, CompleteFails, At, Handling
  <2>2. Pinged(d, ErrorLease) \in [Entries -> Message]
    BY <2>1, PingedMessages
  <2>3. At(d, "free")' /\ \A k \in Deliveries : k # d => delivery'[k] = delivery[k]
    BY <2>1, <2>2, EndStep DEF Fails
  <2> QED
    BY <2>1, <2>3, HandlingEnds DEF Fails
<1>10. ASSUME NEW d \in Deliveries, Complete(d) PROVE Guarded'
  <2>1. ~At(d, "free") /\ d \in Handling /\ Completed(d) \in [Entries -> Message]
    BY <1>10, CompletedMessages DEF Complete, At, Handling
  <2>2. At(d, "free")' /\ \A k \in Deliveries : k # d => delivery'[k] = delivery[k]
    BY <1>10, <2>1, EndStep DEF Complete
  <2> QED
    BY <1>10, <2>1, <2>2, HandlingEnds DEF Complete
<1>11. ASSUME Tick \/ Stall PROVE Guarded'
  <2>1. TimePasses
    BY <1>11 DEF Tick, Stall
  <2>2. \A k \in Deliveries : k \in Handling' =>
            k \in Handling /\ Item(k)' = Item(k) /\ Server(k)' = Server(k)
    BY <1>a, <2>1, TimeStep DEF Handling, At
  <2> QED
    BY <2>1, <2>2, NothingBegun DEF TimePasses
<1>12. ASSUME NEW s \in Servers, Crash(s) PROVE Guarded'
  <2>1. /\ inFlight' = [inFlight EXCEPT ![s] = {}]
        /\ handing' = {h \in handing : h[1] # s}
        /\ \A k \in Deliveries :
              delivery'[k] = IF ~At(k, "free") /\ Server(k) = s THEN Free ELSE delivery[k]
    BY <1>12 DEF Crash
  <2>2. ASSUME NEW k \in Handling'
        PROVE  /\ k \in Handling /\ Item(k)' = Item(k) /\ Server(k)' = Server(k)
               /\ Server(k) \in Servers /\ Server(k) # s
    <3>1. k \in Deliveries /\ (At(k, "handling")' \/ At(k, "complete")')
      BY <2>2 DEF Handling
    <3>2. delivery'[k] = delivery[k] /\ ~At(k, "free") /\ Server(k) # s
      BY <2>1, <3>1 DEF At, Free
    <3> QED
      BY <3>1, <3>2, Live DEF Handling, At, Item, Server
  <2>3. OncePerServer'
    BY <2>2 DEF Guarded, OncePerServer
  <2>4. \A k \in Handling' : Item(k)' \in inFlight'[Server(k)'] /\ <<Server(k)', Item(k)'>> \notin handing'
    BY <2>1, <2>2 DEF Guarded, InFlightInv, TypeOK
  <2>5. \A t \in Servers, e \in Entries : <<t, e>> \in handing' => e \in inFlight'[t]
    BY <2>1 DEF Guarded, InFlightInv, TypeOK
  <2> QED
    BY <2>3, <2>4, <2>5 DEF Guarded, InFlightInv
<1>13. CASE UNCHANGED vars
  BY <1>13, NothingBegun DEF vars, Handling, At, Item, Server
<1>20. ASSUME NEW d \in Deliveries, HandOverFails(d) PROVE Guarded'
  <2>1. /\ ~At(d, "free") /\ At(d, "free")'
        /\ \A k \in Deliveries : k # d => delivery'[k] = delivery[k]
    BY <1>20, HandOverEnds, EndStep
  <2>2. Item(d) \in Entries /\ Server(d) \in Servers /\ Item(d) \notin inFlight[Server(d)]
    BY <1>20, <2>1, Live DEF HandOverFails, Skipped
  <2>3. CASE UNCHANGED <<inFlight, handing>>
    BY <1>0, <2>1, <2>3 DEF Handling, At
  <2>4. CASE /\ inFlight' = [inFlight EXCEPT ![Server(d)] = @ \cup {Item(d)}]
             /\ handing' = handing \cup {<<Server(d), Item(d)>>}
    <3>1. ASSUME NEW k \in Handling'
          PROVE  /\ k \in Handling /\ Item(k)' = Item(k) /\ Server(k)' = Server(k)
                 /\ Server(k) \in Servers
                 /\ Item(k) \in inFlight[Server(k)] /\ <<Server(k), Item(k)>> \notin handing
      <4>1. k \in Deliveries /\ k # d
        BY <2>1, <3>1 DEF Handling, At
      <4>2. k \in Handling /\ ~At(k, "free") /\ Item(k)' = Item(k) /\ Server(k)' = Server(k)
        BY <2>1, <3>1, <4>1 DEF Handling, At, Item, Server
      <4> QED
        BY <4>1, <4>2, Live DEF Guarded, InFlightInv
    <3>2. OncePerServer'
      BY <3>1 DEF Guarded, OncePerServer
    <3>3. \A s \in Servers : inFlight'[s] = IF s = Server(d) THEN inFlight[s] \cup {Item(d)}
                                           ELSE inFlight[s]
      BY <2>2, <2>4 DEF TypeOK
    <3>4. \A k \in Handling' : Item(k)' \in inFlight'[Server(k)'] /\ <<Server(k)', Item(k)'>> \notin handing'
      <4> SUFFICES ASSUME NEW k \in Handling'
                   PROVE  Item(k)' \in inFlight'[Server(k)'] /\ <<Server(k)', Item(k)'>> \notin handing'
        OBVIOUS
      <4>1. /\ Item(k)' = Item(k) /\ Server(k)' = Server(k) /\ Server(k) \in Servers
            /\ Item(k) \in inFlight[Server(k)] /\ <<Server(k), Item(k)>> \notin handing
        BY <3>1
      <4>2. ~(Server(k) = Server(d) /\ Item(k) = Item(d))
        BY <2>2, <4>1
      <4>3. Item(k) \in inFlight'[Server(k)] /\ <<Server(k), Item(k)>> \notin handing'
        BY <2>4, <3>3, <4>1, <4>2
      <4> QED
        BY <4>1, <4>3
    <3>5. \A s \in Servers, e \in Entries : <<s, e>> \in handing' => e \in inFlight'[s]
      BY <2>4, <3>3 DEF Guarded, InFlightInv
    <3> QED
      BY <3>2, <3>4, <3>5 DEF Guarded, InFlightInv
  <2> QED
    BY <1>20, <2>3, <2>4 DEF HandOverFails
<1> QED
  BY <1>1, <1>2, <1>3, <1>4, <1>5, <1>6, <1>7, <1>8, <1>9, <1>10, <1>11, <1>12, <1>13, <1>20
  DEF Next, Job, Return

(* QueueWorker.OncePerServer: whatever fails, and however often a message is *)
(* delivered again, a server does not handle an entry twice at once: what is *)
(* handled there is in InFlight, and the finally of a hand-over, which takes *)
(* an entry out of it, is not pending while the entry is handled.            *)
THEOREM OncePerServerHolds == Spec => []OncePerServer
<1>1. Init => TypeOK /\ Guarded
  BY InitInv DEF IInv, Guarded
<1>2. TypeOK /\ Guarded /\ [Next]_vars => TypeOK' /\ Guarded'
  BY TypeStep, GuardStep
<1>3. Guarded => OncePerServer
  BY DEF Guarded
<1> QED
  BY <1>1, <1>2, <1>3, PTL DEF Spec

-------------------------------------------------------------------------------
(* The leases, and what they protect.                                        *)
LEMMA GoneStep ==
  ASSUME TypeOK, GoneInv, [Next]_vars
  PROVE  GoneInv' /\ \A e \in Entries : ~message[e].queued => ~message'[e].queued
<1> DEFINE Stays(e) == /\ message'[e].queued = message[e].queued
                       /\ ~message[e].queued => message'[e].receipt = Nobody
<1>0. SUFFICES ASSUME NEW e \in Entries PROVE Stays(e) \/ message'[e] = Gone
  BY DEF GoneInv, Gone
<1>a. "free" \notin Steps /\ {"ping", "pinged", "handling", "complete", "waiting"} \subseteq Steps
  BY DEF Steps
<1>b. ~message[e].queued => message[e].receipt = Nobody
  BY DEF GoneInv
<1>c. ASSUME NEW d \in Deliveries, ~At(d, "free"), NEW msgs \in [Entries -> Message], End(d, msgs),
             msgs[e].queued = message[e].queued, msgs[e].receipt = message[e].receipt
      PROVE  Stays(e)
  BY <1>b, <1>c, EndStep
<1>1. ASSUME NEW s \in Servers, NEW f \in Entries, Dequeue(s, f)
      PROVE  Stays(e)
  <2>1. PICK d \in Deliveries : message' = [message EXCEPT ![f] = HandedOut(@, d)]
    BY <1>1 DEF Dequeue
  <2>2. message[f].queued /\ message[f] \in Message
    BY <1>1 DEF Dequeue, TypeOK
  <2> QED
    <3>1. HandedOut(message[f], d).queued = message[f].queued
      BY <2>2, HandedOutMessage
    <3>2. CASE e = f
      BY <2>1, <2>2, <3>1, <3>2 DEF TypeOK
    <3>3. CASE e # f
      BY <1>b, <2>1, <3>3 DEF TypeOK
    <3> QED
      BY <3>2, <3>3
<1>2. ASSUME NEW d \in Deliveries, TakeLate(d) \/ Skip(d) PROVE Stays(e)
  BY <1>2, <1>c DEF TakeLate, Skip, At, TypeOK
<1>3. ASSUME NEW d \in Deliveries, Ping(d) PROVE Stays(e) \/ message'[e] = Gone
  <2>1. ~At(d, "free")
    BY <1>3 DEF Ping, At
  <2>2. CASE End(d, Pinged(d, PingLease))
    BY <1>c, <2>1, <2>2, PingedMessages
  <2>3. CASE End(d, Completed(d))
    <3>1. Completed(d) \in [Entries -> Message]
      BY <2>1, CompletedMessages
    <3>2. CASE Completed(d)[e] = Gone
      <4>1. Completed(d)[e].receipt # d
        BY <3>2 DEF Gone
      <4> QED
        BY <2>1, <2>3, <3>1, <3>2, <4>1, EndStep
    <3>3. CASE Completed(d)[e] = message[e]
      BY <1>c, <2>1, <2>3, <3>1, <3>3
    <3> QED
      BY <2>1, <3>2, <3>3, CompletedMessages
  <2>4. CASE message' = Pinged(d, PingLease)
    BY <1>b, <2>1, <2>4, PingedMessages
  <2> QED
    BY <1>3, <2>2, <2>3, <2>4 DEF Ping
<1>4. ASSUME NEW d \in Deliveries, KeepAlivePing(d) PROVE Stays(e)
  <2>1. ~At(d, "free") /\ message' = Pinged(d, PingLease)
    BY <1>4 DEF KeepAlivePing, At
  <2> QED
    BY <1>b, <2>1, PingedMessages
<1>5. ASSUME NEW d \in Deliveries, HandlerFails(d) \/ CompleteFails(d) PROVE Stays(e)
  <2>1. ~At(d, "free") /\ End(d, Pinged(d, ErrorLease))
    BY <1>5 DEF HandlerFails, CompleteFails, Fails, At
  <2> QED
    BY <1>c, <2>1, PingedMessages
<1>6. ASSUME NEW d \in Deliveries, Complete(d) PROVE Stays(e) \/ message'[e] = Gone
  <2>1. ~At(d, "free") /\ End(d, Completed(d)) /\ Completed(d) \in [Entries -> Message]
    BY <1>6, CompletedMessages DEF Complete, At
  <2>2. CASE Completed(d)[e] = Gone
    <3>1. Completed(d)[e].receipt # d
      BY <2>2 DEF Gone
    <3> QED
      BY <2>1, <2>2, <3>1, EndStep
  <2>3. CASE Completed(d)[e] = message[e]
    BY <1>c, <2>1, <2>3
  <2> QED
    BY <2>1, <2>2, <2>3, CompletedMessages
<1>7. ASSUME Tick \/ Stall PROVE Stays(e)
  BY <1>7, <1>b, TimeStep DEF Tick, Stall
<1>8. ASSUME NEW s \in Servers, Crash(s) PROVE Stays(e)
  <2>1. message'[e] = message[e] \/ message'[e] = [message[e] EXCEPT !.receipt = Nobody]
    BY <1>8 DEF Crash
  <2>2. message[e] \in Message
    BY DEF TypeOK
  <2> QED
    BY <1>b, <2>1, <2>2 DEF Message
<1>9. ASSUME UNCHANGED message PROVE Stays(e)
  BY <1>9, <1>b
<1>10. ASSUME NEW d \in Deliveries, HandOverFails(d) PROVE Stays(e)
  BY <1>10, <1>c, HandOverEnds
<1> QED
  BY <1>1, <1>2, <1>3, <1>4, <1>5, <1>6, <1>7, <1>8, <1>9, <1>10
  DEF Next, Job, Return, Take, Invoke, HandedOver, Handled, vars

Leases == \A d \in Deliveries : ~At(d, "free") /\ Item(d) \notin keyed => LeaseInv(d)

(* A step of one delivery leaves the leases of the others alone.             *)
LEMMA OthersKeep ==
  ASSUME TypeOK, Leases, NEW d \in Deliveries, UNCHANGED keyed,
         \A k \in Deliveries : k # d => delivery'[k] = delivery[k],
         \A e \in Entries : message[e].receipt # d => message'[e] = message[e],
         ~At(d, "free")' /\ Item(d)' \notin keyed => LeaseInv(d)'
  PROVE  Leases'
<1> SUFFICES ASSUME NEW k \in Deliveries, k # d, ~At(k, "free"), Item(k) \notin keyed
             PROVE  LeaseInv(k)'
  BY DEF Leases, At, Item
<1>1. delivery'[k] = delivery[k] /\ Item(k) \in Entries
  BY Live
<1>2. LeaseInv(k)
  BY DEF Leases
<1>3. Holds(k) => Holds(k)' /\ message'[Item(k)] = message[Item(k)]
  BY <1>1 DEF Holds, Item
<1> QED
  BY <1>1, <1>2, <1>3 DEF LeaseInv, Trusts, At, Item

(* The end of a delivery.                                                    *)
LEMMA EndKeeps ==
  ASSUME TypeOK, Leases, NEW d \in Deliveries, ~At(d, "free"), UNCHANGED keyed,
         NEW msgs \in [Entries -> Message], End(d, msgs),
         \A e \in Entries : message[e].receipt # d => msgs[e] = message[e]
  PROVE  Leases'
<1>1. \A e \in Entries : message[e].receipt # d => message'[e] = message[e]
  BY EndStep
<1>2. At(d, "free")' /\ \A k \in Deliveries : k # d => delivery'[k] = delivery[k]
  BY EndStep
<1> QED
  BY <1>1, <1>2, OthersKeep

LEMMA LeaseStep ==
  ASSUME TypeOK, Leases, faults = 0, [Next]_vars, faults' = 0
  PROVE  Leases'
<1>a. "free" \notin Steps /\ {"ping", "pinged", "handling", "complete", "waiting"} \subseteq Steps
  BY DEF Steps
<1>1. ASSUME NEW s \in Servers, NEW e \in Entries, Dequeue(s, e) PROVE Leases'
  <2>1. PICK d \in Deliveries :
          /\ message' = [message EXCEPT ![e] = HandedOut(@, d)]
          /\ delivery' = [delivery EXCEPT ![d] = NewDelivery(e, s)]
    BY <1>1 DEF Dequeue
  <2>2. /\ message[e].left = 0 /\ UNCHANGED keyed
        /\ \A f \in Entries : f # e => message'[f] = message[f]
        /\ \A k \in Deliveries : k # d => delivery'[k] = delivery[k]
    BY <1>1, <2>1 DEF Dequeue, TypeOK
  <2>3. LeaseInv(d)'
    <3>1. /\ message'[e] = HandedOut(message[e], d) /\ message[e] \in Message
          /\ delivery'[d] = NewDelivery(e, s)
      BY <2>1 DEF TypeOK
    <3>2. /\ message'[e].receipt = d /\ message'[e].left = DequeueLease
          /\ delivery'[d].step = "waiting" /\ delivery'[d].entry = e
          /\ delivery'[d].left = DequeueLease
      <4>1. message'[e].receipt = d /\ message'[e].left = DequeueLease
        BY <3>1, HandedOutMessage
      <4>2. /\ delivery'[d].step = "waiting" /\ delivery'[d].entry = e
            /\ delivery'[d].left = DequeueLease
        BY <3>1 DEF NewDelivery
      <4> QED
        BY <4>1, <4>2
    <3> QED
      BY <3>2 DEF LeaseInv, Trusts, Holds, At, Item
  <2>4. ASSUME NEW k \in Deliveries, k # d, ~At(k, "free"), Item(k) \notin keyed
        PROVE  LeaseInv(k)'
    <3>1. /\ delivery'[k] = delivery[k] /\ Item(k) \in Entries /\ LeaseInv(k)
          /\ delivery[k].left \in Nat /\ delivery[k].ping \in Nat
      BY <2>2, <2>4, Live DEF Leases
    <3>2. CASE Item(k) # e
      BY <2>2, <3>1, <3>2 DEF LeaseInv, Trusts, Holds, At, Item
    <3>3. CASE Item(k) = e
      <4>1. ~Trusts(k) /\ ~At(k, "pinged") /\ ~At(k, "handling") /\ ~At(k, "complete")
        BY <2>2, <3>1, <3>3 DEF LeaseInv, Trusts
      <4> QED
        BY <3>1, <4>1 DEF LeaseInv, Trusts, At
    <3> QED
      BY <3>2, <3>3
  <2> QED
    BY <2>2, <2>3, <2>4 DEF Leases, At, Item
<1>2. ASSUME NEW d \in Deliveries, Take(d) PROVE Leases'
  <2>1. ~At(d, "free") /\ At(d, "waiting") /\ Go(d, "ping") /\ UNCHANGED <<keyed, message>>
    BY <1>2 DEF Take, At
  <2>2. /\ At(d, "ping")' /\ \A k \in Deliveries : k # d => delivery'[k] = delivery[k]
        /\ Item(d)' = Item(d) /\ delivery'[d].left = delivery[d].left
    BY <1>a, <2>1, GoStep
  <2>3. Item(d) \notin keyed => LeaseInv(d)'
    BY <2>1, <2>2 DEF Leases, LeaseInv, Trusts, Holds, At
  <2> QED
    BY <2>1, <2>2, <2>3, OthersKeep
<1>3. ASSUME NEW d \in Deliveries, TakeLate(d) \/ Skip(d) PROVE Leases'
  <2>1. ~At(d, "free") /\ End(d, message) /\ message \in [Entries -> Message] /\ UNCHANGED keyed
    BY <1>3 DEF TakeLate, Skip, At, TypeOK
  <2> QED
    BY <2>1, EndKeeps
<1>4. ASSUME NEW d \in Deliveries, Ping(d) PROVE Leases'
  <2>1. ~At(d, "free") /\ At(d, "ping") /\ UNCHANGED keyed
    BY <1>4 DEF Ping, At
  <2>2. CASE End(d, Pinged(d, PingLease))
    BY <2>1, <2>2, PingedMessages, EndKeeps
  <2>3. CASE End(d, Completed(d))
    BY <2>1, <2>3, CompletedMessages, EndKeeps
  <2>4. CASE ~Late(d) /\ Go(d, "pinged") /\ message' = Pinged(d, PingLease)
    <3>1. /\ At(d, "pinged")' /\ \A k \in Deliveries : k # d => delivery'[k] = delivery[k]
          /\ Item(d)' = Item(d)
      BY <1>a, <2>1, <2>4, GoStep
    <3>2. ASSUME Item(d) \notin keyed PROVE LeaseInv(d)'
      <4>1. delivery[d].left > 0
        BY <2>1, <2>4, Live DEF Late
      <4>2. Holds(d)
        BY <2>1, <3>2, <4>1 DEF Leases, LeaseInv, Trusts
      <4>3. Item(d) \in Entries
        BY <2>1, Live
      <4>4. message'[Item(d)].left = PingLease /\ message'[Item(d)].receipt = d
        BY <2>1, <2>4, <4>2, <4>3, PingedMessages DEF Holds
      <4> QED
        BY <3>1, <4>4 DEF LeaseInv, Trusts, Holds, At
    <3>3. \A e \in Entries : message[e].receipt # d => message'[e] = message[e]
      BY <2>1, <2>4, PingedMessages
    <3> QED
      BY <2>1, <3>1, <3>2, <3>3, OthersKeep
  <2> QED
    BY <1>4, <2>2, <2>3, <2>4 DEF Ping
<1>5. ASSUME NEW d \in Deliveries, Invoke(d) PROVE Leases'
  <2>1. /\ ~At(d, "free") /\ At(d, "pinged") /\ delivery[d] \in Delivery
        /\ UNCHANGED <<keyed, message>>
    BY <1>5, Live DEF Invoke, At
  <2>2. CASE Item(d) \in keyed /\ delivery' = [delivery EXCEPT ![d] = Queued(@)]
    <3>1. Item(d)' = Item(d) /\ \A k \in Deliveries : k # d => delivery'[k] = delivery[k]
      BY <2>1, <2>2, QueuedDelivery DEF TypeOK, Item
    <3> QED
      BY <2>1, <2>2, <3>1, OthersKeep
  <2>3. CASE delivery' = [delivery EXCEPT ![d] = UnderWay(@)]
    <3>1. /\ Item(d)' = Item(d) /\ At(d, "handling")' /\ delivery'[d].ping = KeepAlive
          /\ \A k \in Deliveries : k # d => delivery'[k] = delivery[k]
      BY <2>1, <2>3, UnderWayDelivery DEF TypeOK, Item, At
    <3>2. Item(d) \notin keyed => LeaseInv(d)'
      BY <2>1, <3>1 DEF Leases, LeaseInv, Trusts, Holds, At
    <3> QED
      BY <2>1, <3>1, <3>2, OthersKeep
  <2> QED
    BY <1>5, <2>2, <2>3 DEF Invoke
<1>6. ASSUME NEW d \in Deliveries, KeepAlivePing(d) PROVE Leases'
  <2>1. /\ ~At(d, "free") /\ At(d, "handling") /\ UNCHANGED keyed
        /\ message' = Pinged(d, PingLease)
        /\ delivery' = [delivery EXCEPT ![d].ping = KeepAlive]
    BY <1>6 DEF KeepAlivePing, At
  <2>2. delivery[d] \in Delivery /\ Item(d) \in Entries
    BY <2>1, Live
  <2>3. /\ Item(d)' = Item(d) /\ At(d, "handling")' /\ delivery'[d].ping = KeepAlive
        /\ \A k \in Deliveries : k # d => delivery'[k] = delivery[k]
    BY <2>1, <2>2 DEF TypeOK, Delivery, Item, At
  <2>4. ASSUME Item(d) \notin keyed PROVE LeaseInv(d)'
    <3>1. Holds(d)
      BY <2>1, <2>4 DEF Leases, LeaseInv
    <3>2. message'[Item(d)].left = PingLease /\ message'[Item(d)].receipt = d
      BY <2>1, <2>2, <3>1, PingedMessages DEF Holds
    <3> QED
      BY <2>3, <3>2 DEF LeaseInv, Trusts, Holds, At
  <2>5. \A e \in Entries : message[e].receipt # d => message'[e] = message[e]
    BY <2>1, PingedMessages
  <2> QED
    BY <2>1, <2>3, <2>4, <2>5, OthersKeep
<1>7. ASSUME NEW d \in Deliveries, Handled(d) PROVE Leases'
  <2>1. ~At(d, "free") /\ At(d, "handling") /\ Go(d, "complete") /\ UNCHANGED <<keyed, message>>
    BY <1>7 DEF Handled, At
  <2>2. /\ At(d, "complete")' /\ Item(d)' = Item(d)
        /\ \A k \in Deliveries : k # d => delivery'[k] = delivery[k]
    BY <1>a, <2>1, GoStep
  <2>3. delivery[d].ping \in Nat /\ message[Item(d)].left \in Nat
    BY <2>1, Live DEF Message
  <2>4. Item(d) \notin keyed => LeaseInv(d)'
    BY <2>1, <2>2, <2>3 DEF Leases, LeaseInv, Trusts, Holds, At
  <2> QED
    BY <2>1, <2>2, <2>4, OthersKeep
<1>8. ASSUME NEW d \in Deliveries, HandlerFails(d) PROVE Leases'
  <2>1. ~At(d, "free") /\ End(d, Pinged(d, ErrorLease)) /\ UNCHANGED keyed
    BY <1>8 DEF HandlerFails, Fails, At
  <2> QED
    BY <2>1, PingedMessages, EndKeeps
<1>9. ASSUME NEW d \in Deliveries, Complete(d) PROVE Leases'
  <2>1. ~At(d, "free") /\ End(d, Completed(d)) /\ UNCHANGED keyed
    BY <1>9 DEF Complete, At
  <2> QED
    BY <2>1, CompletedMessages, EndKeeps
<1>10. ASSUME Tick PROVE Leases'
  <2>1. TimePasses /\ UNCHANGED keyed /\ \A d \in Deliveries : ~Prompt(d)
    BY <1>10 DEF Tick, TimePasses
  <2> SUFFICES ASSUME NEW d \in Deliveries, ~At(d, "free")', Item(d)' \notin keyed
               PROVE  LeaseInv(d)'
    BY <2>1 DEF Leases
  <2>2. ~At(d, "free")
    BY <2>1, TimeStep
  <2> DEFINE e == Item(d)
  <2>3. /\ e \in Entries /\ delivery[d].left \in Nat /\ delivery[d].ping \in Nat
        /\ message[e].left \in Nat
    BY <2>2, Live DEF Message
  <2>4. /\ Item(d)' = e /\ message'[e].receipt = message[e].receipt
        /\ message'[e].left = Less(message[e].left)
        /\ delivery'[d].left = Less(delivery[d].left) /\ delivery'[d].ping = Less(delivery[d].ping)
        /\ \A step \in {"waiting", "ping", "pinged", "handling", "complete"} :
              At(d, step)' <=> At(d, step)
    BY <1>a, <2>1, <2>2, <2>3, TimeStep
  <2>5. LeaseInv(d)
    BY <2>2, <2>4 DEF Leases
  <2>6. ~At(d, "pinged") /\ ~At(d, "complete") /\ (At(d, "handling") => delivery[d].ping # 0)
    BY <2>1 DEF Prompt
  <2>7. ASSUME NEW m \in Nat, NEW n \in Nat
        PROVE  /\ m >= n => Less(m) >= Less(n)
               /\ m > n /\ n # 0 => Less(m) > Less(n)
               /\ Less(n) > 0 => n > 0
    BY DEF Less
  <2>8. ASSUME Trusts(d)' PROVE Holds(d)' /\ message'[e].left >= delivery'[d].left
    <3>1. Trusts(d)
      BY <2>3, <2>4, <2>7, <2>8 DEF Trusts
    <3>2. Holds(d) /\ message[e].left >= delivery[d].left
      BY <2>5, <3>1 DEF LeaseInv
    <3> QED
      BY <2>3, <2>4, <2>7, <3>2 DEF Holds
  <2>9. ASSUME At(d, "handling") PROVE Holds(d)' /\ message'[e].left > delivery'[d].ping
    BY <2>3, <2>4, <2>5, <2>6, <2>7, <2>9 DEF LeaseInv, Holds
  <2> QED
    BY <2>4, <2>6, <2>8, <2>9 DEF LeaseInv
<1>11. ASSUME NEW d \in Deliveries, CompleteFails(d) PROVE FALSE
  BY <1>11 DEF CompleteFails, Fault
<1>12. ASSUME NEW s \in Servers, Crash(s) PROVE FALSE
  BY <1>12 DEF Crash, Fault
<1>13. ASSUME Stall PROVE FALSE
  BY <1>13 DEF Stall, Fault
<1>14. ASSUME UNCHANGED <<keyed, message, delivery>> PROVE Leases'
  BY <1>14 DEF Leases, LeaseInv, Trusts, Holds, At, Item
<1>20. ASSUME NEW d \in Deliveries, HandOverFails(d) PROVE Leases'
  BY <1>20, HandOverEnds, EndKeeps
<1> QED
  BY <1>1, <1>2, <1>3, <1>4, <1>5, <1>6, <1>7, <1>8, <1>9, <1>10, <1>11, <1>12, <1>13, <1>14, <1>20
  DEF Next, Job, Return, HandedOver, vars

(* An entry that was handled once, seen from its message.                    *)
LEMMA DoneStep ==
  ASSUME TypeOK, GoneInv, Leases, faults = 0, [Next]_vars, faults' = 0,
         NEW e \in Entries, e \notin keyed, DoneInv(e)
  PROVE  DoneInv(e)'
<1>a. "free" \notin Steps /\ {"ping", "pinged", "handling", "complete", "waiting"} \subseteq Steps
  BY DEF Steps
<1>b. ~message[e].queued => ~message'[e].queued
  BY GoneStep
<1>0. ASSUME successes'[e] = successes[e],
             \A k \in Deliveries : At(k, "complete") /\ Item(k) = e =>
                (At(k, "complete")' /\ Item(k)' = e) \/ ~message'[e].queued
      PROVE  DoneInv(e)'
  BY <1>0, <1>b DEF DoneInv
<1>c. ASSUME NEW d \in Deliveries, ~At(d, "complete"), UNCHANGED successes,
             \A k \in Deliveries : k # d => delivery'[k] = delivery[k]
      PROVE  DoneInv(e)'
  BY <1>0, <1>c DEF At, Item
<1>1. ASSUME NEW s \in Servers, NEW f \in Entries, Dequeue(s, f) PROVE DoneInv(e)'
  <2>1. PICK d \in Deliveries :
          /\ delivery[d] = Free
          /\ delivery' = [delivery EXCEPT ![d] = NewDelivery(f, s)]
    BY <1>1 DEF Dequeue
  <2>2. ~At(d, "complete") /\ \A k \in Deliveries : k # d => delivery'[k] = delivery[k]
    BY <2>1 DEF At, Free, TypeOK
  <2> QED
    BY <1>1, <1>c, <2>2 DEF Dequeue
<1>2. ASSUME NEW d \in Deliveries, Take(d) PROVE DoneInv(e)'
  <2>1. ~At(d, "free") /\ ~At(d, "complete") /\ Go(d, "ping") /\ UNCHANGED successes
    BY <1>2 DEF Take, At
  <2>2. \A k \in Deliveries : k # d => delivery'[k] = delivery[k]
    BY <1>a, <2>1, GoStep
  <2> QED
    BY <1>c, <2>1, <2>2
<1>3. ASSUME NEW d \in Deliveries, TakeLate(d) \/ Skip(d) PROVE DoneInv(e)'
  <2>1. /\ ~At(d, "free") /\ ~At(d, "complete") /\ End(d, message) /\ message \in [Entries -> Message]
        /\ UNCHANGED successes
    BY <1>3 DEF TakeLate, Skip, At, TypeOK
  <2>2. \A k \in Deliveries : k # d => delivery'[k] = delivery[k]
    BY <2>1, EndStep
  <2> QED
    BY <1>c, <2>1, <2>2
<1>4. ASSUME NEW d \in Deliveries, Ping(d) PROVE DoneInv(e)'
  <2>1. /\ ~At(d, "free") /\ ~At(d, "complete") /\ UNCHANGED successes
        /\ Pinged(d, PingLease) \in [Entries -> Message] /\ Completed(d) \in [Entries -> Message]
    BY <1>4, PingedMessages, CompletedMessages DEF Ping, At
  <2>2. \A k \in Deliveries : k # d => delivery'[k] = delivery[k]
    BY <1>4, <1>a, <2>1, EndStep, GoStep DEF Ping
  <2> QED
    BY <1>c, <2>1, <2>2
<1>5. ASSUME NEW d \in Deliveries, Invoke(d) PROVE DoneInv(e)'
  <2>1. ~At(d, "complete") /\ \A k \in Deliveries : k # d => delivery'[k] = delivery[k]
    BY <1>5 DEF Invoke, At, TypeOK
  <2> QED
    BY <1>5, <1>c, <2>1 DEF Invoke
<1>6. ASSUME NEW d \in Deliveries, KeepAlivePing(d) PROVE DoneInv(e)'
  <2>1. ~At(d, "complete") /\ \A k \in Deliveries : k # d => delivery'[k] = delivery[k]
    BY <1>6 DEF KeepAlivePing, At, TypeOK
  <2> QED
    BY <1>6, <1>c, <2>1 DEF KeepAlivePing
<1>7. ASSUME NEW d \in Deliveries, Handled(d) PROVE DoneInv(e)'
  <2>1. ~At(d, "free") /\ At(d, "handling") /\ Go(d, "complete") /\ Item(d) \in Entries
    BY <1>7, Live DEF Handled, At
  <2>2. /\ At(d, "complete")' /\ Item(d)' = Item(d)
        /\ \A k \in Deliveries : k # d => delivery'[k] = delivery[k]
    BY <1>a, <2>1, GoStep
  <2>3. CASE Item(d) # e
    <3>1. successes'[e] = successes[e]
      BY <1>7, <2>1, <2>3 DEF Handled, TypeOK
    <3> QED
      BY <1>0, <2>1, <2>2, <3>1 DEF At, Item
  <2>4. CASE Item(d) = e
    <3>1. message[e].receipt = d
      BY <2>1, <2>4 DEF Leases, LeaseInv, Holds
    <3>2. message[e].queued
      BY <3>1 DEF GoneInv
    <3>3. ASSUME NEW k \in Deliveries, At(k, "complete"), Item(k) = e PROVE FALSE
      <4>1. ~At(k, "free")
        BY <3>3 DEF At
      <4>2. message[e].receipt = k
        BY <3>3, <4>1 DEF Leases, LeaseInv, Holds
      <4> QED
        BY <2>1, <3>1, <3>3, <4>2 DEF At
    <3>4. successes[e] # 1
      BY <3>2, <3>3 DEF DoneInv
    <3>5. successes'[e] = 1
      <4>1. successes[e] = 0
        BY <3>4 DEF DoneInv, TypeOK
      <4> QED
        BY <1>7, <2>4, <4>1 DEF Handled, TypeOK
    <3> QED
      BY <2>2, <2>4, <3>5 DEF DoneInv
  <2> QED
    BY <2>3, <2>4
<1>8. ASSUME NEW d \in Deliveries, HandlerFails(d) PROVE DoneInv(e)'
  <2>1. /\ ~At(d, "free") /\ ~At(d, "complete") /\ End(d, Pinged(d, ErrorLease))
        /\ UNCHANGED successes /\ Pinged(d, ErrorLease) \in [Entries -> Message]
    BY <1>8, PingedMessages DEF HandlerFails, Fails, At
  <2>2. \A k \in Deliveries : k # d => delivery'[k] = delivery[k]
    BY <2>1, EndStep
  <2> QED
    BY <1>c, <2>1, <2>2
<1>9. ASSUME NEW d \in Deliveries, Complete(d) PROVE DoneInv(e)'
  <2>1. /\ ~At(d, "free") /\ At(d, "complete") /\ End(d, Completed(d)) /\ UNCHANGED successes
        /\ Completed(d) \in [Entries -> Message]
    BY <1>9, CompletedMessages DEF Complete, At
  <2>2. \A k \in Deliveries : k # d => delivery'[k] = delivery[k]
    BY <2>1, EndStep
  <2>3. ASSUME Item(d) = e PROVE ~message'[e].queued
    <3>1. Holds(d)
      BY <2>1, <2>3 DEF Leases, LeaseInv
    <3>2. Completed(d)[e] = Gone
      BY <2>1, <2>3, <3>1, CompletedMessages
    <3>3. message'[e].queued = Completed(d)[e].queued
      BY <2>1, EndStep
    <3> QED
      BY <3>2, <3>3 DEF Gone
  <2> QED
    BY <1>0, <2>1, <2>2, <2>3 DEF At, Item
<1>10. ASSUME Tick PROVE DoneInv(e)'
  <2>1. TimePasses /\ UNCHANGED successes
    BY <1>10 DEF Tick, TimePasses
  <2>2. \A k \in Deliveries : At(k, "complete") /\ Item(k) = e => At(k, "complete")' /\ Item(k)' = e
    <3>1. \A k \in Deliveries : At(k, "complete") => ~At(k, "free")
      BY DEF At
    <3> QED
      BY <1>a, <2>1, <3>1, TimeStep
  <2> QED
    BY <1>0, <2>1, <2>2
<1>11. ASSUME (\E d \in Deliveries : CompleteFails(d)) \/ (\E s \in Servers : Crash(s)) \/ Stall
       PROVE  FALSE
  BY <1>11 DEF CompleteFails, Crash, Stall, Fault
<1>12. ASSUME UNCHANGED <<successes, delivery>> PROVE DoneInv(e)'
  BY <1>0, <1>12 DEF At, Item
<1>20. ASSUME NEW d \in Deliveries, HandOverFails(d) PROVE DoneInv(e)'
  BY <1>20, <1>c, HandOverEnds, EndStep
<1> QED
  BY <1>1, <1>2, <1>3, <1>4, <1>5, <1>6, <1>7, <1>8, <1>9, <1>10, <1>11, <1>12, <1>20
  DEF Next, Job, Return, HandedOver, vars

LEMMA InvStep == IInv /\ [Next]_vars => IInv'
<1> SUFFICES ASSUME IInv, [Next]_vars PROVE IInv'
  OBVIOUS
<1>1. TypeOK /\ Guarded /\ GoneInv
  BY DEF IInv, Guarded
<1>2. TypeOK' /\ Guarded' /\ GoneInv'
  BY <1>1, TypeStep, GuardStep, GoneStep
<1>3. ASSUME faults' = 0 PROVE faults = 0 /\ UNCHANGED keyed
  <2>1. faults \in Nat /\ faults' \in Nat
    BY <1>1, <1>2 DEF TypeOK
  <2> DEFINE Goal == keyed' = keyed /\ (faults' = faults \/ faults' = faults + 1)
  <2>2. ASSUME NEW s \in Servers, NEW e \in Entries, Dequeue(s, e) \/ HandedOver(s, e) PROVE Goal
    BY <2>2 DEF Dequeue, HandedOver
  <2>3. ASSUME NEW d \in Deliveries, Take(d) \/ TakeLate(d) \/ Ping(d) \/ Skip(d) \/ HandOverFails(d) PROVE Goal
    BY <2>3 DEF Take, TakeLate, Ping, Skip, HandOverFails
  <2>4. ASSUME NEW d \in Deliveries, Invoke(d) \/ Complete(d) \/ KeepAlivePing(d) \/ Handled(d) PROVE Goal
    BY <2>4 DEF Invoke, Complete, KeepAlivePing, Handled
  <2>5. ASSUME NEW d \in Deliveries, HandlerFails(d) \/ CompleteFails(d) PROVE Goal
    BY <2>5 DEF HandlerFails, CompleteFails, Fails, Fault
  <2>6. ASSUME NEW s \in Servers, Crash(s) PROVE Goal
    BY <2>6 DEF Crash, Fault
  <2>7. ASSUME Tick \/ Stall PROVE Goal
    BY <2>7 DEF Tick, Stall, TimePasses, Fault
  <2>8. ASSUME UNCHANGED vars PROVE Goal
    BY <2>8 DEF vars
  <2>9. Goal
    BY <2>2, <2>3, <2>4, <2>5, <2>6, <2>7, <2>8 DEF Next, Job, Return
  <2> QED
    BY <1>3, <2>1, <2>9
<1>4. ASSUME faults' = 0 PROVE Leases' /\ \A e \in Entries \ keyed' : DoneInv(e)'
  <2>1. faults = 0 /\ UNCHANGED keyed /\ Leases /\ \A e \in Entries \ keyed : DoneInv(e)
    BY <1>3, <1>4 DEF IInv, Leases
  <2>2. Leases'
    BY <1>1, <1>4, <2>1, LeaseStep
  <2>3. ASSUME NEW e \in Entries, e \notin keyed PROVE DoneInv(e)'
    BY <1>1, <1>4, <2>1, <2>3, DoneStep
  <2> QED
    BY <2>1, <2>2, <2>3
<1> QED
  BY <1>2, <1>4 DEF IInv, Guarded, Leases

(* QueueWorker.LeaseHeld: until something fails or stalls, a parallel handler *)
(* runs under its lease, for all times with KeepAlive < PingLease: a delivery *)
(* that is pinged before the NextVisible it was told has run out still has it.*)
THEOREM LeaseHeldHolds == Spec => []LeaseHeld
<1>1. IInv => LeaseHeld
  <2> SUFFICES ASSUME IInv, faults = 0, NEW d \in Handling, Item(d) \notin keyed PROVE Leased(d)
    BY DEF LeaseHeld
  <2>1. d \in Deliveries /\ ~At(d, "free") /\ (At(d, "handling") \/ At(d, "complete"))
    BY DEF Handling, At
  <2>2. LeaseInv(d) /\ delivery[d].ping \in Nat /\ message[Item(d)].left \in Nat
    BY <2>1, Live DEF IInv, Message
  <2> QED
    BY <2>1, <2>2 DEF LeaseInv, Leased
<1> QED
  BY InitInv, InvStep, <1>1, PTL DEF Spec

(* QueueWorker.HandledOnce: ... and no parallel entry is handled twice: who   *)
(* has handled it still has its lease, and no Complete is in vain.            *)
THEOREM HandledOnceHolds == Spec => []HandledOnce
<1>1. IInv => HandledOnce
  BY DEF IInv, HandledOnce, DoneInv
<1> QED
  BY InitInv, InvStep, <1>1, PTL DEF Spec
===============================================================================
