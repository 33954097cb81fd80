------------------------------ MODULE QueueWorker ------------------------------
(***************************************************************************)
(* The queue workers: QueueWorkerService.cs, which dequeues, and           *)
(* QueueWorkerJob.cs, which processes, on several worker servers.          *)
(*                                                                         *)
(* A delivery is one dequeued message on its way through a server: it      *)
(* waits in the dispatcher, is pinged, guarded by InFlight, handled under  *)
(* a keepalive and completed.  A message whose handler asks for queued     *)
(* processing is handed over by the parallel job that took it: it waits    *)
(* again, in the keyed dispatcher, and goes through the same method.       *)
(*                                                                         *)
(* What a delivery knows is what it was told when it was dequeued: its own *)
(* NextVisible is not changed by its pings.  Time is counted down: for     *)
(* each message until it is visible again, for each delivery until the     *)
(* NextVisible it was told, for each keepalive until its next ping.  The   *)
(* queue of the Sys server is what MessageQueue promises: Ping and         *)
(* Complete do nothing for a pop receipt that is not the latest.  All      *)
(* messages of queued processing have one buffer key.                      *)
(***************************************************************************)
EXTENDS Integers, FiniteSets

CONSTANTS Entries,       \* the messages, in the queue from the start
          Servers,
          Deliveries,    \* room for the deliveries under way
          Nobody,
          DequeueLease,  \* 5 minutes
          PingLease,     \* 120 seconds
          KeepAlive,     \* 90 seconds
          ErrorLease,    \* 30 seconds
          Margin,        \* 10 seconds
          MaxDequeues,   \* 30
          MaxFaults      \* bound on stalls, crashes and failed calls

ASSUME NobodyAssumption == Nobody \notin Deliveries
ASSUME TimesAssumption ==
    /\ DequeueLease \in Nat /\ PingLease \in Nat /\ ErrorLease \in Nat /\ Margin \in Nat
    /\ KeepAlive \in Nat \ {0} /\ KeepAlive < PingLease /\ PingLease <= DequeueLease
    /\ ErrorLease <= DequeueLease
    /\ MaxDequeues \in Nat /\ MaxFaults \in Nat

VARIABLES keyed,         \* the entries whose handler asks for queued processing
          message,       \* the messages still in the queue of the Sys server
          delivery,      \* the deliveries, in whichever server
          inFlight,      \* QueueWorkerJob.InFlight of each server
          handing,       \* hand-overs whose parallel job has not let InFlight go
          successes,     \* history: how often each entry was handled to the end
          faults

vars == <<keyed, message, delivery, inFlight, handing, successes, faults>>

Gone == [receipt |-> Nobody, left |-> 0, count |-> 0, queued |-> FALSE]
Message == [receipt : Deliveries \cup {Nobody}, left : 0..DequeueLease,
            count : 0..(MaxDequeues + 1), queued : BOOLEAN]

Free == [step |-> "free"]
Steps == {"waiting", "ping", "pinged", "handling", "complete"}
Delivery == [step : Steps, entry : Entries, server : Servers, keyed : BOOLEAN,
             left : 0..DequeueLease, count : 0..(MaxDequeues + 1), ping : 0..KeepAlive]

Init ==
    /\ keyed \in SUBSET Entries
    /\ message = [e \in Entries |-> [Gone EXCEPT !.queued = TRUE]]
    /\ delivery = [d \in Deliveries |-> Free]
    /\ inFlight = [s \in Servers |-> {}]
    /\ handing = {}
    /\ successes = [e \in Entries |-> 0]
    /\ faults = 0

-------------------------------------------------------------------------------
Item(d) == delivery[d].entry
Server(d) == delivery[d].server
At(d, step) == delivery[d].step = step

Go(d, step) == delivery' = [delivery EXCEPT ![d].step = step]

(* The delivery is over, and with it the pop receipt only it knew. *)
Forget(m, d) == IF m.receipt = d THEN [m EXCEPT !.receipt = Nobody] ELSE m

Holds(d) == message[Item(d)].receipt = d

(* M_... definitions are deliberately wrong versions of the definition that  *)
(* follows them; they are not part of the model (README, "Mutants").         *)
M_Pinged(d, lease) ==
    IF Holds(d) THEN [message EXCEPT ![Item(d)].left = @ + lease] ELSE message

(* Queue.Ping and Queue.Complete on the Sys server, seen from a delivery. *)
Pinged(d, lease) ==
    IF Holds(d) THEN [message EXCEPT ![Item(d)].left = lease] ELSE message

Completed(d) ==
    IF Holds(d) THEN [message EXCEPT ![Item(d)] = Gone] ELSE message

End(d, msgs) ==
    /\ delivery' = [delivery EXCEPT ![d] = Free]
    /\ message' = [msgs EXCEPT ![Item(d)] = Forget(@, d)]

-------------------------------------------------------------------------------
(* QueueWorkerService.OnExecute: Dequeue hands the message out for 5         *)
(* minutes, and it waits in the parallel dispatcher.                         *)
More(count) == IF count <= MaxDequeues THEN count + 1 ELSE count

HandedOut(m, d) == [m EXCEPT !.receipt = d, !.left = DequeueLease, !.count = More(@)]

NewDelivery(e, s) == [step |-> "waiting", entry |-> e, server |-> s, keyed |-> FALSE,
                      left |-> DequeueLease, count |-> More(message[e].count), ping |-> 0]

Dequeue(s, e) ==
    /\ message[e].queued /\ message[e].left = 0
    /\ \E d \in Deliveries :
          /\ delivery[d] = Free
          /\ message' = [message EXCEPT ![e] = HandedOut(@, d)]
          /\ delivery' = [delivery EXCEPT ![d] = NewDelivery(e, s)]
    /\ UNCHANGED <<keyed, inFlight, handing, successes, faults>>

(* A job takes it, unless it has waited too long.  (The job of a keyed       *)
(* dispatcher takes one after the other, but a key may have two dispatchers  *)
(* at a time, as KeyedDispatcher shows: what is said here does not rely on   *)
(* their order.)                                                             *)
InTime(d) == delivery[d].left > Margin

Take(d) ==
    /\ At(d, "waiting")
    /\ InTime(d)
    /\ Go(d, "ping")
    /\ UNCHANGED <<keyed, message, inFlight, handing, successes, faults>>

TakeLate(d) ==
    /\ At(d, "waiting")
    /\ ~InTime(d)
    /\ End(d, message)
    /\ UNCHANGED <<keyed, inFlight, handing, successes, faults>>

(* The ping takes what time it takes; the delivery is given up if that was   *)
(* too long, and the message completed if it has come too often.             *)
M_Late(d) == FALSE

Late(d) == delivery[d].left = 0

M_Worn(d) == FALSE

Worn(d) == delivery[d].count > MaxDequeues

Ping(d) ==
    /\ At(d, "ping")
    /\ \/ Late(d) /\ End(d, Pinged(d, PingLease))
       \/ ~Late(d) /\ Worn(d) /\ End(d, Completed(d))
       \/ ~Late(d) /\ ~Worn(d) /\ Go(d, "pinged") /\ message' = Pinged(d, PingLease)
    /\ UNCHANGED <<keyed, inFlight, handing, successes, faults>>

(* InFlight: an entry in the hands of another job of the server is skipped;  *)
(* a parallel job hands a queued one over, the others invoke the handler.    *)
M_Skipped(d) == FALSE

Skipped(d) == Item(d) \in inFlight[Server(d)]

Skip(d) ==
    /\ At(d, "pinged")
    /\ Skipped(d)
    /\ End(d, message)
    /\ UNCHANGED <<keyed, inFlight, handing, successes, faults>>

Queued(x) == [x EXCEPT !.keyed = TRUE, !.step = "waiting"]
UnderWay(x) == [x EXCEPT !.left = 0, !.ping = KeepAlive, !.step = "handling"]

Invoke(d) ==
    /\ At(d, "pinged")
    /\ ~Skipped(d)
    /\ inFlight' = [inFlight EXCEPT ![Server(d)] = @ \cup {Item(d)}]
    /\ \/ /\ Item(d) \in keyed /\ ~delivery[d].keyed
          /\ delivery' = [delivery EXCEPT ![d] = Queued(@)]
          /\ handing' = handing \cup {<<Server(d), Item(d)>>}
       \/ /\ Item(d) \notin keyed \/ delivery[d].keyed
          /\ delivery' = [delivery EXCEPT ![d] = UnderWay(@)]
          /\ UNCHANGED handing
    /\ UNCHANGED <<keyed, message, successes, faults>>

(* The hand-over fails.  Nobody looks at the answer of Owner.Enqueue: where  *)
(* it is false, or the item was put into a keyed dispatcher just disposed,   *)
(* the delivery is over and the message waits for its lease.  Where the      *)
(* handler cannot be made or Enqueue throws, OnError is called.              *)
HandOverFails(d) ==
    /\ At(d, "pinged")
    /\ ~Skipped(d)
    /\ Item(d) \in keyed /\ ~delivery[d].keyed
    /\ \/ /\ End(d, message)
          /\ inFlight' = [inFlight EXCEPT ![Server(d)] = @ \cup {Item(d)}]
          /\ handing' = handing \cup {<<Server(d), Item(d)>>}
       \/ /\ End(d, Pinged(d, ErrorLease))
          /\ UNCHANGED <<inFlight, handing>>
    /\ UNCHANGED <<keyed, successes, faults>>

(* The finally of the parallel job that handed an entry over. *)
HandedOver(s, e) ==
    /\ <<s, e>> \in handing
    /\ handing' = handing \ {<<s, e>>}
    /\ inFlight' = [inFlight EXCEPT ![s] = @ \ {e}]
    /\ UNCHANGED <<keyed, message, delivery, successes, faults>>

(* The keepalive, while the handler runs. *)
M_KeepAlivePing(d) ==
    /\ At(d, "handling") /\ delivery[d].ping = 0
    /\ delivery' = [delivery EXCEPT ![d].ping = KeepAlive]
    /\ UNCHANGED <<keyed, message, inFlight, handing, successes, faults>>

KeepAlivePing(d) ==
    /\ At(d, "handling") /\ delivery[d].ping = 0
    /\ message' = Pinged(d, PingLease)
    /\ delivery' = [delivery EXCEPT ![d].ping = KeepAlive]
    /\ UNCHANGED <<keyed, inFlight, handing, successes, faults>>

Removed(d) == [inFlight EXCEPT ![Server(d)] = @ \ {Item(d)}]

(* The handler is done, and the keepalive stops before Complete is called; ... *)
Handled(d) ==
    /\ At(d, "handling")
    /\ Go(d, "complete")
    /\ successes' = [successes EXCEPT ![Item(d)] = IF @ < 2 THEN @ + 1 ELSE @]
    /\ UNCHANGED <<keyed, message, inFlight, handing, faults>>

Complete(d) ==
    /\ At(d, "complete")
    /\ End(d, Completed(d))
    /\ inFlight' = Removed(d)
    /\ UNCHANGED <<keyed, handing, successes, faults>>

(* ... or it has thrown, and OnError asks for another try in 30 seconds. *)
Fails(d) ==
    /\ End(d, Pinged(d, ErrorLease))
    /\ inFlight' = Removed(d)
    /\ UNCHANGED <<keyed, handing, successes>>

HandlerFails(d) ==
    /\ At(d, "handling")
    /\ Fails(d)
    /\ UNCHANGED faults

Job(d) ==
    \/ Take(d) \/ TakeLate(d) \/ Ping(d) \/ Skip(d) \/ Invoke(d) \/ HandOverFails(d)
    \/ Complete(d)

Return(d) == Handled(d) \/ HandlerFails(d)

-------------------------------------------------------------------------------
Less(n) == IF n = 0 THEN 0 ELSE n - 1

TimePasses ==
    /\ message' = [e \in Entries |-> [message[e] EXCEPT !.left = Less(@)]]
    /\ delivery' = [d \in Deliveries |->
          IF At(d, "free") THEN Free
          ELSE [delivery[d] EXCEPT !.left = Less(@), !.ping = Less(@)]]
    /\ UNCHANGED <<keyed, inFlight, handing, successes>>

(* On a server that is not stalled a due keepalive is sent, and the steps    *)
(* after a ping or after the handler take less time than the leases have to  *)
(* spare.  A wait in a dispatcher, a ping and a handler may take any time.   *)
Prompt(d) == At(d, "pinged") \/ At(d, "complete") \/ (At(d, "handling") /\ delivery[d].ping = 0)

Tick ==
    /\ \A d \in Deliveries : ~Prompt(d)
    /\ \/ \E e \in Entries : message[e].left > 0
       \/ \E d \in Deliveries : ~At(d, "free") /\ delivery[d].left > 0
    /\ TimePasses
    /\ UNCHANGED faults

Fault == faults < MaxFaults /\ faults' = faults + 1

(* A server stalls, or its pings do not arrive; ... *)
Stall ==
    /\ Fault
    /\ \E d \in Deliveries : Prompt(d)
    /\ TimePasses

(* ... the call of Complete fails; ... *)
CompleteFails(d) ==
    /\ Fault
    /\ At(d, "complete")
    /\ Fails(d)

(* ... a server dies. *)
Crash(s) ==
    /\ Fault
    /\ LET dead == {d \in Deliveries : ~At(d, "free") /\ Server(d) = s} IN
          /\ delivery' = [d \in Deliveries |-> IF d \in dead THEN Free ELSE delivery[d]]
          /\ message' = [e \in Entries |->
                IF message[e].receipt \in dead THEN [message[e] EXCEPT !.receipt = Nobody]
                ELSE message[e]]
    /\ inFlight' = [inFlight EXCEPT ![s] = {}]
    /\ handing' = {h \in handing : h[1] # s}
    /\ UNCHANGED <<keyed, successes>>

-------------------------------------------------------------------------------
Next ==
    \/ \E s \in Servers, e \in Entries : Dequeue(s, e) \/ HandedOver(s, e)
    \/ \E d \in Deliveries : Job(d) \/ KeepAlivePing(d) \/ Return(d) \/ CompleteFails(d)
    \/ \E s \in Servers : Crash(s)
    \/ Tick \/ Stall

Spec == Init /\ [][Next]_vars

(* The servers dequeue, jobs go on, handlers return or throw, time passes.   *)
(* An entry that is delivered again and again is now and then taken before   *)
(* its lease is over, and pinged before that.                                *)
TakenInTime(e) == \E d \in Deliveries : ~At(d, "free") /\ Item(d) = e /\ Take(d)
PingedInTime(e) == \E d \in Deliveries : ~At(d, "free") /\ Item(d) = e /\ ~Late(d) /\ Ping(d)

Fairness ==
    /\ \A e \in Entries :
          /\ WF_vars(\E s \in Servers : Dequeue(s, e))
          /\ SF_vars(TakenInTime(e)) /\ SF_vars(PingedInTime(e))
          /\ \A s \in Servers : WF_vars(HandedOver(s, e))
    /\ \A d \in Deliveries : WF_vars(Job(d)) /\ WF_vars(KeepAlivePing(d)) /\ WF_vars(Return(d))
    /\ WF_vars(Tick)

FairSpec == Spec /\ Fairness

-------------------------------------------------------------------------------
TypeOK ==
    /\ keyed \subseteq Entries
    /\ message \in [Entries -> Message]
    /\ delivery \in [Deliveries -> Delivery \cup {Free}]
    /\ inFlight \in [Servers -> SUBSET Entries]
    /\ handing \subseteq Servers \X Entries
    /\ successes \in [Entries -> 0..2]
    /\ faults \in 0..MaxFaults

Handling == {d \in Deliveries : At(d, "handling") \/ At(d, "complete")}

(* No two jobs of one server handle an entry at once, even when its lease    *)
(* was lost and it was delivered to the server a second time.                *)
OncePerServer ==
    \A d, k \in Handling : Item(d) = Item(k) /\ Server(d) = Server(k) => d = k

(* As long as nothing fails or stalls, a parallel handler runs only under    *)
(* the lease its message was handed out with, so no other server has it.     *)
Leased(d) == Holds(d) /\ message[Item(d)].left > 0

LeaseHeld == faults = 0 => \A d \in Handling : Item(d) \in keyed \/ Leased(d)

(* ... and it is not handled again once it was handled without an error. *)
HandledOnce == faults = 0 => \A e \in Entries \ keyed : successes[e] <= 1

(* Why, in terms an induction can use: InFlight of a server names every      *)
(* entry handled or handed over there, and a pair of them only once; ...     *)
InFlightInv ==
    /\ \A d \in Handling :
          Item(d) \in inFlight[Server(d)] /\ <<Server(d), Item(d)>> \notin handing
    /\ \A s \in Servers, e \in Entries : <<s, e>> \in handing => e \in inFlight[s]

(* ... the pop receipt of a message that is gone is nobody's; ...            *)
GoneInv == \A e \in Entries : ~message[e].queued => message[e].receipt = Nobody

(* ... a delivery that believes in its lease, or was pinged, has it; ...     *)
Trusts(d) == (At(d, "waiting") \/ At(d, "ping")) /\ delivery[d].left > 0

LeaseInv(d) ==
    /\ Trusts(d) => Holds(d) /\ message[Item(d)].left >= delivery[d].left
    /\ At(d, "pinged") => Holds(d) /\ message[Item(d)].left > KeepAlive
    /\ At(d, "handling") => Holds(d) /\ message[Item(d)].left > delivery[d].ping
    /\ At(d, "complete") => Holds(d) /\ message[Item(d)].left > 0

(* ... and what was handled is gone, or about to be.                         *)
DoneInv(e) ==
    /\ successes[e] <= 1
    /\ successes[e] = 1 =>
          ~message[e].queued \/ \E d \in Deliveries : At(d, "complete") /\ Item(d) = e

IInv ==
    /\ TypeOK /\ OncePerServer /\ InFlightInv /\ GoneInv
    /\ faults = 0 =>
          /\ \A d \in Deliveries : ~At(d, "free") /\ Item(d) \notin keyed => LeaseInv(d)
          /\ \A e \in Entries \ keyed : DoneInv(e)

(* Every message leaves the queue in the end, however often its handler      *)
(* throws, its server dies or its hand-over is skipped.                      *)
EveryEntryLeaves == \A e \in Entries : <>(~message[e].queued)

-------------------------------------------------------------------------------
(* Claims of the source that the code does not keep (see README, "Findings") *)

(* TimeoutTask.cs:110: the keepalive goes on, "otherwise the queue entry     *)
(* silently becomes visible again while it is still being processed".        *)
ProcessedIsLeased == faults = 0 => \A d \in Handling : Leased(d)
===============================================================================
