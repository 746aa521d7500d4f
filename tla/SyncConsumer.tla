---------------------------- MODULE SyncConsumer ----------------------------
(***************************************************************************)
(* The consumer of the sync service, for one of its two subjects (card     *)
(* created, email sent; they share nothing): a push subscription with a    *)
(* durable consumer whose callback runs the handler and acks, refuses, or  *)
(* forwards a message that failed on its last delivery to the dead         *)
(* letters.  The handlers parse the body and write a log line; what they   *)
(* do can fail only for a body that does not parse.                        *)
(***************************************************************************)
EXTENDS Integers, Sequences, JetStream

CONSTANTS Event, Unreadable,   \* messages; those whose body does not parse
          NATSMaxDeliver,      \* deliveries of one message
          MaxEnds              \* bound: shutdowns and crashes of the server

ASSUME SyncerBounds == Unreadable \subseteq Event /\ NATSMaxDeliver \in Nat \ {0} /\ MaxEnds \in Nat

VARIABLES
  events,       \* each message of the stream
  subscribed,
  pushed,      \* messages pushed to the client: [e, n]
  serving,     \* what the callback does with the first of them
  handled,     \* how often the handler accepted a message
  deadCopies,  \* copies in the dead letters
  missed,      \* history: messages whose last delivery failed to be forwarded or was not answered
  ends

syncerVars == <<events, subscribed, pushed, serving, handled, deadCopies, missed, ends>>

SyncerInit ==
  /\ events = [e \in Event |-> NewMessage] /\ subscribed = FALSE
  /\ pushed = <<>> /\ serving = "none"
  /\ handled = [e \in Event |-> 0] /\ deadCopies = [e \in Event |-> 0]
  /\ missed = {} /\ ends = 0

Current == Head(pushed)
Served == serving' = "none" /\ pushed' = Tail(pushed)

Subscribe ==
  /\ ~subscribed /\ subscribed' = TRUE
  /\ UNCHANGED <<events, pushed, serving, handled, deadCopies, missed, ends>>

PushEvent(e) ==
  /\ subscribed /\ events[e].at = "ready"
  /\ events' = [events EXCEPT ![e] = Delivered(@)]
  /\ pushed' = Append(pushed, [e |-> e, n |-> events[e].n + 1])
  /\ UNCHANGED <<subscribed, serving, handled, deadCopies, missed, ends>>

IsLast_Never(n) == FALSE
IsLast(n) == n >= NATSMaxDeliver

\* handleCardCreated, handleEmailSent
CallHandler ==
  /\ serving = "none" /\ pushed # <<>>
  /\ IF Current.e \in Unreadable
     THEN serving' = (IF IsLast(Current.n) THEN "forward" ELSE "nak") /\ UNCHANGED handled
     ELSE serving' = "ack" /\ handled' = [handled EXCEPT ![Current.e] = @ + 1]
  /\ UNCHANGED <<events, subscribed, pushed, deadCopies, missed, ends>>

AfterForward(ok) == IF ok THEN "ack" ELSE "nak"

\* The publication may be stored although its answer is an error.
ForwardToDLQ ==
  /\ serving = "forward"
  /\ \E ok, there \in BOOLEAN :
       /\ ok => there
       /\ serving' = AfterForward(ok)
       /\ deadCopies' = [deadCopies EXCEPT ![Current.e] = IF there THEN @ + 1 ELSE @]
       /\ missed' = IF there THEN missed ELSE missed \cup {Current.e}
  /\ UNCHANGED <<events, subscribed, pushed, handled, ends>>

AckEvent ==
  /\ serving = "ack" /\ Served
  /\ \E x \in AckOutcomes(events[Current.e]) : events' = [events EXCEPT ![Current.e] = x]
  /\ UNCHANGED <<subscribed, handled, deadCopies, missed, ends>>

NakEvent ==
  /\ serving = "nak" /\ Served
  /\ \E x \in NakOutcomes(events[Current.e], Current.n, NATSMaxDeliver) : events' = [events EXCEPT ![Current.e] = x]
  /\ UNCHANGED <<subscribed, handled, deadCopies, missed, ends>>

\* AckWait is over, also for a message that waits behind another, whose answer
\* was lost, or whose server is gone.
EventTimesOut(e) ==
  /\ events[e].at = "out" /\ events' = [events EXCEPT ![e] = Returned(@, NATSMaxDeliver)]
  /\ missed' = IF IsLast(events[e].n) THEN missed \cup {e} ELSE missed
  /\ UNCHANGED <<subscribed, pushed, serving, handled, deadCopies, ends>>

Ending ==
  /\ subscribed /\ ends < MaxEnds /\ ends' = ends + 1
  /\ subscribed' = FALSE /\ pushed' = <<>> /\ serving' = "none"
  /\ UNCHANGED <<handled, deadCopies, missed>>

\* Unsubscribe deletes the durable consumer, which js.Subscribe had made: the
\* next one counts the deliveries of what is left from the beginning.
Unsubscribed(x) == IF x.at = "acked" THEN x ELSE NewMessage

CloseConsumer == Ending /\ events' = [e \in Event |-> Unsubscribed(events[e])]

ServerCrashes == Ending /\ UNCHANGED events

SyncerNext ==
  \/ Subscribe \/ CallHandler \/ ForwardToDLQ \/ AckEvent \/ NakEvent
  \/ CloseConsumer \/ ServerCrashes
  \/ \E e \in Event : PushEvent(e) \/ EventTimesOut(e)

SyncerSpec == SyncerInit /\ [][SyncerNext]_syncerVars

-----------------------------------------------------------------------------

SyncerTypeOK ==
  /\ events \in [Event -> MessageState] /\ subscribed \in BOOLEAN
  /\ pushed \in Seq([e : Event, n : 1 .. NATSMaxDeliver])
  /\ serving \in {"none", "forward", "ack", "nak"} /\ (serving # "none" => pushed # <<>>)
  /\ handled \in [Event -> Nat] /\ deadCopies \in [Event -> Nat]
  /\ missed \subseteq Event /\ ends \in 0 .. MaxEnds

\* An event the server took off the stream was handled or is a dead letter, and
\* only one that nobody can read becomes a dead letter.
AckedIsAccountedFor ==
  \A e \in Event : /\ events[e].at = "acked" => handled[e] > 0 \/ deadCopies[e] > 0
                   /\ deadCopies[e] > 0 => e \in Unreadable

\* One that used up its deliveries and lies in the stream for good was
\* handled, is a dead letter, or its last delivery came to nothing.
SpentHasACause ==
  \A e \in Event : events[e].at = "spent" => handled[e] > 0 \/ deadCopies[e] > 0 \/ e \in missed

\* A readable event is handled, and an unreadable one forwarded, at most once in
\* a delivery; a shutdown grants new deliveries, a crash does not.
HandledPerDelivery ==
  \A e \in Event : /\ handled[e] <= NATSMaxDeliver * (1 + ends)
                   /\ deadCopies[e] <= 1 + ends

\* Whatever answers are lost and however the server ends, an event is handled
\* or forwarded before it leaves the stream, and not without bound.
SyncerInv == SyncerTypeOK /\ AckedIsAccountedFor /\ SpentHasACause /\ HandledPerDelivery
=============================================================================
