----------------------------- MODULE JetStream -----------------------------
(***************************************************************************)
(* What the consumers rely on of NATS JetStream: a message of a durable    *)
(* consumer with explicit acks waits, is out with a consumer, is acked, or *)
(* has used up its deliveries and stays where it is.                       *)
(***************************************************************************)
EXTENDS Integers

MessageState == [at : {"ready", "out", "acked", "spent"}, n : Nat]
NewMessage == [at |-> "ready", n |-> 0]

\* n is the number of deliveries, which the server tells the consumer.
Delivered(x) == [at |-> "out", n |-> x.n + 1]

\* A negative ack, or the time to ack is over: delivered again unless the
\* deliveries are used up.
Returned(x, max) == [x EXCEPT !.at = IF x.n >= max THEN "spent" ELSE "ready"]

\* An ack arrives or is lost; that of an earlier delivery may count or not.
AckOutcomes(x) == {x, [x EXCEPT !.at = "acked"]}

\* A negative ack counts only for the delivery that is out.
NakOutcomes(x, n, max) == IF x.at = "out" /\ x.n = n THEN {x, Returned(x, max)} ELSE {x}
=============================================================================
