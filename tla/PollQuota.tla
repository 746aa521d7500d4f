----------------------------- MODULE PollQuota -----------------------------
(***************************************************************************)
(* The quota of the mail APIs in Redis: one key per Gmail user (or for the *)
(* Outlook application) that holds what remains of the current window and  *)
(* disappears at its end.  Polls take from it with a Lua script and, when  *)
(* the call failed, put it back with INCRBY, PTTL and, if the key turned   *)
(* out to have no expiry, EXPIRE.                                          *)
(***************************************************************************)
EXTENDS Integers, FiniteSets, FiniteSetsExt

CONSTANTS Poll,     \* concurrent polls
          Limit,    \* units per window
          Costs     \* what a call can cost

ASSUME QuotaBounds == Limit \in Nat /\ Costs \subseteq 1 .. Limit

VARIABLES
  key,      \* the Redis key: present or not, what remains, whether it expires
  poll,     \* each poll: what it does and what its call cost
  spent,    \* history: units of the calls admitted in this window and not refunded
  late,     \* history: units put back into this window by calls of earlier windows
  stuck     \* history: the EXPIRE after a refund failed or was never sent

quotaVars == <<key, poll, spent, late, stuck>>

Gone == [present |-> FALSE, remaining |-> 0, expires |-> FALSE]
Asleep == [at |-> "idle", cost |-> 0, old |-> FALSE]

QuotaInit ==
  /\ key = Gone /\ poll = [p \in Poll |-> Asleep]
  /\ spent = 0 /\ late = 0 /\ stuck = FALSE

Remaining == IF key.present THEN key.remaining ELSE Limit
Take_Fresh(c) == key' = [present |-> TRUE, remaining |-> Limit - c,
                         expires |-> IF key.present THEN key.expires ELSE TRUE]

\* gmailAllowScript and outlookAllowScript, atomic in Redis; KEEPTTL.
Take(c) == key' = [present |-> TRUE, remaining |-> Remaining - c,
                   expires |-> IF key.present THEN key.expires ELSE TRUE]
Enough(c) == Remaining >= c

Allow(p) ==
  /\ poll[p].at = "idle"
  /\ \E c \in Costs :
       /\ Enough(c) /\ Take(c)
       /\ poll' = [poll EXCEPT ![p] = [at |-> "calling", cost |-> c, old |-> FALSE]]
       /\ spent' = spent + c
  /\ UNCHANGED <<late, stuck>>

CallSucceeds(p) ==
  /\ poll[p].at = "calling" /\ poll' = [poll EXCEPT ![p] = Asleep]
  /\ UNCHANGED <<key, spent, late, stuck>>

\* RefundGmailQuota: the key may be that of a later window, or a new one
\* without an expiry, which the next command gives it.
AfterRefund == IF key.present /\ key.expires THEN "idle" ELSE "expiring"

Refund(p) ==
  /\ poll[p].at = "calling"
  /\ key' = [present |-> TRUE, expires |-> key.present /\ key.expires,
             remaining |-> poll[p].cost + (IF key.present THEN key.remaining ELSE 0)]
  /\ poll' = [poll EXCEPT ![p] = [Asleep EXCEPT !.at = AfterRefund]]
  /\ spent' = IF poll[p].old THEN spent ELSE spent - poll[p].cost
  /\ late' = IF poll[p].old THEN late + poll[p].cost ELSE late
  /\ UNCHANGED stuck

Expire(p) ==
  /\ poll[p].at = "expiring" /\ poll' = [poll EXCEPT ![p] = Asleep]
  /\ \/ key' = [key EXCEPT !.expires = key.present] /\ UNCHANGED stuck
     \/ stuck' = TRUE /\ UNCHANGED key            \* the error is ignored
  /\ UNCHANGED <<spent, late>>

\* The process dies: calls it made are neither finished nor refunded.
PollerDies ==
  /\ stuck' = (stuck \/ \E p \in Poll : poll[p].at = "expiring")
  /\ \E p \in Poll : poll[p].at # "idle"
  /\ poll' = [p \in Poll |-> Asleep]
  /\ UNCHANGED <<key, spent, late>>

WindowEnds ==
  /\ key.present /\ key.expires /\ key' = Gone
  /\ poll' = [p \in Poll |-> [poll[p] EXCEPT !.old = poll[p].at = "calling"]]
  /\ spent' = 0 /\ late' = 0
  /\ UNCHANGED stuck

QuotaNext ==
  \/ PollerDies \/ WindowEnds
  \/ \E p \in Poll : Allow(p) \/ CallSucceeds(p) \/ Refund(p) \/ Expire(p)

QuotaFairness == WF_quotaVars(WindowEnds) /\ \A p \in Poll : WF_quotaVars(Expire(p))
QuotaSpec == QuotaInit /\ [][QuotaNext]_quotaVars /\ QuotaFairness

-----------------------------------------------------------------------------

QuotaTypeOK ==
  /\ key \in [present : BOOLEAN, remaining : Nat, expires : BOOLEAN]
  /\ poll \in [Poll -> [at : {"idle", "calling", "expiring"}, cost : 0 .. Limit, old : BOOLEAN]]
  /\ spent \in Nat /\ late \in Nat /\ stuck \in BOOLEAN

\* What was admitted in a window and what remains of it never exceed the limit,
\* except by what calls of an earlier window put back: scripts, refunds and the
\* end of the window may come in any order.
WindowWithinLimit == key.present => spent + key.remaining <= Limit + late

\* The quota comes back again and again, however many calls fail: a key without
\* an expiry, which would starve the account for good, is left behind only when
\* the EXPIRE that follows a refund fails or the process dies before it.
QuotaReturns == []<>(~key.present \/ stuck)

\* The quota is kept whatever scripts, refunds and expiries interleave.
QuotaInv == QuotaTypeOK /\ WindowWithinLimit
=============================================================================
