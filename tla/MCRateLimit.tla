----------------------------- MODULE MCRateLimit -----------------------------
(* Two instances of the rate limiter, told apart by which.                 *)
(*                                                                         *)
(* "replicas" is RateLimit: the requirements of one request, as checkRates *)
(* lists them, those of an organisation and of a key, requests before      *)
(* tokens.  The request limit comes first, and the token limits refuse     *)
(* after it; the key has no request limit.                                 *)
(*                                                                         *)
(* "agree" is LimiterAgree: a request limit and a token limit of one unit  *)
(* a tick each, over eight ticks.                                         *)
EXTENDS RateLimit

CONSTANTS orgRpm, orgTpm, keyTpm, r1, q1, q2

Take(k, n) == [key |-> k, perMinute |-> n, take |-> TRUE]
Credit(k, n) == [key |-> k, perMinute |-> n, take |-> FALSE]

OrgAndKey == <<Take(orgRpm, 1), Credit(orgTpm, 2), Credit(keyTpm, 2)>>

AgreeKeys == {orgRpm, orgTpm}
AgreeLimit == [k \in AgreeKeys |-> 2]

\* An organisation's limits, with the token limit first, without one of them,
\* with the request limit twice, and without any limit.
AgreeLists ==
    {<<Take(orgRpm, 2), Credit(orgTpm, 2)>>, <<Credit(orgTpm, 2), Take(orgRpm, 2)>>,
     <<Credit(orgTpm, 0), Take(orgRpm, 2)>>,
     <<Take(orgRpm, 2), Credit(orgTpm, 2), Take(orgRpm, 2)>>,
     <<Take(orgRpm, 0), Credit(orgTpm, 0)>>}

VARIABLES which, time, memory, scripts, answers, charged, apart

Both == INSTANCE LimiterAgree WITH
            Keys <- AgreeKeys, Limit <- AgreeLimit, Lists <- AgreeLists, Minute <- 2,
            BucketIdle <- 5, Charges <- {1, 4}, MaxCharges <- 2, MaxClock <- 8,
            clock <- time, hashes <- scripts

Agree == Both!Agree

agreeVars == <<time, memory, scripts, answers, charged, apart>>

MCInit == which \in {"replicas", "agree"} /\ Init /\ Both!Init

MCNext ==
    \/ which = "replicas" /\ Next /\ UNCHANGED <<which, agreeVars>>
    \/ which = "agree" /\ Both!Next /\ UNCHANGED <<which, vars>>

MCSpec == /\ MCInit
          /\ [][MCNext]_<<which, vars, agreeVars>>
          /\ Fairness
==============================================================================
