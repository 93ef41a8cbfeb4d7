----------------------------- MODULE EmbedClient -----------------------------
(***************************************************************************)
(* The client of the embedding provider (internal/embed) as the workers    *)
(* stack it: retries above a rate limiter above the HTTP call.  The        *)
(* workers of a run share the limiter and the run's context, and each      *)
(* embeds a batch of texts.                                                *)
(*                                                                         *)
(* Time passes in ticks: a wait is the number of ticks it has left.  A     *)
(* caller whose turn at the limiter has come takes it within the tick.     *)
(* The vector of a text is the text.                                       *)
(***************************************************************************)
EXTENDS Integers, Sequences, FiniteSets

CONSTANTS
  Callers,                  \* workers sharing the client
  Batch,                    \* the texts of a call
  Foreign,                  \* a vector that is none of theirs
  MaxAttempts, BaseDelay, MaxDelay,
  Interval,                 \* ticks between requests; 0 when pacing is off
  RetryAfters,              \* values of the Retry-After header, 0 for none
  ReplyEntries,             \* entries a reply may be made of
  Budgets,                  \* what -max-duration may leave of a run
  Unlimited                 \* the budget of a run without one

ASSUME ClientAssumption ==
  /\ IsFiniteSet(Callers)
  /\ MaxAttempts \in Nat \ {0} /\ BaseDelay \in Nat \ {0} /\ MaxDelay \in Nat
  /\ BaseDelay <= MaxDelay /\ Interval \in Nat /\ RetryAfters \subseteq Nat
  /\ ReplyEntries \subseteq [index : Int, wide : BOOLEAN]
  /\ Batch \in Seq({Batch[i] : i \in DOMAIN Batch}) /\ \A i \in DOMAIN Batch : Batch[i] # Foreign
  /\ Budgets \subseteq Nat \cup {Unlimited} /\ Unlimited \notin Nat

VARIABLES
  client,     \* per caller: control point, attempt, wait, error and result
  budget,     \* ticks until the context ends; 0 when it has
  turn,       \* ticks until the limiter's next free turn
  gap,        \* ticks until a request keeps the limiter's interval
  owed        \* per caller: what its sleep has yet to wait of the back-off it was asked for

embedVars == <<client, budget, turn, gap, owed>>

Retriable == {"limited", "timeout"}
Over == budget = 0
Outlasts(wait) == budget # Unlimited /\ wait > budget

InitEmbed ==
  /\ client = [c \in Callers |-> [pc |-> "call", attempt |-> 1, wait |-> 0, err |-> "none", out |-> << >>]]
  /\ budget \in Budgets
  /\ turn = 0 /\ gap = 0 /\ owed = [c \in Callers |-> 0]

-----------------------------------------------------------------------------
(* The reply.                                                              *)

\* The entries of a reply come in any order; entry e holds the vector of the
\* text its index names.
VectorAt(e) == IF e.index + 1 \in DOMAIN Batch THEN Batch[e.index + 1] ELSE Foreign

Acceptable(data) ==
  /\ Len(data) = Len(Batch)
  /\ \A i \in DOMAIN data : data[i].index \in 0 .. Len(Batch) - 1 /\ data[i].wide
  /\ \A i, j \in DOMAIN data : i # j => data[i].index # data[j].index

\* Each vector at the index it declares.
OrderEmbeddings(data) ==
  [i \in DOMAIN Batch |-> VectorAt(CHOOSE e \in {data[j] : j \in DOMAIN data} : e.index = i - 1)]

Replies == UNION {[1 .. n -> ReplyEntries] : n \in 0 .. Len(Batch) + 1}

-----------------------------------------------------------------------------
(* The waits.                                                              *)

Least(a, b) == IF a <= b THEN a ELSE b

\* The delay doubles with each attempt up to the cap, and the wait is any part
\* of it.
Backoff(attempt) == {d \in 0 .. MaxDelay : d <= BaseDelay * 2 ^ (attempt - 1)}

\* Mutant: what the provider asks for is a ceiling.
DelayAtMost(attempt, ra) == IF ra <= 0 THEN Backoff(attempt) ELSE 0 .. Least(ra, MaxDelay)

\* What the provider asks for is a floor, with a spread above it, under the cap.
DelayFor(attempt, ra) ==
  IF ra <= 0 THEN Backoff(attempt)
  ELSE IF ra >= MaxDelay THEN {MaxDelay}
  ELSE ra .. ra + Least(BaseDelay, MaxDelay - ra)

-----------------------------------------------------------------------------
(* A call.                                                                 *)

At(c, pc) == client[c].pc = pc
Set(c, call) == client' = [client EXCEPT ![c] = call]
Ends(c, err) == Set(c, [client[c] EXCEPT !.pc = "done", !.wait = 0, !.err = err])

\* A turn that would come after the budget is refused at once.
WaitTurn(c) ==
  /\ At(c, "call") /\ ~Over
  /\ IF Outlasts(turn) THEN Ends(c, "budget") /\ UNCHANGED turn
     ELSE Set(c, [client[c] EXCEPT !.pc = "turn", !.wait = turn]) /\ turn' = turn + Interval
  /\ UNCHANGED <<budget, gap, owed>>

\* A context that is over ends the wait for a turn, and the retry above it
\* reports the context's error.
TurnFails(c) ==
  /\ At(c, "call") \/ At(c, "turn")
  /\ Over /\ Ends(c, "context")
  /\ UNCHANGED <<budget, turn, gap, owed>>

\* A request under a context that is over is not sent: it is one of TurnFails.
Send(c) ==
  /\ At(c, "turn") /\ client[c].wait = 0 /\ ~Over
  /\ Set(c, [client[c] EXCEPT !.pc = "request"])
  /\ gap' = Interval
  /\ UNCHANGED <<budget, turn, owed>>

Reply(c, data) ==
  /\ At(c, "request")
  /\ IF Acceptable(data)
     THEN Set(c, [client[c] EXCEPT !.pc = "done", !.err = "none", !.out = OrderEmbeddings(data)])
     ELSE Set(c, [client[c] EXCEPT !.pc = "failed", !.err = "malformed"])
  /\ UNCHANGED <<budget, turn, gap, owed>>

\* A refusal, a throttling with or without Retry-After, a timeout, or the
\* context ending under the request.
ReplyError(c, err, ra) ==
  /\ At(c, "request")
  /\ err = "context" => Over
  /\ err # "limited" => ra = 0
  /\ Set(c, [client[c] EXCEPT !.pc = "failed", !.err = err])
  /\ owed' = [owed EXCEPT ![c] = ra]
  /\ UNCHANGED <<budget, turn, gap>>

\* The limiter above the retries: it is asked once.
\* Only throttling and timeouts are tried again, the context outranking both.
Retry(c) ==
  /\ At(c, "failed") /\ ~Over
  /\ client[c].err \in Retriable /\ client[c].attempt < MaxAttempts
  /\ \E d \in DelayFor(client[c].attempt, owed[c]) :
       Set(c, [client[c] EXCEPT !.pc = "sleep", !.attempt = @ + 1, !.wait = d])
  /\ UNCHANGED <<budget, turn, gap, owed>>

GiveUp(c) ==
  /\ At(c, "failed")
  /\ \/ Over /\ Ends(c, "context")
     \/ /\ ~Over
        /\ client[c].err \notin Retriable \/ client[c].attempt = MaxAttempts
        /\ Ends(c, client[c].err)
  /\ UNCHANGED <<budget, turn, gap, owed>>

\* The sleep returns when its wait is over or the context is.
Wake(c) ==
  /\ At(c, "sleep")
  /\ \/ ~Over /\ client[c].wait = 0 /\ Set(c, [client[c] EXCEPT !.pc = "call"])
     \/ Over /\ Ends(c, "context")
  /\ UNCHANGED <<budget, turn, gap, owed>>

Interrupt ==
  /\ ~Over /\ \E c \in Callers : ~At(c, "done")
  /\ budget' = 0
  /\ UNCHANGED <<client, turn, gap, owed>>

Less(n) == IF n = 0 THEN 0 ELSE n - 1

Tick ==
  /\ \E c \in Callers : client[c].wait > 0 \/ At(c, "request")
  /\ \A c \in Callers : At(c, "turn") => client[c].wait > 0
  /\ turn' = Less(turn) /\ gap' = Less(gap)
  /\ budget' = IF budget = Unlimited THEN Unlimited ELSE Less(budget)
  /\ client' = [c \in Callers |-> [client[c] EXCEPT !.wait = Less(@)]]
  /\ owed' = [c \in Callers |-> IF At(c, "sleep") /\ client[c].wait > 0 THEN Less(owed[c]) ELSE owed[c]]

Replied(c) == (\E data \in Replies : Reply(c, data))
              \/ \E err \in Retriable \cup {"refused", "context"}, ra \in RetryAfters : ReplyError(c, err, ra)
CallStep(c) == WaitTurn(c) \/ TurnFails(c) \/ Send(c) \/ Replied(c) \/ Retry(c) \/ GiveUp(c) \/ Wake(c)

NextEmbed == (\E c \in Callers : CallStep(c)) \/ Tick \/ Interrupt

\* Time passes, and the HTTP client's own timeout ends a request.
EmbedFairness == WF_embedVars(Tick) /\ \A c \in Callers : WF_embedVars(CallStep(c))
EmbedSpec == InitEmbed /\ [][NextEmbed]_embedVars /\ EmbedFairness

-----------------------------------------------------------------------------
(* Properties.                                                             *)

\* The types of the client's state; a back-off never exceeds its cap.
EmbedTypeOK ==
  /\ \A c \in Callers :
       /\ client[c].pc \in {"call", "turn", "request", "failed", "sleep", "done"}
       /\ client[c].attempt \in 1 .. MaxAttempts
       /\ client[c].err \in Retriable \cup {"none", "refused", "malformed", "context", "budget"}
       /\ client[c].wait \in 0 .. IF At(c, "sleep") THEN MaxDelay
                                  ELSE Interval * Cardinality(Callers)
       /\ owed[c] \in Nat
  /\ budget \in Nat \cup {Unlimited}
  /\ turn \in 0 .. Interval * (Cardinality(Callers) + 1) /\ gap \in 0 .. Interval

\* A call that succeeds gives every text its own vector, whatever the order,
\* the number and the indices of the entries of the reply.
RightVectors == \A c \in Callers : At(c, "done") /\ client[c].err = "none" => client[c].out = Batch

\* The error of a call names its cause: a throttling or a timeout only after
\* the last attempt, and the context's only when it is over.
CauseNamed ==
  \A c \in Callers : At(c, "done") =>
    /\ client[c].err \in Retriable => client[c].attempt = MaxAttempts
    /\ client[c].err = "context" => Over

\* Requests of all the workers together, first attempts and retries, are at
\* least the limiter's interval apart.
Paced == [][(\E c \in Callers : At(c, "request")' /\ ~At(c, "request")) => gap = 0]_embedVars

\* A caller told when to come back does not come back sooner, up to the cap:
\* of what it was asked for, only what lies above the cap is left.
BackoffHonoured ==
  [][\A c \in Callers : At(c, "sleep") /\ At(c, "call")' /\ owed[c] > 0 =>
        owed[c] + MaxDelay \in RetryAfters]_embedVars

\* Once the context is over nothing is sent, and a failure that is still to be
\* looked at is reported as the context's.
ContextOutranks ==
  [][\A c \in Callers : Over /\ ~At(c, "done") =>
       /\ (At(c, "request")' => At(c, "request"))
       /\ (At(c, "done")' /\ ~At(c, "request")) => client'[c].err = "context"]_embedVars

\* Every call ends.
CallsEnd == <>(\A c \in Callers : At(c, "done"))

\* What ratelimit.go:33-35 says of a budget: it stops a paced run cleanly,
\* which the command tells by the context being over.
BudgetStopsCleanly ==
  \A c \in Callers : At(c, "done") /\ client[c].err = "budget" => Over

\* A call returns its own vectors, in order, or the cause of its failure.
EmbedSound == EmbedTypeOK /\ RightVectors /\ CauseNamed

\* Requests keep the pace, a back-off is waited out, and a context that is
\* over is what a call reports.
EmbedPolite == Paced /\ BackoffHonoured /\ ContextOutranks

\* Both at once.
EmbedKept == []EmbedSound /\ EmbedPolite
=============================================================================
