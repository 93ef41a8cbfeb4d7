---------------------------- MODULE CaptureToken ----------------------------
(***************************************************************************)
(* The token of the capture worker (internal/tvcapture/token.go, client.go *)
(* and feed.go): every call to the backend and every feed carries it, all  *)
(* of them share one cache under one mutex, and a call that is rejected    *)
(* drops it.  The identity provider may stop accepting the tokens it gave  *)
(* out (a key rotation, a restart) whenever it likes.                      *)
(***************************************************************************)
EXTENDS Integers

CONSTANTS
  Callers,        \* the manager, the feeds and the archives
  Lifetimes,      \* of a token
  Skew,           \* tokenRefreshSkew
  FetchTimeout,   \* apiHTTPTimeout
  TokenNames,     \* enough to tell the tokens in use apart
  MaxNow, MaxRotations, MaxTokenFaults

\* Both are 30 s.
ASSUME TokenAssumption ==
  /\ "nobody" \notin Callers
  /\ Lifetimes \subseteq Nat \ {0} /\ {Skew, FetchTimeout} \subseteq Nat /\ FetchTimeout <= Skew
  /\ {MaxNow, MaxRotations, MaxTokenFaults} \subseteq Nat

VARIABLES
  now,
  keys,         \* the provider's signing keys, numbered
  cached,       \* the token in the cache, and when it is taken to expire
  holder,       \* who holds the mutex, over a fetch
  call,         \* what each caller is at
  rejected,     \* history: the tokens dropped because a call was rejected
  tokenFaults

tokenVars == <<now, keys, cached, holder, call, rejected, tokenFaults>>

NoToken == [name |-> "none", keys |-> 0, exp |-> 0]
Nobody == "nobody"
Idle == [pc |-> "idle", token |-> NoToken, ttl |-> 0, since |-> 0]

InitToken ==
  /\ now = 0 /\ keys = 0 /\ rejected = {} /\ tokenFaults = 0
  /\ cached = [token |-> NoToken, until |-> 0] /\ holder = Nobody
  /\ call = [c \in Callers |-> Idle]

Accepted(token) == token.keys = keys /\ now < token.exp

-----------------------------------------------------------------------------
(* Token: the cache while it lasts, and otherwise one fetch under the mutex.  *)
StartCall(c) ==
  /\ call[c].pc = "idle" /\ call' = [call EXCEPT ![c].pc = "token"]
  /\ UNCHANGED <<now, keys, cached, holder, rejected, tokenFaults>>

CacheGood == cached.token # NoToken /\ now < cached.until - Skew

UseCached(c) ==
  /\ call[c].pc = "token" /\ holder = Nobody /\ CacheGood
  /\ call' = [call EXCEPT ![c].pc = "send", ![c].token = cached.token]
  /\ UNCHANGED <<now, keys, cached, holder, rejected, tokenFaults>>

StartTokenFetch(c) ==
  /\ call[c].pc = "token" /\ holder = Nobody /\ ~CacheGood
  /\ holder' = c /\ call' = [call EXCEPT ![c].pc = "fetch", ![c].since = now]
  /\ UNCHANGED <<now, keys, cached, rejected, tokenFaults>>

\* The provider answers with a token nobody has, and the answer arrives.
InUse(name) == cached.token.name = name \/ \E c \in Callers : call[c].token.name = name
Unused == CHOOSE name \in TokenNames : ~InUse(name)
Issue(c, ttl) ==
  /\ call[c].pc = "fetch" /\ \E name \in TokenNames : ~InUse(name)
  /\ call' = [call EXCEPT ![c] = [pc |-> "answer", ttl |-> ttl, since |-> @.since,
                                     token |-> [name |-> Unused, keys |-> keys, exp |-> now + ttl]]]
  /\ rejected' = rejected \ {Unused}
  /\ UNCHANGED <<now, keys, cached, holder, tokenFaults>>

ReceiveToken(c) ==
  /\ call[c].pc = "answer"
  /\ cached' = [token |-> call[c].token, until |-> now + call[c].ttl]
  /\ holder' = Nobody /\ call' = [call EXCEPT ![c] = [pc |-> "send", ttl |-> 0, since |-> 0, token |-> @.token]]
  /\ UNCHANGED <<now, keys, rejected, tokenFaults>>

TokenFault == tokenFaults < MaxTokenFaults /\ tokenFaults' = tokenFaults + 1

FetchFails(c) ==
  /\ TokenFault /\ call[c].pc \in {"fetch", "answer"}
  /\ holder' = Nobody /\ call' = [call EXCEPT ![c] = Idle]
  /\ UNCHANGED <<now, keys, cached, rejected>>

-----------------------------------------------------------------------------
(* The call or the dial itself. *)
LetIn(c) ==
  /\ call[c].pc = "send" /\ Accepted(call[c].token)
  /\ call' = [call EXCEPT ![c] = Idle]
  /\ UNCHANGED <<now, keys, cached, holder, rejected, tokenFaults>>

Reject(c) ==
  /\ call[c].pc = "send" /\ ~Accepted(call[c].token)
  /\ call' = [call EXCEPT ![c].pc = "rejected"]
  /\ UNCHANGED <<now, keys, cached, holder, rejected, tokenFaults>>

\* Whatever token is cached by then.
Invalidate(c) ==
  /\ call[c].pc = "rejected" /\ holder = Nobody
  /\ cached' = [token |-> NoToken, until |-> 0]
  /\ rejected' = rejected \cup {call[c].token.name}
  /\ call' = [call EXCEPT ![c] = Idle]
  /\ UNCHANGED <<now, keys, holder, tokenFaults>>

\* The connection fails: nothing is known of the token.
CallFails(c) ==
  /\ TokenFault /\ call[c].pc = "send"
  /\ call' = [call EXCEPT ![c] = Idle]
  /\ UNCHANGED <<now, keys, cached, holder, rejected>>

-----------------------------------------------------------------------------
\* A fetch is over, one way or the other, within its timeout.
Passes ==
  /\ now < MaxNow /\ now' = now + 1
  /\ \A c \in Callers : call[c].pc \in {"fetch", "answer"} => now < call[c].since + FetchTimeout
  /\ UNCHANGED <<keys, cached, holder, call, rejected, tokenFaults>>

Rotate == keys < MaxRotations /\ keys' = keys + 1 /\ UNCHANGED <<now, cached, holder, call, rejected, tokenFaults>>

CallStep(c) ==
  StartCall(c) \/ (\E ttl \in Lifetimes : Issue(c, ttl)) \/ ReceiveToken(c) \/ LetIn(c) \/ Reject(c)
MutexStep(c) == UseCached(c) \/ StartTokenFetch(c) \/ Invalidate(c)

NextToken ==
  \/ Passes \/ Rotate
  \/ \E c \in Callers : CallStep(c) \/ MutexStep(c) \/ FetchFails(c) \/ CallFails(c)

(* A caller goes on, and the mutex passes over nobody for ever. *)
TokenFairness == \A c \in Callers : WF_tokenVars(CallStep(c)) /\ SF_tokenVars(MutexStep(c))
TokenSpec == InitToken /\ [][NextToken]_tokenVars /\ TokenFairness

-----------------------------------------------------------------------------
TokenTypeOK ==
  /\ now \in 0 .. MaxNow /\ keys \in 0 .. MaxRotations
  /\ holder \in Callers \cup {Nobody} /\ rejected \subseteq TokenNames
  /\ \A c \in Callers : call[c].pc \in {"idle", "token", "fetch", "answer", "send", "rejected"}
  /\ (holder # Nobody) <=> \E c \in Callers : call[c].pc \in {"fetch", "answer"}

(* A token handed out of the cache has time left and is not one that a call    *)
(* was rejected with, however long its fetch took and however many calls were  *)
(* under way when it was dropped (Token, Invalidate).                          *)
TokenUsable == CacheGood => now < cached.token.exp /\ cached.token.name \notin rejected

TokenSound == TokenTypeOK /\ TokenUsable

(* Calls get through again after the provider has changed its keys: a caller   *)
(* that goes on calling is accepted time and again (authStatusError).          *)
TokenRecovers == \A c \in Callers : []<>(call[c].pc = "send" /\ Accepted(call[c].token))
=============================================================================
