----------------------------- MODULE DoRequest ------------------------------
(***************************************************************************)
(* One call of ProviderClient.Request: the loop that doRequest forms by    *)
(* calling itself (provider_client.go), with its four reasons to try       *)
(* again: a 401 (reauthenticate, once), a 429 or 498 (RetryBackoffFunc,    *)
(* MaxBackoffRetries times), any other failure (RetryFunc, as long as it   *)
(* agrees), a response that is not the JSON it should be (RetryFunc).      *)
(*                                                                         *)
(* What matters of the data is kept: where the caller's body reader        *)
(* stands, how many response bodies are open, and how the one counter of   *)
(* requestState is shared.  Concurrency and the token are the business of  *)
(* ProviderClient.tla: here Reauthenticate succeeds or fails.              *)
(***************************************************************************)
EXTENDS Naturals

CONSTANTS
  DefaultMaxBackoffRetries,  \* 60 in the code
  MaxBackoffs,               \* the values of MaxBackoffRetries, 0 for the default
  RetryLimit                 \* bound: RetryFunc agrees while failCount < RetryLimit

ASSUME DoRequestAssumption ==
  /\ DefaultMaxBackoffRetries \in Nat \ {0}
  /\ MaxBackoffs \subseteq Nat
  /\ RetryLimit \in Nat

(* RawBody in the three ways that differ for a retry: a seekable reader in  *)
(* memory, a file (seekable, closed by the transport), a plain stream.      *)
(* "both" is JSONBody together with RawBody.                                *)
Raw == {"memory", "file", "stream"}
Seekable == {"memory", "file"}
Bodies == Raw \cup {"none", "json", "both"}
Replies == {"ok", "empty", "unauthorized", "limited", "bad"}
Good == {"ok", "empty"}   \* status in OkCodes; "empty" is 204

VARIABLES
  client,     \* which hooks the ProviderClient has, and MaxBackoffRetries
  opts,       \* the RequestOpts
  pc,
  state,      \* the requestState: hasReauthenticated and retries
  reader,     \* where the RawBody stands
  whole,      \* the latest attempt carried the whole body
  fresh,      \* the attempt under way follows a reauthentication directly
  reply,      \* the latest response
  open,       \* response bodies not closed
  deferred,   \* of those, the ones a deferred Close closes on return
  result,     \* how the call ended, and whether the error is wrapped
  attempts, failures, backoffs, reauths  \* how many of each: history

vars == <<client, opts, pc, state, reader, whole, fresh, reply, open, deferred,
          result, attempts, failures, backoffs, reauths>>
input == <<client, opts>>
history == <<attempts, failures, backoffs, reauths>>

Ends == {"none", "ok", "invalid", "ctx", "transport", "status", "unable",
         "seek", "backoff", "retry", "decode", "drain"}

MaxTries ==
  IF client.maxBackoff = 0 THEN DefaultMaxBackoffRetries ELSE client.maxBackoff

Init ==
  /\ client \in [reauth : BOOLEAN, backoff : BOOLEAN, retry : BOOLEAN, maxBackoff : MaxBackoffs]
  /\ opts \in [body : Bodies, json : BOOLEAN, keep : BOOLEAN]
  /\ pc = "build"
  /\ state = [hasReauth |-> FALSE, retries |-> 0]
  /\ reader = "start"
  /\ whole = TRUE
  /\ fresh = FALSE
  /\ reply = "none"
  /\ open = 0
  /\ deferred = 0
  /\ result = [end |-> "none", wrapped |-> FALSE]
  /\ attempts = 0 /\ failures = 0 /\ backoffs = 0 /\ reauths = 0

-----------------------------------------------------------------------------

(* Request returns.  Every frame of the recursion runs its deferred Close,  *)
(* and an error that passes the frame that reauthenticated becomes the      *)
(* ErrOriginal of an ErrErrorAfterReauthentication.                         *)
Return(r, closing) ==
  /\ pc' = "done"
  /\ result' = [end |-> r, wrapped |-> state.hasReauth /\ r # "ok"]
  /\ open' = open - closing
  /\ deferred' = 0

(* The body and the headers.  A JSONBody is rendered anew for each attempt, *)
(* a RawBody is the caller's reader as it is now.                           *)
Build ==
  /\ pc = "build"
  /\ \/ /\ opts.body = "both" \/ (opts.keep /\ opts.json)
        /\ Return("invalid", deferred)
     \/ /\ ~(opts.body = "both" \/ (opts.keep /\ opts.json))
        /\ \/ pc' = "send" /\ UNCHANGED <<open, deferred, result>>
           \/ Return("ctx", deferred)  \* authenticatedHeaders waited too long
  /\ UNCHANGED <<input, state, reader, whole, fresh, reply, history>>

(* What the transport does to the reader: it reads it, and closes it if it  *)
(* can be closed.                                                           *)
Spent(kind) == CASE kind = "file" -> "closed" [] kind \in {"memory", "stream"} -> "end"
                 [] OTHER -> "start"

(* HTTPClient.Do returns a response.  A closed file cannot be sent.         *)
Respond ==
  /\ pc = "send"
  /\ reader # "closed"
  /\ reply' \in Replies
  /\ pc' = "reply"
  /\ whole' = (reader = "start")
  /\ reader' = Spent(opts.body)
  /\ open' = open + 1
  /\ attempts' = attempts + 1
  /\ failures' = IF reply' \in Good THEN failures ELSE failures + 1
  /\ UNCHANGED <<input, state, fresh, deferred, result, backoffs, reauths>>

(* Broken: after the reauthentication RetryFunc is not asked again. *)
TransportFails_Final ==
  /\ pc = "send"
  /\ reader' \in {Spent(opts.body)} \cup (IF opts.body = "file" THEN {} ELSE {reader})
  /\ reply' = "none"
  /\ attempts' = attempts + 1
  /\ failures' = failures + 1
  /\ IF client.retry /\ ~state.hasReauth
     THEN pc' = "retry" /\ UNCHANGED <<open, deferred, result>>
     ELSE Return("transport", deferred)
  /\ UNCHANGED <<input, state, whole, fresh, backoffs, reauths>>

(* HTTPClient.Do returns an error; the reader may not have been touched,    *)
(* but a file is closed all the same.                                       *)
TransportFails ==
  /\ pc = "send"
  /\ reader' \in {Spent(opts.body)} \cup (IF opts.body = "file" THEN {} ELSE {reader})
  /\ reply' = "none"
  /\ attempts' = attempts + 1
  /\ failures' = failures + 1
  /\ IF client.retry
     THEN pc' = "retry" /\ UNCHANGED <<open, deferred, result>>
     ELSE Return("transport", deferred)
  /\ UNCHANGED <<input, state, whole, fresh, backoffs, reauths>>

(* A status outside OkCodes: the body is read and closed, then 401, 429 and *)
(* 498 have their own remedies and everything else is left to RetryFunc.    *)
MustReauthenticate == reply = "unauthorized" /\ client.reauth /\ ~state.hasReauth
MayBackOff == reply = "limited" /\ client.backoff /\ state.retries < MaxTries

Rejected ==
  /\ pc = "reply"
  /\ reply \notin Good
  /\ \/ /\ MustReauthenticate
        /\ pc' = "reauth"
        /\ open' = open - 1
        /\ UNCHANGED <<state, deferred, result>>
     \/ /\ MayBackOff
        /\ pc' = "backoff"
        /\ state' = [state EXCEPT !.retries = @ + 1]
        /\ open' = open - 1
        /\ UNCHANGED <<deferred, result>>
     \/ /\ ~MustReauthenticate /\ ~MayBackOff
        /\ IF client.retry
           THEN pc' = "retry" /\ open' = open - 1 /\ UNCHANGED <<deferred, result>>
           ELSE Return("status", deferred + 1)
        /\ UNCHANGED state
  /\ UNCHANGED <<input, reader, whole, fresh, reply, history>>

(* Reauthenticate, then rewind the body if it can be rewound.               *)
ReauthFails ==
  /\ pc = "reauth"
  /\ Return("unable", deferred)
  /\ UNCHANGED <<input, state, reader, whole, fresh, reply, history>>

Rewound_Never == reader   \* broken: no Seek

Rewound == IF opts.body = "memory" THEN "start" ELSE reader

(* Broken: hasReauthenticated is not set. *)
Reauthenticated_Forgotten ==
  /\ pc = "reauth"
  /\ reauths' = reauths + 1
  /\ pc' = "build"
  /\ reader' = Rewound
  /\ fresh' = TRUE
  /\ UNCHANGED <<input, state, whole, reply, open, deferred, result, attempts,
                 failures, backoffs>>

Reauthenticated ==
  /\ pc = "reauth"
  /\ reauths' = reauths + 1
  /\ IF opts.body = "file" /\ reader = "closed"
     THEN /\ Return("seek", deferred)
          /\ UNCHANGED <<state, reader, fresh>>
     ELSE /\ pc' = "build"
          /\ state' = [state EXCEPT !.hasReauth = TRUE]
          /\ reader' = Rewound
          /\ fresh' = TRUE
          /\ UNCHANGED <<open, deferred, result>>
  /\ UNCHANGED <<input, whole, reply, attempts, failures, backoffs>>

(* RetryBackoffFunc has slept as long as the service asked, or refused.     *)
BackOff ==
  /\ pc = "backoff"
  /\ backoffs' = backoffs + 1
  /\ fresh' = FALSE
  /\ \/ pc' = "build" /\ UNCHANGED <<open, deferred, result>>
     \/ Return("backoff", deferred)
  /\ UNCHANGED <<input, state, reader, whole, reply, attempts, failures, reauths>>

(* RetryFunc agrees to another attempt or ends the call with its error.     *)
AskRetryFunc ==
  /\ pc = "retry"
  /\ state' = [state EXCEPT !.retries = @ + 1]
  /\ fresh' = FALSE
  /\ \/ /\ state.retries + 1 < RetryLimit
        /\ pc' = "build"
        /\ UNCHANGED <<open, deferred, result>>
     \/ Return("retry", deferred)
  /\ UNCHANGED <<input, reader, whole, reply, history>>

(* An accepted status.  With JSONResponse the body is decoded (a 204 only   *)
(* drained) and closed by a deferred call; a decoding that fails is a       *)
(* failure of the request like any other.                                   *)
Decode ==
  /\ pc = "reply"
  /\ reply \in Good
  /\ opts.json
  /\ \/ Return("ok", deferred + 1) /\ UNCHANGED failures
     \/ /\ reply = "empty"
        /\ Return("drain", deferred + 1)
        /\ UNCHANGED failures
     \/ /\ reply = "ok"
        /\ failures' = failures + 1
        /\ IF client.retry
           THEN pc' = "retry" /\ deferred' = deferred + 1 /\ UNCHANGED <<open, result>>
           ELSE Return("decode", deferred + 1)
  /\ UNCHANGED <<input, state, reader, whole, fresh, reply, attempts, backoffs,
                 reauths>>

(* Broken: closes the body only when draining it fails. *)
Deliver_LeaveOpen ==
  /\ pc = "reply"
  /\ reply \in Good
  /\ ~opts.json
  /\ IF opts.keep
     THEN Return("ok", deferred)
     ELSE Return("ok", deferred) \/ Return("drain", deferred + 1)
  /\ UNCHANGED <<input, state, reader, whole, fresh, reply, history>>

(* Without JSONResponse the body is the caller's (KeepResponseBody) or is   *)
(* drained and closed.                                                      *)
Deliver ==
  /\ pc = "reply"
  /\ reply \in Good
  /\ ~opts.json
  /\ IF opts.keep
     THEN Return("ok", deferred)
     ELSE Return("ok", deferred + 1) \/ Return("drain", deferred + 1)
  /\ UNCHANGED <<input, state, reader, whole, fresh, reply, history>>

Finished == pc = "done" /\ UNCHANGED vars

Next ==
  \/ Build \/ Respond \/ TransportFails \/ Rejected \/ ReauthFails
  \/ Reauthenticated \/ BackOff \/ AskRetryFunc \/ Decode \/ Deliver \/ Finished

Spec == Init /\ [][Next]_vars

-----------------------------------------------------------------------------
(* Properties *)

TypeOK ==
  /\ client \in [reauth : BOOLEAN, backoff : BOOLEAN, retry : BOOLEAN, maxBackoff : MaxBackoffs]
  /\ opts \in [body : Bodies, json : BOOLEAN, keep : BOOLEAN]
  /\ pc \in {"build", "send", "reply", "reauth", "backoff", "retry", "done"}
  /\ state \in [hasReauth : BOOLEAN, retries : Nat]
  /\ reader \in {"start", "end", "closed"}
  /\ whole \in BOOLEAN
  /\ fresh \in BOOLEAN
  /\ reply \in Replies \cup {"none"}
  /\ open \in Nat
  /\ deferred \in Nat
  /\ result \in [end : Ends, wrapped : BOOLEAN]
  /\ attempts \in Nat /\ failures \in Nat /\ backoffs \in Nat /\ reauths \in Nat

(* Without a RetryFunc the call makes a bounded number of attempts whatever *)
(* the service answers: the first, one per backoff, one after the only      *)
(* reauthentication.                                                        *)
AttemptsBounded ==
  ~client.retry => attempts <= MaxTries + 2

(* One call reauthenticates once and backs off MaxBackoffRetries times, in  *)
(* whatever order 401s, 429s and other failures come and however often      *)
(* RetryFunc agrees (TestRequestReauthsAtMostOnce, TestRequestRetry).       *)
RemediesBounded ==
  reauths <= 1 /\ backoffs <= MaxTries

(* On return every response body is closed, those of earlier attempts       *)
(* included, except the one KeepResponseBody leaves to the caller.          *)
BodiesClosed ==
  pc = "done" => open = (IF result.end = "ok" /\ opts.keep THEN 1 ELSE 0)

(* The attempt that follows a reauthentication carries the whole body       *)
(* whenever it can be rewound, also when backoffs or retries had consumed   *)
(* it before the 401.                                                       *)
RefreshedAttemptIsWhole ==
  pc = "reply" /\ fresh /\ opts.body # "stream" => whole

(* What RetryFunc is told is the number of failed attempts, less the 401    *)
(* that led to the reauthentication.                                        *)
RetriesCountFailures ==
  pc = "retry" => state.retries + 1 + reauths = failures

(* What the comment of RetryFunc promises and the code does not keep: "If   *)
(* it returns nil, the request will be retried".  It is sent again without  *)
(* its body when the body is a RawBody, a rewindable one included.          *)
RetriedRequestCarriesBody ==
  pc = "reply" /\ opts.body \in {"none", "json", "memory"} => whole

(* RetryFunc has the last word: with it no failure of the transport, no
   status and no body that cannot be decoded ends the call by itself, in no
   attempt, those after the reauthentication included, whose error is the
   ErrOriginal of what the caller gets.  The comment of RetryFunc, "this is
   always called in the end if a request failed", promises more: it is not
   called when RetryBackoffFunc returns an error, the reauthentication fails or
   an accepted body cannot be drained. *)
RetryFuncHasLastWord ==
  client.retry => result.end \notin {"transport", "status", "decode"}
=============================================================================
