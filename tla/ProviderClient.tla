--------------------------- MODULE ProviderClient ---------------------------
(***************************************************************************)
(* The token and the reauthentication protocol of one ProviderClient that  *)
(* many goroutines share (provider_client.go).                             *)
(*                                                                         *)
(* An actor is one CALL of the client's API, not a goroutine: a goroutine  *)
(* that issues several calls in a row is one of the orders in which the    *)
(* calls below may start.  A Request call attaches the current token,      *)
(* waits for its response and, on the first 401, calls Reauthenticate with *)
(* the token it had sent and tries once more.  A Forced call is            *)
(* Reauthenticate(ctx, "").  A Setter call is SetToken with a token the    *)
(* application obtained elsewhere.                                         *)
(*                                                                         *)
(* One action is one stretch of code between two points where another      *)
(* goroutine can interfere: a critical section of mut or reauthmut, the    *)
(* unlocked comparison of TokenID, a channel receive, an HTTP round trip,  *)
(* a run of ReauthFunc.                                                    *)
(*                                                                         *)
(* Tokens are numbered in the order they become the client's token; 0 is   *)
(* the empty string.  The identity service and the application never hand  *)
(* out the same token twice.  The service may refuse any token at any      *)
(* time, fresh ones included.                                              *)
(***************************************************************************)
EXTENDS Naturals

CONSTANTS
  Requests,  \* calls of ProviderClient.Request
  Forced,    \* calls of ProviderClient.Reauthenticate(ctx, "")
  Setters,   \* calls of ProviderClient.SetToken by the application
  None       \* the nil *reauthFuture

Calls == Requests \cup Forced \cup Setters

ASSUME CallsAssumption ==
  /\ Requests \cap Forced = {}
  /\ Requests \cap Setters = {}
  /\ Forced \cap Setters = {}
  /\ None \notin Calls

VARIABLES
  token,      \* client.TokenID
  ongoing,    \* client.reauthmut.ongoing: a future is named by the call that made it
  ferr,       \* ferr[f]: what future f was Set to, "none" while f.done is open
  pc,         \* where each call is
  sent,       \* prereqtok of the latest attempt of a Request
  prev,       \* the previousToken argument of Reauthenticate
  held,       \* the future authenticatedHeaders found ongoing
  joined,     \* the future Reauthenticate found ongoing
  err,        \* the err result of Reauthenticate, "none" before it has one
  reauthed,   \* requestState.hasReauthenticated
  cancelled,  \* the call's context is done
  result,     \* what the call returned
  ran         \* history: the calls that ran ReauthFunc

shared == <<token, ongoing, ferr>>
vars == <<token, ongoing, ferr, pc, sent, prev, held, joined, err, reauthed,
          cancelled, result, ran>>

Errors == {"nil", "auth", "ctx"}
Results == {"none", "ok", "ctx", "unable", "afterReauth"}
Leading == {"lead", "reauth", "publish"}
Waiting == {"headers", "wait"}
Places == {"start", "headers", "token", "sent", "denied", "wait", "lead",
           "reauth", "publish", "retry", "done"}

Closed(f) == ferr[f] # "none"

Init ==
  /\ token \in {0, 1}      \* not yet authenticated, or holding a token
  /\ ongoing = None
  /\ ferr = [f \in Calls |-> "none"]
  /\ pc = [c \in Calls |-> "start"]
  /\ sent = [c \in Calls |-> 0]
  /\ prev = [c \in Calls |-> 0]
  /\ held = [c \in Calls |-> None]
  /\ joined = [c \in Calls |-> None]
  /\ err = [c \in Calls |-> "none"]
  /\ reauthed = [c \in Calls |-> FALSE]
  /\ cancelled = [c \in Calls |-> FALSE]
  /\ result = [c \in Calls |-> "none"]
  /\ ran = {}

-----------------------------------------------------------------------------
(* The end of a Request: every error after the reauthentication of this    *)
(* call comes back wrapped in ErrErrorAfterReauthentication.               *)

Finish(c, r) ==
  /\ pc' = [pc EXCEPT ![c] = "done"]
  /\ result' = [result EXCEPT
       ![c] = IF reauthed[c] /\ r # "ok" THEN "afterReauth" ELSE r]

(* Broken: notices the reauthentication but does not wait for it. *)
CheckOngoing_NoWait(c) ==
  /\ c \in Requests
  /\ pc[c] \in {"start", "retry"}
  /\ held' = [held EXCEPT ![c] = ongoing]
  /\ pc' = [pc EXCEPT ![c] = "token"]
  /\ UNCHANGED <<shared, sent, prev, joined, err, reauthed, cancelled, result, ran>>

(* authenticatedHeaders: look for a running reauthentication. *)
CheckOngoing(c) ==
  /\ c \in Requests
  /\ pc[c] \in {"start", "retry"}
  /\ held' = [held EXCEPT ![c] = ongoing]
  /\ pc' = [pc EXCEPT ![c] = IF ongoing = None THEN "token" ELSE "headers"]
  /\ UNCHANGED <<shared, sent, prev, joined, err, reauthed, cancelled, result, ran>>

(* authenticatedHeaders: ongoing.Get(ctx) saw the closed channel.  A failed *)
(* reauthentication ends the call only if its own context is done too.      *)
HeadersResume(c) ==
  /\ pc[c] = "headers"
  /\ Closed(held[c])
  /\ IF ferr[held[c]] # "nil" /\ cancelled[c]
     THEN Finish(c, "ctx")
     ELSE pc' = [pc EXCEPT ![c] = "token"] /\ UNCHANGED result
  /\ UNCHANGED <<shared, sent, prev, held, joined, err, reauthed, cancelled, ran>>

(* Broken: looks at the context only once the future is resolved. *)
HeadersCancelled_Late(c) ==
  /\ pc[c] = "headers"
  /\ cancelled[c]
  /\ Closed(held[c])
  /\ Finish(c, "ctx")
  /\ UNCHANGED <<shared, sent, prev, held, joined, err, reauthed, cancelled, ran>>

(* authenticatedHeaders: ongoing.Get(ctx) saw ctx.Done(). *)
HeadersCancelled(c) ==
  /\ pc[c] = "headers"
  /\ cancelled[c]
  /\ Finish(c, "ctx")
  /\ UNCHANGED <<shared, sent, prev, held, joined, err, reauthed, cancelled, ran>>

(* Token() under mut.RLock, then HTTPClient.Do puts the request on the wire. *)
ReadToken(c) ==
  /\ pc[c] = "token"
  /\ sent' = [sent EXCEPT ![c] = token]
  /\ pc' = [pc EXCEPT ![c] = "sent"]
  /\ UNCHANGED <<shared, prev, held, joined, err, reauthed, cancelled, result, ran>>

(* The service answers with an accepted status code. *)
Accepted(c) ==
  /\ pc[c] = "sent"
  /\ sent[c] # 0
  /\ Finish(c, "ok")
  /\ UNCHANGED <<shared, sent, prev, held, joined, err, reauthed, cancelled, ran>>

(* HTTPClient.Do fails because the context of the call is done. *)
RoundTripCancelled(c) ==
  /\ pc[c] = "sent"
  /\ cancelled[c]
  /\ Finish(c, "ctx")
  /\ UNCHANGED <<shared, sent, prev, held, joined, err, reauthed, cancelled, ran>>

(* The service answers 401: the first time reauthenticate, then give up. *)
Unauthorized(c) ==
  /\ pc[c] = "sent"
  /\ IF reauthed[c]
     THEN Finish(c, "afterReauth") /\ UNCHANGED prev
     ELSE /\ pc' = [pc EXCEPT ![c] = "denied"]
          /\ prev' = [prev EXCEPT ![c] = sent[c]]
          /\ UNCHANGED result
  /\ UNCHANGED <<shared, sent, held, joined, err, reauthed, cancelled, ran>>

-----------------------------------------------------------------------------
(* Reauthenticate *)

(* Broken: a call without a previous token does not look for a running one. *)
EnterReauthenticate_Forced(c) ==
  /\ \/ c \in Requests /\ pc[c] = "denied"
     \/ c \in Forced /\ pc[c] = "start"
  /\ IF ongoing = None \/ prev[c] = 0
     THEN /\ ongoing' = c
          /\ pc' = [pc EXCEPT ![c] = "lead"]
          /\ UNCHANGED joined
     ELSE /\ joined' = [joined EXCEPT ![c] = ongoing]
          /\ pc' = [pc EXCEPT ![c] = "wait"]
          /\ UNCHANGED ongoing
  /\ UNCHANGED <<token, ferr, sent, prev, held, err, reauthed, cancelled, result, ran>>

(* First critical section: start a reauthentication or join the one that   *)
(* is running.                                                             *)
EnterReauthenticate(c) ==
  /\ \/ c \in Requests /\ pc[c] = "denied"
     \/ c \in Forced /\ pc[c] = "start"
  /\ IF ongoing = None
     THEN /\ ongoing' = c
          /\ pc' = [pc EXCEPT ![c] = "lead"]
          /\ UNCHANGED joined
     ELSE /\ joined' = [joined EXCEPT ![c] = ongoing]
          /\ pc' = [pc EXCEPT ![c] = "wait"]
          /\ UNCHANGED ongoing
  /\ UNCHANGED <<token, ferr, sent, prev, held, err, reauthed, cancelled, result, ran>>

(* The decision to run ReauthFunc, and two broken forms of it: one forgets  *)
(* that an empty previous token forces the run, one never compares.         *)
MustReauth_NotWhenEmpty(c) == prev[c] # 0 /\ token = prev[c]
MustReauth_Always(c) == TRUE

MustReauth(c) == prev[c] = 0 \/ token = prev[c]

(* The comparison of client.TokenID, made without holding mut. *)
CompareToken(c) ==
  /\ pc[c] = "lead"
  /\ IF MustReauth(c)
     THEN /\ pc' = [pc EXCEPT ![c] = "reauth"]
          /\ ran' = ran \cup {c}
          /\ UNCHANGED err
     ELSE /\ pc' = [pc EXCEPT ![c] = "publish"]
          /\ err' = [err EXCEPT ![c] = "nil"]
          /\ UNCHANGED ran
  /\ UNCHANGED <<shared, sent, prev, held, joined, reauthed, cancelled, result>>

(* ReauthFunc returns.  The closures v2auth and v3auth install write the    *)
(* new token with CopyTokenFrom as their last act and leave the client      *)
(* alone when they fail; a done context makes them fail with its error.     *)
ReauthSucceeds(c) ==
  /\ pc[c] = "reauth"
  /\ token' = token + 1
  /\ err' = [err EXCEPT ![c] = "nil"]
  /\ pc' = [pc EXCEPT ![c] = "publish"]
  /\ UNCHANGED <<ongoing, ferr, sent, prev, held, joined, reauthed, cancelled, result, ran>>

ReauthFails(c) ==
  /\ pc[c] = "reauth"
  /\ \E e \in {"auth"} \cup (IF cancelled[c] THEN {"ctx"} ELSE {}) :
       err' = [err EXCEPT ![c] = e]
  /\ pc' = [pc EXCEPT ![c] = "publish"]
  /\ UNCHANGED <<shared, sent, prev, held, joined, reauthed, cancelled, result, ran>>

(* Reauthenticate returns e.  A Request then repeats doRequest with         *)
(* hasReauthenticated set, or fails with ErrUnableToReauthenticate.         *)
ReturnReauth(c, e) ==
  IF c \in Requests /\ e = "nil"
  THEN /\ pc' = [pc EXCEPT ![c] = "retry"]
       /\ reauthed' = [reauthed EXCEPT ![c] = TRUE]
       /\ UNCHANGED result
  ELSE /\ pc' = [pc EXCEPT ![c] = "done"]
       /\ result' = [result EXCEPT ![c] = IF e = "nil" THEN "ok" ELSE "unable"]
       /\ UNCHANGED reauthed

(* Broken: a leader that failed clears the field without resolving. *)
Publish_OnlyOnSuccess(c) ==
  /\ pc[c] = "publish"
  /\ ferr' = IF err[c] = "nil" THEN [ferr EXCEPT ![ongoing] = "nil"] ELSE ferr
  /\ ongoing' = None
  /\ ReturnReauth(c, err[c])
  /\ UNCHANGED <<token, sent, prev, held, joined, err, cancelled, ran>>

(* Last critical section: the leader resolves the future it finds in        *)
(* reauthmut.ongoing and clears the field.                                  *)
Publish(c) ==
  /\ pc[c] = "publish"
  /\ ferr' = [ferr EXCEPT ![ongoing] = err[c]]
  /\ ongoing' = None
  /\ ReturnReauth(c, err[c])
  /\ UNCHANGED <<token, sent, prev, held, joined, err, cancelled, ran>>

(* Broken: a call that joined takes the end of the flight for its success. *)
FollowerResume_IgnoreVerdict(c) ==
  /\ pc[c] = "wait"
  /\ Closed(joined[c])
  /\ err' = [err EXCEPT ![c] = "nil"]
  /\ ReturnReauth(c, "nil")
  /\ UNCHANGED <<shared, sent, prev, held, joined, cancelled, ran>>

(* ongoing.Get(ctx) of a call that joined: the future or the context.       *)
FollowerResume(c) ==
  /\ pc[c] = "wait"
  /\ Closed(joined[c])
  /\ err' = [err EXCEPT ![c] = ferr[joined[c]]]
  /\ ReturnReauth(c, ferr[joined[c]])
  /\ UNCHANGED <<shared, sent, prev, held, joined, cancelled, ran>>

FollowerCancelled(c) ==
  /\ pc[c] = "wait"
  /\ cancelled[c]
  /\ err' = [err EXCEPT ![c] = "ctx"]
  /\ ReturnReauth(c, "ctx")
  /\ UNCHANGED <<shared, sent, prev, held, joined, cancelled, ran>>

-----------------------------------------------------------------------------
(* The application *)

SetToken(c) ==
  /\ c \in Setters
  /\ pc[c] = "start"
  /\ token' = token + 1
  /\ pc' = [pc EXCEPT ![c] = "done"]
  /\ result' = [result EXCEPT ![c] = "ok"]
  /\ UNCHANGED <<ongoing, ferr, sent, prev, held, joined, err, reauthed, cancelled, ran>>

(* The context of a call is cancelled or its deadline passes.  A context    *)
(* that is done beforehand is one that is done right after the call starts. *)
Cancel(c) ==
  /\ c \in Requests \cup Forced
  /\ pc[c] \notin {"start", "done"}
  /\ ~cancelled[c]
  /\ cancelled' = [cancelled EXCEPT ![c] = TRUE]
  /\ UNCHANGED <<shared, pc, sent, prev, held, joined, err, reauthed, result, ran>>

Step(c) ==
  \/ CheckOngoing(c) \/ HeadersResume(c) \/ HeadersCancelled(c) \/ ReadToken(c)
  \/ Accepted(c) \/ RoundTripCancelled(c) \/ Unauthorized(c)
  \/ EnterReauthenticate(c) \/ CompareToken(c) \/ Publish(c)
  \/ FollowerResume(c) \/ FollowerCancelled(c)

ReauthReturns(c) == ReauthSucceeds(c) \/ ReauthFails(c)

AllDone == (\A c \in Calls : pc[c] = "done") /\ UNCHANGED vars

Next ==
  \/ \E c \in Calls : Step(c) \/ ReauthReturns(c) \/ SetToken(c) \/ Cancel(c)
  \/ AllDone

Spec == Init /\ [][Next]_vars

(* Goroutines keep running.  Whether HTTPClient.Do and a run of ReauthFunc  *)
(* return is up to the services and to the contexts they were given.        *)
FairSpec == Spec /\ \A c \in Calls : WF_vars(pc[c] \notin {"start", "sent"} /\ Step(c))
RequestsAreAnswered == <>[](\A c \in Calls : pc[c] # "sent")
ReauthFuncReturns == <>[](\A c \in Calls : pc[c] # "reauth")

-----------------------------------------------------------------------------
(* Properties *)

TypeOK ==
  /\ token \in Nat
  /\ ongoing \in Calls \cup {None}
  /\ ferr \in [Calls -> Errors \cup {"none"}]
  /\ pc \in [Calls -> Places]
  /\ sent \in [Calls -> Nat]
  /\ prev \in [Calls -> Nat]
  /\ held \in [Calls -> Calls \cup {None}]
  /\ joined \in [Calls -> Calls \cup {None}]
  /\ err \in [Calls -> Errors \cup {"none"}]
  /\ reauthed \in [Calls -> BOOLEAN]
  /\ cancelled \in [Calls -> BOOLEAN]
  /\ result \in [Calls -> Results]
  /\ ran \subseteq Calls

(* Reauthenticate resolves the future it made and no other, and resolves it *)
(* once: line 314 takes the future from reauthmut.ongoing again, where a    *)
(* second leader would leave nil or a channel that is closed already, and   *)
(* close would panic.                                                       *)
LeaderOwnsOngoing ==
  /\ \A c \in Calls : pc[c] \in Leading <=> ongoing = c
  /\ ongoing # None => ~Closed(ongoing)

(* No call sleeps on a future nobody is going to resolve: whoever waits in  *)
(* Get waits for the running reauthentication or for one that is over.      *)
NoLostWaiter ==
  \A c \in Calls :
    /\ pc[c] = "wait" => joined[c] = ongoing \/ Closed(joined[c])
    /\ pc[c] = "headers" => held[c] = ongoing \/ Closed(held[c])

(* A reauthentication that reports success has left a token newer than the  *)
(* one its caller complained of, whether it ran ReauthFunc or skipped it,   *)
(* and nothing brings the older token back.                                 *)
SuccessReplacesToken ==
  \A f \in Calls : ferr[f] = "nil" => token > prev[f]

(* One expired token costs one successful run of ReauthFunc however many    *)
(* requests saw it refused (TestConcurrentReauth counts the runs).          *)
TokenRenewedOnce ==
  \A c, d \in ran :
    c # d /\ prev[c] = prev[d] /\ prev[c] # 0 => ~(err[c] = "nil" /\ err[d] = "nil")

(* A request held back while a reauthentication runs goes out with a token  *)
(* newer than the one that reauthentication replaced                        *)
(* (TestRequestThatCameDuringReauthWaitsUntilItIsCompleted).                *)
HeldRequestUsesNewToken ==
  \A c \in Requests :
    pc[c] = "sent" /\ held[c] # None =>
      Closed(held[c]) /\ (ferr[held[c]] = "nil" => sent[c] > prev[held[c]])

(* A context error reaches a caller only from its own context or from the   *)
(* context of the leader whose reauthentication it shared.                  *)
CtxErrorHasASource ==
  \A c \in Calls : err[c] = "ctx" =>
    cancelled[c] \/ (joined[c] # None /\ cancelled[joined[c]])

(* A request sends its second attempt only after a reauthentication that    *)
(* succeeded, its own or the one it joined; one that could not              *)
(* reauthenticate ends in ErrUnableToReauthenticate.                        *)
RetryFollowsASuccess ==
  \A c \in Requests :
    /\ reauthed[c] => ferr[IF joined[c] = None THEN c ELSE joined[c]] = "nil"
    /\ result[c] = "unable" => err[c] \in {"auth", "ctx"}
    /\ result[c] = "afterReauth" => reauthed[c]

(* The protocol is the single flight of SingleFlight.tla: the flight is     *)
(* reauthmut.ongoing, its verdict the future's err, and the leader is told  *)
(* what everybody else is told, at the moment they are.                     *)
Flight == INSTANCE SingleFlight WITH
  Callers <- Calls,
  Verdicts <- Errors,
  Ctx <- "ctx",
  Pending <- "none",
  flight <- ongoing,
  verdict <- ferr,
  outcome <- [c \in Calls |-> IF c = ongoing THEN "none" ELSE err[c]],
  gone <- cancelled

ImplementsSingleFlight == Flight!Spec

(* Every call that was made returns when the services answer and ReauthFunc *)
(* always returns: no deadlock between leaders, followers and held requests.*)
(* A call is made once, so it has returned when it is at its end for good.  *)
EveryCallReturns ==
  RequestsAreAnswered /\ ReauthFuncReturns => <>[](\A c \in Calls : pc[c] \in {"start", "done"})

(* A call that waits for somebody else's reauthentication leaves when its   *)
(* own context is done, even if ReauthFunc never returns and no service     *)
(* answers                                                                  *)
(* (TestConcurrentReauthenticateHonorsContext,                              *)
(* TestRequestWaitingForReauthenticationHonorsContext): a cancelled call    *)
(* waits at most for a while, and a call only waits twice.                  *)
CancelledWaiterLeaves ==
  <>[](\A c \in Calls : pc[c] \in Waiting => ~cancelled[c])

(* What the comment of Reauthenticate promises and the code does not keep:  *)
(* it is skipped only "if another thread has already reauthenticated in the *)
(* meantime", so the retry of a refused request finds a newer token.        *)
FreshAfterReauth ==
  \A c \in Requests : pc[c] = "retry" => token > prev[c]
=============================================================================
