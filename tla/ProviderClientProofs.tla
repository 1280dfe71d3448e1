------------------------ MODULE ProviderClientProofs ------------------------
(***************************************************************************)
(* Theorems about ProviderClient for every set of calls, and about the     *)
(* TokenStore that keeps its token for every sharing of the mutexes.       *)
(***************************************************************************)
EXTENDS ProviderClient, TLAPS

(* Types alone are not inductive: a follower reads ferr of the future it    *)
(* joined, so whoever waits must wait for a future and not for None.        *)
WaitsOnFuture ==
  \A c \in Calls :
    /\ pc[c] = "wait" => joined[c] \in Calls
    /\ pc[c] = "headers" => held[c] \in Calls

TypeInv == TypeOK /\ WaitsOnFuture

(* How a call leaves Reauthenticate.                                        *)
LEMMA ReturnReauthEffect ==
  ASSUME TypeOK, NEW c \in Calls, NEW e, ReturnReauth(c, e)
  PROVE  /\ pc' \in [Calls -> Places]
         /\ reauthed' \in [Calls -> BOOLEAN]
         /\ result' \in [Calls -> Results]
         /\ \A d \in Calls \ {c} :
              pc'[d] = pc[d] /\ reauthed'[d] = reauthed[d] /\ result'[d] = result[d]
         /\ \/ /\ c \in Requests /\ e = "nil"
               /\ pc'[c] = "retry" /\ reauthed'[c] /\ result'[c] = result[c]
            \/ /\ pc'[c] = "done" /\ reauthed'[c] = reauthed[c]
               /\ result'[c] = IF e = "nil" THEN "ok" ELSE "unable"
<1>1. CASE c \in Requests /\ e = "nil"
  BY <1>1 DEF ReturnReauth, TypeOK, Places
<1>2. CASE ~(c \in Requests /\ e = "nil")
  BY <1>2 DEF ReturnReauth, TypeOK, Places, Results
<1> QED
  BY <1>1, <1>2

LEMMA TypeInvStep == TypeInv /\ [Next]_vars => TypeInv'
<1> USE DEF TypeInv, TypeOK, WaitsOnFuture, Errors, Results, Places, shared
<1> SUFFICES ASSUME TypeInv, [Next]_vars PROVE TypeInv'
  OBVIOUS
<1> USE CallsAssumption DEF Calls
<1>1. ASSUME NEW c \in Calls, CheckOngoing(c) PROVE TypeInv'
  BY <1>1 DEF CheckOngoing
<1>2. ASSUME NEW c \in Calls, HeadersResume(c) PROVE TypeInv'
  BY <1>2 DEF HeadersResume, Finish
<1>3. ASSUME NEW c \in Calls, HeadersCancelled(c) PROVE TypeInv'
  BY <1>3 DEF HeadersCancelled, Finish
<1>4. ASSUME NEW c \in Calls, ReadToken(c) PROVE TypeInv'
  BY <1>4 DEF ReadToken
<1>5. ASSUME NEW c \in Calls, Accepted(c) PROVE TypeInv'
  BY <1>5 DEF Accepted, Finish
<1>6. ASSUME NEW c \in Calls, RoundTripCancelled(c) PROVE TypeInv'
  BY <1>6 DEF RoundTripCancelled, Finish
<1>7. ASSUME NEW c \in Calls, Unauthorized(c) PROVE TypeInv'
  BY <1>7 DEF Unauthorized, Finish
<1>8. ASSUME NEW c \in Calls, EnterReauthenticate(c) PROVE TypeInv'
  BY <1>8 DEF EnterReauthenticate
<1>9. ASSUME NEW c \in Calls, CompareToken(c) PROVE TypeInv'
  BY <1>9 DEF CompareToken
<1>10. ASSUME NEW c \in Calls, ReauthSucceeds(c) PROVE TypeInv'
  BY <1>10 DEF ReauthSucceeds
<1>11. ASSUME NEW c \in Calls, ReauthFails(c) PROVE TypeInv'
  BY <1>11 DEF ReauthFails
<1>12. ASSUME NEW c \in Calls, Publish(c) PROVE TypeInv'
  <2>1. /\ pc' \in [Calls -> Places] /\ reauthed' \in [Calls -> BOOLEAN] /\ result' \in [Calls -> Results]
        /\ \A d \in Calls : pc'[d] \in {"wait", "headers"} => pc'[d] = pc[d]
    BY <1>12, ReturnReauthEffect DEF Publish
  <2> QED
    BY <1>12, <2>1 DEF Publish
<1>13. ASSUME NEW c \in Calls, FollowerResume(c) PROVE TypeInv'
  BY <1>13, ReturnReauthEffect DEF FollowerResume
<1>14. ASSUME NEW c \in Calls, FollowerCancelled(c) PROVE TypeInv'
  BY <1>14, ReturnReauthEffect DEF FollowerCancelled
<1>15. ASSUME NEW c \in Calls, SetToken(c) PROVE TypeInv'
  BY <1>15 DEF SetToken
<1>16. ASSUME NEW c \in Calls, Cancel(c) PROVE TypeInv'
  BY <1>16 DEF Cancel
<1>17. CASE UNCHANGED vars
  BY <1>17 DEF vars
<1> QED
  BY <1>1, <1>2, <1>3, <1>4, <1>5, <1>6, <1>7, <1>8, <1>9, <1>10, <1>11,
     <1>12, <1>13, <1>14, <1>15, <1>16, <1>17
     DEF Next, Step, ReauthReturns, AllDone

(* Every variable keeps its type in every behaviour of the client.          *)
THEOREM TypeCorrect == Spec => []TypeOK
<1>1. Init => TypeInv
  BY CallsAssumption
     DEF Init, TypeInv, TypeOK, WaitsOnFuture, Calls, Errors, Results, Places
<1>2. TypeInv => TypeOK
  BY DEF TypeInv
<1>3. QED
  BY <1>1, <1>2, TypeInvStep, PTL DEF Spec


-----------------------------------------------------------------------------
(* The inductive invariant.  A call leads at most one reauthentication      *)
(* because it calls Reauthenticate at most once: until it has been through  *)
(* it, its future is open, it has no err and it has not run ReauthFunc.     *)

Before == {"start", "denied", "wait"} \cup Leading

CallsOnce ==
  \A c \in Calls :
    /\ pc[c] \in Before => ~reauthed[c]
    /\ ~reauthed[c] /\ pc[c] # "done" => ~Closed(c)
    /\ ~reauthed[c] /\ pc[c] \notin {"publish", "done"} => err[c] = "none"
    /\ ~reauthed[c] /\ pc[c] \notin {"reauth", "publish", "done"} => c \notin ran
    /\ c \in ran /\ err[c] = "none" => pc[c] = "reauth"

(* Tokens only grow, and a leader about to publish success has seen or      *)
(* installed a token newer than the one it was given.                       *)
TokensGrow ==
  \A c \in Calls :
    /\ sent[c] <= token
    /\ prev[c] <= token
    /\ pc[c] = "publish" => err[c] # "none"
    /\ pc[c] = "publish" /\ err[c] = "nil" => token > prev[c]
    /\ c \in ran /\ err[c] = "nil" => token > prev[c]

(* A held request is past authenticatedHeaders only once the future it      *)
(* found is resolved.                                                       *)
HeldIsOver ==
  \A c \in Calls :
    pc[c] \in {"token", "sent"} /\ held[c] # None => held[c] \in Calls /\ Closed(held[c])

(* While a leader runs ReauthFunc for a token, nobody has renewed it.       *)
RunsForTheCurrentToken ==
  \A c \in Calls, d \in ran :
    pc[c] = "reauth" /\ c # d /\ prev[c] = prev[d] /\ prev[c] # 0 => err[d] # "nil"

(* A leader waits for nobody, and a call has a result only at its end.      *)
LeadersJoinNobody ==
  \A c \in Calls :
    /\ ~reauthed[c] /\ pc[c] \notin {"wait", "done"} => joined[c] = None
    /\ result[c] # "none" => pc[c] = "done"

(* Where a context error comes from, before and after it is published.      *)
CtxErrorsAreEarned ==
  \A c \in Calls :
    /\ ferr[c] = "ctx" => cancelled[c]
    /\ pc[c] \in Leading /\ err[c] = "ctx" => cancelled[c]

IInv ==
  /\ TypeInv
  /\ LeaderOwnsOngoing
  /\ NoLostWaiter
  /\ CallsOnce
  /\ TokensGrow
  /\ SuccessReplacesToken
  /\ HeldIsOver
  /\ HeldRequestUsesNewToken
  /\ RunsForTheCurrentToken
  /\ TokenRenewedOnce
  /\ LeadersJoinNobody
  /\ CtxErrorsAreEarned
  /\ CtxErrorHasASource
  /\ RetryFollowsASuccess

(* The skip is right because tokens are never handed out twice: a client    *)
(* token that is not the refused one is a later one.                        *)
LEMMA SkippedMeansNewer ==
  ASSUME NEW c, token \in Nat, prev[c] \in Nat, prev[c] <= token, ~MustReauth(c)
  PROVE  token > prev[c]
  BY DEF MustReauth

LEMMA IInvInit == Init => IInv
<1> SUFFICES ASSUME Init PROVE IInv
  OBVIOUS
<1> USE CallsAssumption DEF Init, Calls
<1>1. TypeInv
  BY DEF TypeInv, TypeOK, WaitsOnFuture, Errors, Results, Places
<1>2. LeaderOwnsOngoing /\ NoLostWaiter /\ CallsOnce /\ TokensGrow
  BY DEF LeaderOwnsOngoing, NoLostWaiter, CallsOnce, TokensGrow, Leading, Before, Closed
<1>3. SuccessReplacesToken /\ HeldIsOver /\ HeldRequestUsesNewToken
  BY DEF SuccessReplacesToken, HeldIsOver, HeldRequestUsesNewToken
<1>4. RunsForTheCurrentToken /\ TokenRenewedOnce
  BY DEF RunsForTheCurrentToken, TokenRenewedOnce
<1>5. LeadersJoinNobody /\ CtxErrorsAreEarned /\ CtxErrorHasASource /\ RetryFollowsASuccess
  BY DEF LeadersJoinNobody, CtxErrorsAreEarned, CtxErrorHasASource,
     RetryFollowsASuccess
<1> QED
  BY <1>1, <1>2, <1>3, <1>4, <1>5 DEF IInv

(* Every action preserves the inductive invariant.  The actions that move   *)
(* one call through authenticatedHeaders and doRequest touch no shared      *)
(* state; the argument is in the six that do.                               *)
LEMMA IInvStep == IInv /\ [Next]_vars => IInv'
<1> SUFFICES ASSUME IInv, [Next]_vars PROVE IInv'
  OBVIOUS
<1>0. TypeInv'
  BY TypeInvStep DEF IInv
<1> USE CallsAssumption, <1>0
    DEF IInv, TypeInv, TypeOK, WaitsOnFuture, LeaderOwnsOngoing, NoLostWaiter,
        CallsOnce, TokensGrow, SuccessReplacesToken, HeldIsOver,
        HeldRequestUsesNewToken, RunsForTheCurrentToken, TokenRenewedOnce,
        LeadersJoinNobody, CtxErrorsAreEarned, CtxErrorHasASource,
        RetryFollowsASuccess, shared, Calls, Leading, Before, Closed, Errors
<1>1. ASSUME NEW c \in Calls, CheckOngoing(c) PROVE IInv'
  BY <1>1 DEF CheckOngoing
<1>2. ASSUME NEW c \in Calls, HeadersResume(c) PROVE IInv'
  BY <1>2 DEF HeadersResume, Finish
<1>3. ASSUME NEW c \in Calls, HeadersCancelled(c) PROVE IInv'
  BY <1>3 DEF HeadersCancelled, Finish
<1>4. ASSUME NEW c \in Calls, ReadToken(c) PROVE IInv'
  BY <1>4 DEF ReadToken
<1>5. ASSUME NEW c \in Calls, Accepted(c) PROVE IInv'
  BY <1>5 DEF Accepted, Finish
<1>6. ASSUME NEW c \in Calls, RoundTripCancelled(c) PROVE IInv'
  BY <1>6 DEF RoundTripCancelled, Finish
<1>7. ASSUME NEW c \in Calls, Unauthorized(c) PROVE IInv'
  <2>1. CASE reauthed[c]
    BY <1>7, <2>1 DEF Unauthorized, Finish
  <2>2. CASE ~reauthed[c]
    BY <1>7, <2>2 DEF Unauthorized
  <2> QED
    BY <2>1, <2>2
<1>8. ASSUME NEW c \in Calls, EnterReauthenticate(c) PROVE IInv'
  <2>1. pc[c] \in Before /\ ~reauthed[c] /\ ~Closed(c)
    BY <1>8 DEF EnterReauthenticate
  <2>2. CASE ongoing = None
    BY <1>8, <2>1, <2>2 DEF EnterReauthenticate
  <2>3. CASE ongoing # None
    BY <1>8, <2>1, <2>3 DEF EnterReauthenticate
  <2> QED
    BY <2>2, <2>3
<1>9. ASSUME NEW c \in Calls, CompareToken(c) PROVE IInv'
  <2>1. /\ ongoing = c /\ c \notin ran /\ err[c] = "none"
        /\ prev[c] <= token /\ prev[c] \in Nat /\ token \in Nat
    BY <1>9 DEF CompareToken
  (* The run is for the current token: whoever renewed it is too old.       *)
  <2>2. CASE MustReauth(c)
    <3>1. \A d \in ran : prev[d] = prev[c] /\ prev[c] # 0 => err[d] # "nil"
      BY <2>1, <2>2 DEF MustReauth
    <3> QED
      BY <1>9, <2>1, <2>2, <3>1 DEF CompareToken
  (* The run is skipped: the token differs from prev[c], so it is newer.    *)
  <2>3. CASE ~MustReauth(c)
    <3>1. token > prev[c]
      BY <2>1, <2>3, SkippedMeansNewer
    <3> QED
      BY <1>9, <2>1, <2>3, <3>1 DEF CompareToken
  <2> QED
    BY <2>2, <2>3
<1>10. ASSUME NEW c \in Calls, ReauthSucceeds(c) PROVE IInv'
  BY <1>10 DEF ReauthSucceeds
<1>11. ASSUME NEW c \in Calls, ReauthFails(c) PROVE IInv'
  BY <1>11 DEF ReauthFails
<1>12. ASSUME NEW c \in Calls, Publish(c) PROVE IInv'
  (* What the leader publishes, and that the future is its own and open.    *)
  <2>1. ongoing = c /\ ~Closed(c) /\ joined[c] = None /\ err[c] \in Errors
    BY <1>12 DEF Publish
  <2>2. err[c] = "nil" => token > prev[c]
    BY <1>12 DEF Publish
  <2>3. \A d \in Calls : ferr'[d] = IF d = c THEN err[c] ELSE ferr[d]
    BY <1>12, <2>1 DEF Publish
  <2> QED
    BY <1>12, <2>1, <2>2, <2>3, ReturnReauthEffect DEF Publish
<1>13. ASSUME NEW c \in Calls, FollowerResume(c) PROVE IInv'
  <2>1. joined[c] \in Calls /\ joined[c] # None /\ ferr[joined[c]] \in Errors
    BY <1>13 DEF FollowerResume
  <2>2. c \notin ran /\ ongoing # c /\ ~Closed(c)
    BY <1>13 DEF FollowerResume
  <2>3. /\ pc' \in [Calls -> Places] /\ reauthed' \in [Calls -> BOOLEAN] /\ result' \in [Calls -> Results]
        /\ \A d \in Calls \ {c} :
             pc'[d] = pc[d] /\ reauthed'[d] = reauthed[d] /\ result'[d] = result[d]
    BY <1>13, ReturnReauthEffect DEF FollowerResume
  <2>4. CASE ferr[joined[c]] = "nil"
    <3>1. \/ c \in Requests /\ pc'[c] = "retry" /\ reauthed'[c] /\ result'[c] = result[c]
          \/ pc'[c] = "done" /\ reauthed'[c] = reauthed[c] /\ result'[c] = "ok"
      BY <1>13, <2>4, ReturnReauthEffect DEF FollowerResume
    <3> QED
      BY <1>13, <2>1, <2>2, <2>3, <2>4, <3>1 DEF FollowerResume
  <2>5. CASE ferr[joined[c]] # "nil"
    <3>1. pc'[c] = "done" /\ reauthed'[c] = reauthed[c] /\ result'[c] = "unable"
      BY <1>13, <2>5, ReturnReauthEffect DEF FollowerResume
    <3> QED
      BY <1>13, <2>1, <2>2, <2>3, <2>5, <3>1 DEF FollowerResume
  <2> QED
    BY <2>4, <2>5
<1>14. ASSUME NEW c \in Calls, FollowerCancelled(c) PROVE IInv'
  <2>1. c \notin ran /\ ongoing # c /\ ~Closed(c) /\ joined[c] \in Calls /\ cancelled[c]
    BY <1>14 DEF FollowerCancelled
  <2>2. /\ pc' \in [Calls -> Places] /\ reauthed' \in [Calls -> BOOLEAN] /\ result' \in [Calls -> Results]
        /\ \A d \in Calls \ {c} :
             pc'[d] = pc[d] /\ reauthed'[d] = reauthed[d] /\ result'[d] = result[d]
        /\ pc'[c] = "done" /\ reauthed'[c] = reauthed[c] /\ result'[c] = "unable"
    BY <1>14, ReturnReauthEffect DEF FollowerCancelled
  <2> QED
    BY <1>14, <2>1, <2>2 DEF FollowerCancelled
<1>15. ASSUME NEW c \in Calls, SetToken(c) PROVE IInv'
  BY <1>15 DEF SetToken
<1>16. ASSUME NEW c \in Calls, Cancel(c) PROVE IInv'
  BY <1>16 DEF Cancel
<1>17. CASE UNCHANGED vars
  BY <1>17 DEF vars
<1> QED
  BY <1>1, <1>2, <1>3, <1>4, <1>5, <1>6, <1>7, <1>8, <1>9, <1>10, <1>11,
     <1>12, <1>13, <1>14, <1>15, <1>16, <1>17
     DEF Next, Step, ReauthReturns, AllDone

LEMMA IInvAlways == Spec => []IInv
  BY IInvInit, IInvStep, PTL DEF Spec

(* A leader resolves its own future, and an open one (provider_client.go    *)
(* 312-316): no close of a closed channel, no nil future.                   *)
THEOREM OneLeader == Spec => []LeaderOwnsOngoing
<1>1. IInv => LeaderOwnsOngoing
  BY DEF IInv
<1> QED
  BY <1>1, IInvAlways, PTL

(* Nobody waits for a future that is not going to be resolved.              *)
THEOREM NobodyIsLost == Spec => []NoLostWaiter
<1>1. IInv => NoLostWaiter
  BY DEF IInv
<1> QED
  BY <1>1, IInvAlways, PTL

(* A reauthentication that reports success leaves a newer token behind.     *)
THEOREM SuccessIsReal == Spec => []SuccessReplacesToken
<1>1. IInv => SuccessReplacesToken
  BY DEF IInv
<1> QED
  BY <1>1, IInvAlways, PTL

(* An expired token is renewed by one successful run of ReauthFunc.         *)
THEOREM RenewedOnce == Spec => []TokenRenewedOnce
<1>1. IInv => TokenRenewedOnce
  BY DEF IInv
<1> QED
  BY <1>1, IInvAlways, PTL

(* A request held back by a reauthentication goes out with a newer token    *)
(* than the one that reauthentication replaced.                             *)
THEOREM HeldRequestsAreFresh == Spec => []HeldRequestUsesNewToken
<1>1. IInv => HeldRequestUsesNewToken
  BY DEF IInv
<1> QED
  BY <1>1, IInvAlways, PTL

(* Nobody is told of a context error without a context that is done.        *)
THEOREM CtxErrorsHaveASource == Spec => []CtxErrorHasASource
<1>1. IInv => CtxErrorHasASource
  BY DEF IInv
<1> QED
  BY <1>1, IInvAlways, PTL

(* A second attempt follows a reauthentication that succeeded.              *)
THEOREM RetriesAreEarned == Spec => []RetryFollowsASuccess
<1>1. IInv => RetryFollowsASuccess
  BY DEF IInv
<1> QED
  BY <1>1, IInvAlways, PTL

-----------------------------------------------------------------------------
(* Reauthenticate is a single flight. *)

Told == [c \in Calls |-> IF c = ongoing THEN "none" ELSE err[c]]

LEMMA FlightStep == IInv /\ IInv' /\ [Next]_vars => [Flight!Next]_(Flight!flightVars)
<1> SUFFICES ASSUME IInv, IInv', [Next]_vars
             PROVE  Flight!Next \/ UNCHANGED <<ongoing, joined, ferr, Told, cancelled>>
  BY DEF Flight!flightVars, Told
<1> USE CallsAssumption
    DEF IInv, TypeInv, TypeOK, LeaderOwnsOngoing, CallsOnce, LeadersJoinNobody,
        shared, Leading, Before, Closed, Calls
<1>1. ASSUME NEW c \in Calls, CheckOngoing(c) PROVE UNCHANGED <<ongoing, joined, ferr, Told, cancelled>>
  BY <1>1 DEF CheckOngoing, Told
<1>2. ASSUME NEW c \in Calls,
             HeadersResume(c) \/ HeadersCancelled(c) \/ ReadToken(c) \/ Accepted(c)
               \/ RoundTripCancelled(c) \/ Unauthorized(c) \/ SetToken(c)
      PROVE  UNCHANGED <<ongoing, joined, ferr, Told, cancelled>>
  BY <1>2 DEF HeadersResume, HeadersCancelled, ReadToken, Accepted,
     RoundTripCancelled, Unauthorized, SetToken, Finish, Told
(* The leader writes its own err, which nobody is told before it publishes. *)
<1>3. ASSUME NEW c \in Calls, CompareToken(c) \/ ReauthSucceeds(c) \/ ReauthFails(c)
      PROVE  UNCHANGED <<ongoing, joined, ferr, Told, cancelled>>
  <2>1. c = ongoing
    BY <1>3 DEF CompareToken, ReauthSucceeds, ReauthFails
  <2> QED
    BY <1>3, <2>1 DEF CompareToken, ReauthSucceeds, ReauthFails, Told
<1>4. ASSUME NEW c \in Calls, EnterReauthenticate(c) PROVE Flight!Next
  <2>1. Flight!Fresh(c)
    BY <1>4 DEF EnterReauthenticate, Flight!Fresh
  <2>2. Told' = Told
    BY <1>4 DEF EnterReauthenticate, Told
  <2>3. Flight!Launch(c) \/ Flight!Join(c)
    BY <1>4, <2>1, <2>2 DEF EnterReauthenticate, Flight!Launch, Flight!Join, Told
  <2> QED
    BY <2>3 DEF Flight!Next
<1>5. ASSUME NEW c \in Calls, Publish(c) PROVE Flight!Next
  <2>1. ongoing = c /\ err[c] \in Errors
    BY <1>5 DEF Publish, TokensGrow, Errors
  <2>2. Told' = [d \in Calls |-> err[d]]
    BY <1>5 DEF Publish, Told
  <2>3. [Told EXCEPT ![c] = err[c]] = [d \in Calls |-> err[d]]
    BY <2>1 DEF Told
  <2>5. Told' = [Told EXCEPT ![c] = err[c]]
    BY <2>2, <2>3
  <2>6. ferr' = [ferr EXCEPT ![c] = err[c]] /\ ongoing' = None /\ UNCHANGED <<joined, cancelled>>
    BY <1>5 DEF Publish
  <2>4. Flight!Land(c)
    BY ONLY <2>1, <2>5, <2>6, Zenon DEF Flight!Land, Told
  <2> QED
    BY <2>4 DEF Flight!Next
<1>6. ASSUME NEW c \in Calls, FollowerResume(c) PROVE Flight!Next
  <2>1. joined[c] # None /\ ongoing # c /\ err[c] = "none"
    BY <1>6 DEF FollowerResume, WaitsOnFuture
  <2>2. Told' = [Told EXCEPT ![c] = ferr[joined[c]]]
    BY <1>6, <2>1 DEF FollowerResume, Told
  <2>3. Flight!Deliver(c)
    BY <1>6, <2>1, <2>2 DEF FollowerResume, Flight!Deliver, Told
  <2> QED
    BY <2>3 DEF Flight!Next
<1>7. ASSUME NEW c \in Calls, FollowerCancelled(c) PROVE Flight!Next
  <2>1. joined[c] # None /\ ongoing # c /\ err[c] = "none"
    BY <1>7 DEF FollowerCancelled, WaitsOnFuture
  <2>2. Told' = [Told EXCEPT ![c] = "ctx"]
    BY <1>7, <2>1 DEF FollowerCancelled, Told
  <2>3. Flight!Abandon(c)
    BY <1>7, <2>1, <2>2 DEF FollowerCancelled, Flight!Abandon, Told
  <2> QED
    BY <2>3 DEF Flight!Next
<1>8. ASSUME NEW c \in Calls, Cancel(c) PROVE Flight!Next
  <2>1. Flight!Leave(c)
    BY <1>8 DEF Cancel, Flight!Leave
  <2> QED
    BY <2>1 DEF Flight!Next
<1>9. CASE UNCHANGED vars
  BY <1>9 DEF vars, Told
<1> QED
  BY <1>1, <1>2, <1>3, <1>4, <1>5, <1>6, <1>7, <1>8, <1>9
     DEF Next, Step, ReauthReturns, AllDone

(* Reauthenticate implements the abstract single flight: one flight in the  *)
(* air, one verdict per flight, the same for everybody who joined it.       *)
THEOREM SingleFlightImplemented == Spec => ImplementsSingleFlight
<1>1. Init => Flight!Init
  BY CallsAssumption DEF Init, Flight!Init, Calls
<1>2. IInv /\ IInv' /\ [Next]_vars => [Flight!Next]_(Flight!flightVars)
  BY FlightStep
<1> QED
  BY <1>1, <1>2, IInvAlways, PTL DEF Spec, ImplementsSingleFlight, Flight!Spec

-----------------------------------------------------------------------------
(* What a single flight is worth.  These are proofs about SingleFlight, with *)
(* its parameters as Reauthenticate implements them.                         *)

FlightTypes ==
  /\ ongoing \in Calls \cup {None}
  /\ joined \in [Calls -> Calls \cup {None}]
  /\ ferr \in [Calls -> Errors \cup {"none"}]
  /\ Told \in [Calls -> Errors \cup {"none"}]
  /\ cancelled \in [Calls -> BOOLEAN]

(* Whoever flies joined nobody and has not landed.                          *)
InTheAir ==
  \A c \in Calls :
    ongoing = c => joined[c] = None /\ ferr[c] = "none" /\ Told[c] = "none"

(* Flight!EverybodyToldTheVerdict, with a name for what everybody was told.  *)
AllTold(told) ==
  \A c \in Calls : told[c] # "none" =>
    \/ joined[c] = None /\ told[c] = ferr[c]
    \/ joined[c] # None /\ told[c] = ferr[joined[c]]
    \/ joined[c] # None /\ told[c] = "ctx" /\ cancelled[c]

FlightInv == FlightTypes /\ InTheAir /\ AllTold(Told)

LEMMA FlightInvInit == Flight!Init => FlightInv
  BY CallsAssumption DEF Flight!Init, FlightInv, FlightTypes, InTheAir, AllTold, Told, Calls

(* The actions of the flight, in terms of Told.                             *)
LEMMA FlightActions ==
  ASSUME NEW c \in Calls
  PROVE  /\ Flight!Land(c) =>
              /\ ongoing = c /\ ongoing' = None /\ UNCHANGED <<joined, cancelled>>
              /\ \E v \in Errors : /\ ferr' = [ferr EXCEPT ![c] = v]
                                   /\ Told' = [Told EXCEPT ![c] = v]
         /\ Flight!Deliver(c) =>
              /\ joined[c] # None /\ Told[c] = "none" /\ ferr[joined[c]] # "none"
              /\ Told' = [Told EXCEPT ![c] = ferr[joined[c]]]
              /\ UNCHANGED <<ongoing, joined, ferr, cancelled>>
         /\ Flight!Abandon(c) =>
              /\ joined[c] # None /\ Told[c] = "none" /\ cancelled[c]
              /\ Told' = [Told EXCEPT ![c] = "ctx"]
              /\ UNCHANGED <<ongoing, joined, ferr, cancelled>>
         /\ Flight!Launch(c) =>
              /\ ongoing = None /\ ongoing' = c
              /\ joined[c] = None /\ ferr[c] = "none" /\ Told[c] = "none"
              /\ UNCHANGED <<joined, ferr, Told, cancelled>>
         /\ Flight!Join(c) =>
              /\ ongoing # None /\ ongoing # c /\ Told[c] = "none"
              /\ joined' = [joined EXCEPT ![c] = ongoing]
              /\ UNCHANGED <<ongoing, ferr, Told, cancelled>>
         /\ Flight!Leave(c) =>
              /\ cancelled' = [cancelled EXCEPT ![c] = TRUE]
              /\ UNCHANGED <<ongoing, joined, ferr, Told>>
BY DEF Flight!Land, Flight!Deliver, Flight!Abandon, Flight!Launch, Flight!Join,
  Flight!Leave,
       Flight!Fresh, Told

LEMMA FlightInvStep == FlightInv /\ [Flight!Next]_(Flight!flightVars) => FlightInv'
<1> SUFFICES ASSUME FlightInv, [Flight!Next]_(Flight!flightVars) PROVE FlightInv'
  OBVIOUS
<1>0. "ctx" \in Errors /\ "none" \notin Errors /\ None \notin Calls
  BY CallsAssumption DEF Errors, Calls
<1> USE <1>0, FlightActions DEF FlightInv, FlightTypes, InTheAir, AllTold
<1>1. ASSUME NEW c \in Calls, Flight!Launch(c) PROVE FlightInv'
  BY <1>1
<1>2. ASSUME NEW c \in Calls, Flight!Join(c) PROVE FlightInv'
  BY <1>2
<1>3. ASSUME NEW c \in Calls, Flight!Land(c) PROVE FlightInv'
  BY <1>3
<1>4. ASSUME NEW c \in Calls, Flight!Deliver(c) PROVE FlightInv'
  BY <1>4
<1>5. ASSUME NEW c \in Calls, Flight!Abandon(c) PROVE FlightInv'
  BY <1>5
<1>6. ASSUME NEW c \in Calls, Flight!Leave(c) PROVE FlightInv'
  <2>4. /\ cancelled' = [cancelled EXCEPT ![c] = TRUE] /\ UNCHANGED <<ongoing, joined, ferr, Told>>
        /\ cancelled \in [Calls -> BOOLEAN]
    BY <1>6
  <2>1. cancelled' \in [Calls -> BOOLEAN] /\ \A d \in Calls : cancelled[d] => cancelled'[d]
    BY ONLY <2>4, Zenon
  <2>2. FlightTypes' /\ InTheAir'
    BY <1>6, <2>1
  <2>3. AllTold(Told)'
    BY <1>6, <2>1
  <2> QED
    BY <2>2, <2>3
<1>7. CASE UNCHANGED Flight!flightVars
  BY <1>7 DEF Flight!flightVars, Told
<1> QED
  BY <1>1, <1>2, <1>3, <1>4, <1>5, <1>6, <1>7 DEF Flight!Next

(* A verdict, once there, stays, and only the flight itself lands.          *)
LEMMA VerdictStep ==
  FlightInv /\ Flight!Next =>
    \A c \in Calls :
      /\ ferr[c] # "none" => ferr'[c] = ferr[c]
      /\ ferr[c] # ferr'[c] => ongoing = c
<1> SUFFICES ASSUME FlightInv, Flight!Next, NEW c \in Calls
             PROVE  /\ ferr[c] # "none" => ferr'[c] = ferr[c]
                    /\ ferr[c] # ferr'[c] => ongoing = c
  OBVIOUS
<1>1. ASSUME NEW d \in Calls, Flight!Land(d)
      PROVE  /\ ferr[c] # "none" => ferr'[c] = ferr[c]
             /\ ferr[c] # ferr'[c] => ongoing = c
  BY <1>1, FlightActions DEF FlightInv, FlightTypes, InTheAir
<1>2. (\A d \in Calls : ~Flight!Land(d)) => ferr' = ferr
  BY FlightActions DEF Flight!Next
<1> QED
  BY <1>1, <1>2

(* Whoever took part in a reauthentication is told its verdict, the call    *)
(* that made it and all that joined it, however they and their contexts     *)
(* interleave; a context error goes instead only to a call whose own        *)
(* context is done.                                                         *)
THEOREM TheVerdictIsShared == Spec => []Flight!EverybodyToldTheVerdict
<1>1. Flight!Init => FlightInv
  BY FlightInvInit
<1>2. FlightInv /\ [Flight!Next]_(Flight!flightVars) => FlightInv'
  BY FlightInvStep
<1>3. FlightInv => Flight!EverybodyToldTheVerdict
  BY DEF FlightInv, AllTold, Told, Flight!EverybodyToldTheVerdict
<1> QED
  BY <1>1, <1>2, <1>3, SingleFlightImplemented, PTL DEF ImplementsSingleFlight, Flight!Spec

(* The verdict of a reauthentication is final, and only the call that made  *)
(* it gives it: Publish, which closes the channel of the future, is never   *)
(* run twice for one future, which would panic.                             *)
THEOREM VerdictsAreFinal == Spec => Flight!VerdictIsFinal
<1>1. Flight!Init => FlightInv
  BY FlightInvInit
<1>2. FlightInv /\ [Flight!Next]_(Flight!flightVars) => FlightInv'
  BY FlightInvStep
<1>3. FlightInv /\ [Flight!Next]_(Flight!flightVars) =>
        [\A c \in Calls :
           /\ ferr[c] # "none" => ferr'[c] = ferr[c]
           /\ ferr[c] # ferr'[c] => ongoing = c]_(Flight!flightVars)
  BY VerdictStep
<1> QED
  BY <1>1, <1>2, <1>3, SingleFlightImplemented, PTL
     DEF ImplementsSingleFlight, Flight!Spec, Flight!VerdictIsFinal
-----------------------------------------------------------------------------
(* The locks of the token and the authentication result.  These are proofs   *)
(* about TokenStore, for every set of clients and calls and however the      *)
(* clients share their mutexes.                                              *)
CONSTANTS Clients, Mutexes, MutexOf, StoreCalls, Op, Nil
VARIABLES tokenID, authResult, writer, readers, pending, storePc
Store == INSTANCE TokenStore WITH Calls <- StoreCalls, pc <- storePc

StorePlaces == {"start", "locking", "locked", "ready", "half", "written", "done"}

StoreTypes ==
  /\ tokenID \in [Clients -> Clients \cup StoreCalls]
  /\ authResult \in [Clients -> Clients \cup StoreCalls \cup {Nil}]
  /\ writer \in [Mutexes -> StoreCalls \cup {Nil}]
  /\ readers \in [Mutexes -> SUBSET StoreCalls]
  /\ pending \in [Mutexes -> SUBSET StoreCalls]
  /\ storePc \in [StoreCalls -> StorePlaces]

HoldsLock(a) == storePc[a] \in {"locked", "ready", "half", "written"}
HoldsOtherLock(a) ==
  Op[a].kind = "copy" /\ Store!Other(a) # Store!Own(a) /\ storePc[a] \in {"ready", "half", "written"}

(* What the locks are for. *)
Locks ==
  /\ \A a \in StoreCalls : HoldsLock(a) => writer[Store!Own(a)] = a
  /\ \A a \in StoreCalls : HoldsOtherLock(a) => a \in readers[Store!Other(a)]
  /\ \A m \in Mutexes : writer[m] # Nil => readers[m] = {}

Whole(c) == authResult[c] \in {tokenID[c], Nil}

(* A pair is torn only while somebody writes it, *)
Torn == \A c \in Clients : Whole(c) \/ \E a \in StoreCalls : Store!To(a) = c /\ storePc[a] = "half"

(* and whoever has written a token writes the result that belongs to it.    *)
HalfWay ==
  \A a \in StoreCalls : storePc[a] = "half" =>
    /\ Op[a].kind = "copy" => tokenID[Store!To(a)] = tokenID[Store!From(a)] /\ Whole(Store!From(a))
    /\ Op[a].kind = "setboth" => tokenID[Store!To(a)] = a

StoreInv == StoreTypes /\ Locks /\ Torn /\ HalfWay

LEMMA OpTypes ==
  ASSUME Store!TokenStoreAssumption, NEW a \in StoreCalls
  PROVE  /\ Op[a].kind \in {"set", "setboth", "read", "copy"}
         /\ Store!To(a) \in Clients /\ Store!From(a) \in Clients
         /\ Store!Own(a) \in Mutexes /\ Store!Other(a) \in Mutexes
  BY DEF Store!TokenStoreAssumption, Store!To, Store!From, Store!Own, Store!Other

LEMMA StoreInvInit ==
  ASSUME Store!TokenStoreAssumption
  PROVE  Store!Init => StoreInv
<1> SUFFICES ASSUME Store!Init PROVE StoreInv
  OBVIOUS
<1>1. StoreTypes
  BY DEF Store!Init, StoreTypes, StorePlaces
<1>2. Locks
  BY OpTypes DEF Store!TokenStoreAssumption, Store!Init, Locks, HoldsLock, HoldsOtherLock
<1>3. Torn /\ HalfWay
  BY DEF Store!Init, Torn, HalfWay, Whole
<1> QED
  BY <1>1, <1>2, <1>3 DEF StoreInv

LEMMA StoreTypesStep ==
  ASSUME Store!TokenStoreAssumption
  PROVE  StoreTypes /\ [Store!Next]_(Store!vars) => StoreTypes'
<1> SUFFICES ASSUME StoreTypes, [Store!Next]_(Store!vars) PROVE StoreTypes'
  OBVIOUS
<1>1. CASE UNCHANGED Store!vars
  BY <1>1 DEF StoreTypes, Store!vars
<1>2. ASSUME NEW a \in StoreCalls, Store!Step(a) PROVE StoreTypes'
  <2> USE OpTypes DEF StoreTypes, Store!locks, Store!Goto, StorePlaces
  <2>1. CASE Store!Read(a) \/ Store!Refuse(a)
    BY <2>1 DEF Store!Read, Store!Refuse
  <2>2. CASE Store!WantLock(a)
    BY <2>2 DEF Store!WantLock
  <2>3. CASE Store!Lock(a)
    BY <2>3 DEF Store!Lock
  <2>4. CASE Store!LockOther(a)
    <3>1. CASE Store!Other(a) = Store!Own(a)
      BY <2>4, <3>1 DEF Store!LockOther
    <3>2. CASE Store!Other(a) # Store!Own(a)
      BY <2>4, <3>2 DEF Store!LockOther
    <3> QED
      BY <3>1, <3>2
  <2>5. CASE Store!WriteToken(a)
    <3>1. (IF Op[a].kind = "copy" THEN tokenID[Store!From(a)] ELSE a) \in Clients \cup StoreCalls
      OBVIOUS
    <3> QED
      BY <2>5, <3>1 DEF Store!WriteToken
  <2>6. CASE Store!WriteResult(a)
    <3>1. Store!Coming(a) \in Clients \cup StoreCalls \cup {Nil}
      BY DEF Store!Coming
    <3>2. authResult' = [authResult EXCEPT ![Store!To(a)] = Store!Coming(a)]
      BY <2>6 DEF Store!WriteResult, Store!Coming
    <3> QED
      BY <2>6, <3>1, <3>2 DEF Store!WriteResult
  <2>7. CASE Store!Unlock(a)
    BY <2>7 DEF Store!TokenStoreAssumption, Store!Unlock
  <2> QED
    BY <1>2, <2>1, <2>2, <2>3, <2>4, <2>5, <2>6, <2>7 DEF Store!Step
<1> QED
  BY <1>1, <1>2 DEF Store!Next, Store!Finished

(* A mutex has one holder: who holds it for writing is alone with it. *)
LEMMA LockIsExclusive ==
  ASSUME Store!TokenStoreAssumption, StoreTypes, Locks, NEW a \in StoreCalls,
         NEW b \in StoreCalls, a # b, HoldsLock(a), HoldsLock(b)
  PROVE  /\ Store!Own(a) # Store!Own(b)
         /\ HoldsOtherLock(a) => Store!Other(a) # Store!Own(b)
<1>1. writer[Store!Own(a)] = a /\ writer[Store!Own(b)] = b
  BY DEF Locks
<1>2. writer[Store!Own(b)] # Nil /\ Store!Own(b) \in Mutexes
  BY <1>1, OpTypes DEF Store!TokenStoreAssumption
<1>3. readers[Store!Own(b)] = {}
  BY <1>2 DEF Locks
<1> QED
  BY <1>1, <1>3 DEF Locks

LEMMA LocksStep ==
  ASSUME Store!TokenStoreAssumption
  PROVE  StoreInv /\ [Store!Next]_(Store!vars) => Locks'
<1> SUFFICES ASSUME StoreInv, [Store!Next]_(Store!vars) PROVE Locks'
  OBVIOUS
<1> USE DEF StoreInv
<1>1. CASE UNCHANGED Store!vars
  BY <1>1 DEF Locks, HoldsLock, HoldsOtherLock, Store!vars
<1>2. ASSUME NEW a \in StoreCalls, Store!Step(a) PROVE Locks'
  <2> USE OpTypes DEF Store!locks, Store!Goto
  <2>1. CASE Store!Read(a) \/ Store!Refuse(a) \/ Store!WantLock(a)
    BY <2>1 DEF Store!Read, Store!Refuse, Store!WantLock, StoreTypes, Locks, HoldsLock,
      HoldsOtherLock
  <2>2. CASE Store!Lock(a)
    <3>1. \A b \in StoreCalls \ {a} : HoldsLock(b) => Store!Own(b) # Store!Own(a)
      BY <2>2 DEF Store!TokenStoreAssumption, Store!Lock, Store!CanWrite, Locks
    <3> QED
      BY <2>2, <3>1 DEF Store!Lock, Store!CanWrite, StoreTypes, Locks, HoldsLock,
        HoldsOtherLock
  <2>3. CASE Store!LockOther(a)
    <3>1. /\ storePc[a] = "locked" /\ storePc' = [storePc EXCEPT ![a] = "ready"]
          /\ writer' = writer /\ storePc \in [StoreCalls -> StorePlaces]
      BY <2>3 DEF Store!LockOther, StoreTypes
    <3>2. \A m \in Mutexes : /\ readers[m] \subseteq readers'[m]
                             /\ readers'[m] # readers[m] => writer[m] = Nil
      <4>1. CASE Store!Other(a) = Store!Own(a)
        BY <2>3, <4>1 DEF Store!LockOther
      <4>2. CASE Store!Other(a) # Store!Own(a)
        <5>1. /\ readers' = [readers EXCEPT ![Store!Other(a)] = @ \cup {a}]
              /\ writer[Store!Other(a)] = Nil /\ readers \in [Mutexes -> SUBSET StoreCalls]
          BY <2>3, <4>2 DEF Store!LockOther, Store!CanRead, StoreTypes
        <5> QED
          BY ONLY <5>1
      <4> QED
        BY <4>1, <4>2
    <3>3. Store!Other(a) # Store!Own(a) => a \in readers'[Store!Other(a)]
      BY <2>3 DEF Store!LockOther, StoreTypes
    <3>4. \A b \in StoreCalls : HoldsLock(b)' => HoldsLock(b)
      BY <3>1 DEF HoldsLock
    <3>5. \A b \in StoreCalls : b # a /\ HoldsOtherLock(b)' => HoldsOtherLock(b)
      BY <3>1 DEF HoldsOtherLock
    <3>6. \A b \in StoreCalls : HoldsOtherLock(b)' => b \in readers'[Store!Other(b)]
      <4>1. ASSUME NEW b \in StoreCalls, b # a, HoldsOtherLock(b)' PROVE b \in readers'[Store!Other(b)]
        BY <3>2, <3>5, <4>1 DEF Locks
      <4>2. HoldsOtherLock(a)' => Store!Other(a) # Store!Own(a)
        BY DEF HoldsOtherLock
      <4> QED
        BY <3>3, <4>1, <4>2
    <3>7. \A m \in Mutexes : writer'[m] # Nil => readers'[m] = {}
      BY <3>1, <3>2 DEF Locks
    <3>8. \A b \in StoreCalls : HoldsLock(b)' => writer'[Store!Own(b)] = b
      BY <3>1, <3>4 DEF Locks
    <3> QED
      BY <3>6, <3>7, <3>8 DEF Locks
  <2>4. CASE Store!WriteToken(a)
    BY <2>4 DEF Store!WriteToken, StoreTypes, Locks, HoldsLock, HoldsOtherLock
  <2>5. CASE Store!WriteResult(a)
    BY <2>5 DEF Store!WriteResult, StoreTypes, Locks, HoldsLock, HoldsOtherLock
  <2>6. CASE Store!Unlock(a)
    <3>1. \A b \in StoreCalls \ {a} : HoldsLock(b) => Store!Own(b) # Store!Own(a)
      BY <2>6, LockIsExclusive DEF Store!Unlock, HoldsLock
    <3>2. \A m \in Mutexes : readers'[m] \subseteq readers[m]
      BY <2>6 DEF Store!Unlock, StoreTypes
    <3>3. \A b \in StoreCalls : HoldsLock(b)' => writer'[Store!Own(b)] = b
      BY <2>6, <3>1 DEF Store!Unlock, StoreTypes, Locks, HoldsLock
    <3>4. \A b \in StoreCalls : HoldsOtherLock(b)' => b \in readers'[Store!Other(b)]
      BY <2>6 DEF Store!Unlock, StoreTypes, Locks, HoldsOtherLock
    <3>5. \A m \in Mutexes : writer'[m] # Nil => readers'[m] = {}
      BY <2>6, <3>2 DEF Store!Unlock, StoreTypes, Locks
    <3> QED
      BY <3>3, <3>4, <3>5 DEF Locks, Store!Own, Store!Other, Store!To, Store!From
  <2> QED
    BY <1>2, <2>1, <2>2, <2>3, <2>4, <2>5, <2>6 DEF Store!Step
<1> QED
  BY <1>1, <1>2 DEF Store!Next, Store!Finished

(* Who copies from a client keeps its writers out. *)
LEMMA SourceIsQuiet ==
  ASSUME Store!TokenStoreAssumption, StoreInv, NEW a \in StoreCalls, Op[a].kind = "copy",
         storePc[a] \in {"ready", "half"},
         NEW b \in StoreCalls, b # a, HoldsLock(b)
  PROVE  Store!To(b) # Store!From(a) /\ Store!To(b) # Store!To(a)
<1>1. HoldsLock(a)
  BY DEF HoldsLock
<1>2. Store!Own(a) # Store!Own(b) /\ (HoldsOtherLock(a) => Store!Other(a) # Store!Own(b))
  BY <1>1, LockIsExclusive DEF StoreInv
<1> QED
  BY <1>2 DEF HoldsOtherLock, Store!Own, Store!Other

LEMMA SourceIsWhole ==
  ASSUME Store!TokenStoreAssumption, StoreInv, NEW a \in StoreCalls, Op[a].kind = "copy",
         storePc[a] = "ready"
  PROVE  Whole(Store!From(a))
<1>1. \A b \in StoreCalls : storePc[b] = "half" => Store!To(b) # Store!From(a)
  BY SourceIsQuiet DEF HoldsLock
<1> QED
  BY <1>1, OpTypes DEF StoreInv, Torn

LEMMA OnlyOneWrites ==
  ASSUME Store!TokenStoreAssumption, StoreInv, NEW a \in StoreCalls,
         NEW b \in StoreCalls, a # b, HoldsLock(a), HoldsLock(b)
  PROVE  Store!To(a) # Store!To(b)
  BY LockIsExclusive DEF StoreInv, Store!Own

LEMMA PairsStep ==
  ASSUME Store!TokenStoreAssumption
  PROVE  StoreInv /\ [Store!Next]_(Store!vars) => Torn' /\ HalfWay'
<1> SUFFICES ASSUME StoreInv, [Store!Next]_(Store!vars) PROVE Torn' /\ HalfWay'
  OBVIOUS
<1>1. CASE UNCHANGED Store!vars
  BY <1>1 DEF StoreInv, Torn, HalfWay, Whole, Store!vars
<1>2. ASSUME NEW a \in StoreCalls, Store!Step(a) PROVE Torn' /\ HalfWay'
  <2>1. CASE Store!Read(a) \/ Store!Refuse(a) \/ Store!WantLock(a) \/ Store!Lock(a) \/ Store!LockOther(a) \/ Store!Unlock(a)
    <3>1. UNCHANGED <<tokenID, authResult>>
      BY <2>1 DEF Store!Read, Store!Refuse, Store!WantLock, Store!Lock, Store!LockOther,
        Store!Unlock
    <3>2. \A b \in StoreCalls : storePc'[b] = "half" <=> storePc[b] = "half"
      BY <2>1 DEF Store!Read, Store!Refuse, Store!WantLock, Store!Lock, Store!LockOther,
        Store!Unlock, Store!Goto, StoreInv, StoreTypes
    <3> QED
      BY <3>1, <3>2 DEF StoreInv, Torn, HalfWay, Whole, Store!To, Store!From
  <2>2. CASE Store!WriteToken(a)
    <3> DEFINE new == IF Op[a].kind = "copy" THEN tokenID[Store!From(a)] ELSE a
    <3>1. /\ tokenID' = [tokenID EXCEPT ![Store!To(a)] = new] /\ authResult' = authResult
          /\ storePc' = [storePc EXCEPT ![a] = "half"] /\ HoldsLock(a) /\ Op[a].kind # "read"
      BY <2>2 DEF Store!WriteToken, Store!Goto, HoldsLock
    <3>2. \A c \in Clients \ {Store!To(a)} : tokenID'[c] = tokenID[c]
      BY <3>1 DEF StoreInv, StoreTypes
    <3>3. storePc'[a] = "half" /\ (\A b \in StoreCalls : storePc[b] = "half" => storePc'[b] = "half")
      BY <3>1 DEF StoreInv, StoreTypes
    <3>4. Torn'
      BY <3>1, <3>2, <3>3 DEF StoreInv, Torn, Whole, Store!To
    <3>5. tokenID'[Store!To(a)] = new
      BY <3>1, OpTypes DEF StoreInv, StoreTypes
    <3>6. ASSUME Op[a].kind = "copy"
          PROVE  tokenID'[Store!To(a)] = tokenID'[Store!From(a)] /\ Whole(Store!From(a))'
      <4>1. storePc[a] = "ready"
        BY <2>2, <3>6 DEF Store!WriteToken
      <4>2. tokenID'[Store!From(a)] = tokenID[Store!From(a)]
        BY <3>2, <3>5, <3>6, OpTypes
      <4>3. Whole(Store!From(a))
        BY <3>6, <4>1, SourceIsWhole
      <4> QED
        BY <3>1, <3>5, <3>6, <4>2, <4>3 DEF Whole, Store!From
    <3>7. ASSUME NEW b \in StoreCalls \ {a}, storePc'[b] = "half"
          PROVE  /\ Op[b].kind = "copy" => tokenID'[Store!To(b)] = tokenID'[Store!From(b)] /\ Whole(Store!From(b))'
                 /\ Op[b].kind = "setboth" => tokenID'[Store!To(b)] = b
      <4>1. storePc[b] = "half"
        BY <3>1, <3>7 DEF StoreInv, StoreTypes
      <4>2. HoldsLock(b)
        BY <4>1 DEF HoldsLock
      <4>3. Store!To(b) # Store!To(a)
        BY <3>1, <4>2, OnlyOneWrites
      <4>4. tokenID'[Store!To(b)] = tokenID[Store!To(b)]
        BY <3>2, <4>3, OpTypes
      <4>5. Op[b].kind = "copy" => Store!From(b) # Store!To(a)
        BY <3>1, <4>1, SourceIsQuiet
      <4>6. Op[b].kind = "copy" => tokenID'[Store!From(b)] = tokenID[Store!From(b)]
        BY <3>2, <4>5, OpTypes
      <4> QED
        BY <3>1, <4>1, <4>4, <4>6 DEF StoreInv, HalfWay, Whole, Store!From
    <3>8. Op[a].kind = "setboth" => tokenID'[Store!To(a)] = a
      BY <3>5
    <3> QED
      BY <3>4, <3>6, <3>7, <3>8 DEF HalfWay, Store!To, Store!From, Whole
  <2>3. CASE Store!WriteResult(a)
    <3>1. /\ authResult' = [authResult EXCEPT ![Store!To(a)] = Store!Coming(a)] /\ tokenID' = tokenID
          /\ storePc' = [storePc EXCEPT ![a] = "written"] /\ storePc[a] = "half" /\ HoldsLock(a)
      BY <2>3 DEF Store!WriteResult, Store!Goto, Store!Coming, HoldsLock
    <3>2. \A c \in Clients \ {Store!To(a)} : authResult'[c] = authResult[c]
      BY <3>1 DEF StoreInv, StoreTypes
    <3>3. authResult'[Store!To(a)] = Store!Coming(a)
      BY <3>1, OpTypes DEF StoreInv, StoreTypes
    <3>4. Store!Coming(a) \in {tokenID[Store!To(a)], Nil}
      BY <3>1, OpTypes DEF StoreInv, HalfWay, Store!Coming, Whole
    <3>5. \A b \in StoreCalls : storePc'[b] = "half" <=> storePc[b] = "half" /\ b # a
      BY <3>1 DEF StoreInv, StoreTypes
    <3>6. Torn'
      <4>1. \A c \in Clients \ {Store!To(a)} : Whole(c)' \/ \E b \in StoreCalls : Store!To(b) = c /\ storePc'[b] = "half"
        BY <3>1, <3>2, <3>5 DEF StoreInv, Torn, Whole
      <4>2. Whole(Store!To(a))'
        BY <3>1, <3>3, <3>4 DEF Whole, Store!To
      <4> QED
        BY <4>1, <4>2 DEF Torn, Store!To, Whole
    <3>7. ASSUME NEW b \in StoreCalls, storePc'[b] = "half"
          PROVE  /\ Op[b].kind = "copy" => tokenID'[Store!To(b)] = tokenID'[Store!From(b)] /\ Whole(Store!From(b))'
                 /\ Op[b].kind = "setboth" => tokenID'[Store!To(b)] = b
      <4>1. storePc[b] = "half" /\ b # a
        BY <3>5, <3>7
      <4>2. Op[b].kind = "copy" => Store!From(b) # Store!To(a)
        BY <3>1, <4>1, SourceIsQuiet
      <4>3. Op[b].kind = "copy" => authResult'[Store!From(b)] = authResult[Store!From(b)]
        BY <3>2, <4>2, OpTypes
      <4> QED
        BY <3>1, <4>1, <4>3 DEF StoreInv, HalfWay, Whole, Store!From
    <3> QED
      BY <3>6, <3>7 DEF HalfWay, Store!To, Store!From, Whole
  <2> QED
    BY <1>2, <2>1, <2>2, <2>3 DEF Store!Step
<1> QED
  BY <1>1, <1>2 DEF Store!Next, Store!Finished

LEMMA StoreInvStep ==
  ASSUME Store!TokenStoreAssumption
  PROVE  StoreInv /\ [Store!Next]_(Store!vars) => StoreInv'
  BY StoreTypesStep, LocksStep, PairsStep DEF StoreInv

LEMMA StoreInvAlways ==
  ASSUME Store!TokenStoreAssumption
  PROVE  Store!Spec => []StoreInv
  BY StoreInvInit, StoreInvStep, PTL DEF Store!Spec

-----------------------------------------------------------------------------
(* CopyTokenFrom and the setters of the token never leave a client, seen    *)
(* under its mutex, with the token of one authentication and the result of  *)
(* another, whatever clients share whatever mutexes.                        *)
THEOREM NoTornPair ==
  ASSUME Store!TokenStoreAssumption
  PROVE  Store!Spec => []Store!ResultBelongsToToken
<1>1. StoreInv => Store!ResultBelongsToToken
  BY DEF Store!TokenStoreAssumption, StoreInv, Locks, Torn, Whole, HoldsLock, Store!Own,
    Store!ResultBelongsToToken
<1> QED
  BY <1>1, StoreInvAlways, PTL

-----------------------------------------------------------------------------
(* The refinement of TokenPairs. *)
PairMap == [c \in Clients |-> Store!Pair(c)]
OpenCalls == {a \in StoreCalls : storePc[a] \in {"start", "locking", "locked", "ready"}}

LEMMA PairAtRest ==
  ASSUME Store!TokenStoreAssumption, NEW c \in Clients,
         \A a \in StoreCalls : storePc[a] = "half" => Store!To(a) # c
  PROVE  Store!Pair(c) = [token |-> tokenID[c], result |-> authResult[c]]
<1>1. Store!Writing(c) = {}
  BY DEF Store!Writing
<1> QED
  BY <1>1 DEF Store!Pair

LEMMA PairHalfWay ==
  ASSUME Store!TokenStoreAssumption, NEW a \in StoreCalls, Store!Writing(Store!To(a)) = {a}
  PROVE  Store!Pair(Store!To(a)) = [token |-> tokenID[Store!To(a)], result |-> Store!Coming(a)]
<1>1. (CHOOSE x \in Store!Writing(Store!To(a)) : TRUE) = a
  BY Zenon
<1> QED
  BY <1>1 DEF Store!Pair

LEMMA OneWriter ==
  ASSUME Store!TokenStoreAssumption, StoreInv, NEW a \in StoreCalls, storePc[a] = "half"
  PROVE  Store!Writing(Store!To(a)) = {a}
<1>1. \A b \in StoreCalls : storePc[b] = "half" /\ Store!To(b) = Store!To(a) => b = a
  BY OnlyOneWrites DEF HoldsLock
<1> QED
  BY <1>1 DEF Store!Writing

LEMMA InitPairs ==
  ASSUME Store!TokenStoreAssumption
  PROVE  Store!Init => Store!Pairs!Init
<1> SUFFICES ASSUME Store!Init PROVE Store!Pairs!Init
  OBVIOUS
<1>1. \A c \in Clients : Store!Pair(c) = [token |-> c, result |-> c]
  BY PairAtRest DEF Store!Init
<1>2. OpenCalls = StoreCalls
  BY DEF Store!Init, OpenCalls
<1> QED
  BY <1>1, <1>2 DEF Store!Pairs!Init, OpenCalls, PairMap

(* The steps that neither write nor end a call without writing. *)
LEMMA LockingIsInvisible ==
  ASSUME Store!TokenStoreAssumption, StoreInv, NEW a \in StoreCalls,
         Store!WantLock(a) \/ Store!Lock(a) \/ Store!LockOther(a) \/ Store!Unlock(a)
  PROVE  PairMap' = PairMap /\ OpenCalls' = OpenCalls
<1>1. UNCHANGED <<tokenID, authResult>>
  BY DEF Store!WantLock, Store!Lock, Store!LockOther, Store!Unlock
<1>2. \A b \in StoreCalls :
        /\ storePc'[b] = "half" <=> storePc[b] = "half"
        /\ storePc'[b] \in {"start", "locking", "locked", "ready"}
             <=> storePc[b] \in {"start", "locking", "locked", "ready"}
  BY DEF Store!WantLock, Store!Lock, Store!LockOther, Store!Unlock, Store!Goto, StoreInv,
    StoreTypes
<1>3. OpenCalls' = OpenCalls
  BY <1>2 DEF OpenCalls
<1>4. \A c \in Clients : Store!Writing(c)' = Store!Writing(c)
  BY <1>2 DEF Store!Writing, Store!To
<1>5. \A b : Store!Coming(b)' = Store!Coming(b)
  BY <1>1 DEF Store!Coming, Store!From
<1>6. ASSUME NEW c \in Clients PROVE Store!Pair(c)' = Store!Pair(c)
  <2>1. Store!Writing(c)' = Store!Writing(c) /\ tokenID'[c] = tokenID[c] /\ authResult'[c] = authResult[c]
    BY <1>1, <1>4
  <2> QED
    BY <1>5, <2>1 DEF Store!Pair
<1> QED
  BY <1>3, <1>6 DEF PairMap

(* Token and GetAuthResult, and a result without a token. *)
LEMMA LeavingIsLeave ==
  ASSUME Store!TokenStoreAssumption, StoreInv, NEW a \in StoreCalls,
         Store!Read(a) \/ Store!Refuse(a)
  PROVE  /\ PairMap' = PairMap /\ a \in OpenCalls /\ OpenCalls' = OpenCalls \ {a}
         /\ Op[a].kind \in {"read", "setboth"}
<1>1. UNCHANGED <<tokenID, authResult>> /\ storePc[a] = "start" /\ storePc' = [storePc EXCEPT ![a] = "done"]
  BY DEF Store!Read, Store!Refuse, Store!Goto
<1>2. OpenCalls' = OpenCalls \ {a} /\ a \in OpenCalls
  BY <1>1 DEF OpenCalls, StoreInv, StoreTypes
<1>3. \A c \in Clients : Store!Writing(c)' = Store!Writing(c)
  BY <1>1 DEF Store!Writing, Store!To, StoreInv, StoreTypes
<1>4. \A b : Store!Coming(b)' = Store!Coming(b)
  BY <1>1 DEF Store!Coming, Store!From
<1>5. ASSUME NEW c \in Clients PROVE Store!Pair(c)' = Store!Pair(c)
  <2>1. Store!Writing(c)' = Store!Writing(c) /\ tokenID'[c] = tokenID[c] /\ authResult'[c] = authResult[c]
    BY <1>1, <1>3
  <2> QED
    BY <1>4, <2>1 DEF Store!Pair
<1> QED
  BY <1>2, <1>5 DEF PairMap, Store!Read, Store!Refuse

(* The second assignment completes what the first has announced. *)
LEMMA ResultWasAnnounced ==
  ASSUME Store!TokenStoreAssumption, StoreInv, NEW a \in StoreCalls, Store!WriteResult(a)
  PROVE  PairMap' = PairMap /\ OpenCalls' = OpenCalls
<1>1. /\ authResult' = [authResult EXCEPT ![Store!To(a)] = Store!Coming(a)] /\ tokenID' = tokenID
      /\ storePc' = [storePc EXCEPT ![a] = "written"] /\ storePc[a] = "half" /\ HoldsLock(a)
  BY DEF Store!WriteResult, Store!Goto, Store!Coming, HoldsLock
<1>2. \A b \in StoreCalls : storePc'[b] = "half" <=> storePc[b] = "half" /\ b # a
  BY <1>1 DEF StoreInv, StoreTypes
<1>3. OpenCalls' = OpenCalls
  BY <1>1 DEF OpenCalls, StoreInv, StoreTypes
<1>4. Store!Writing(Store!To(a)) = {a}
  BY <1>1, OneWriter
<1>5. Store!Pair(Store!To(a))' = Store!Pair(Store!To(a))
  <2>1. Store!Writing(Store!To(a))' = {}
    BY <1>2, <1>4 DEF Store!Writing, Store!To
  <2>2. authResult'[Store!To(a)] = Store!Coming(a)
    BY <1>1, OpTypes DEF StoreInv, StoreTypes
  <2>3. Store!Pair(Store!To(a))' = [token |-> tokenID[Store!To(a)], result |-> Store!Coming(a)]
    BY <1>1, <2>1, <2>2 DEF Store!Pair, Store!To
  <2> QED
    BY <1>4, <2>3, PairHalfWay
<1>6. ASSUME NEW c \in Clients \ {Store!To(a)} PROVE Store!Pair(c)' = Store!Pair(c)
  <2>1. Store!Writing(c)' = Store!Writing(c)
    BY <1>2 DEF Store!Writing, Store!To
  <2>2. authResult'[c] = authResult[c]
    BY <1>1 DEF StoreInv, StoreTypes
  <2>3. \A b \in Store!Writing(c) : Store!Coming(b)' = Store!Coming(b)
    <3> SUFFICES ASSUME NEW b \in Store!Writing(c) PROVE Store!Coming(b)' = Store!Coming(b)
      OBVIOUS
    <3>1. b \in StoreCalls /\ storePc[b] = "half" /\ b # a
      BY DEF Store!Writing
    <3>2. Op[b].kind = "copy" => Store!From(b) # Store!To(a)
      BY <1>1, <3>1, SourceIsQuiet
    <3>3. Op[b].kind = "copy" => authResult'[Store!From(b)] = authResult[Store!From(b)]
      BY <1>1, <3>1, <3>2, OpTypes DEF StoreInv, StoreTypes
    <3> QED
      BY <3>3 DEF Store!Coming, Store!From
  <2>4. Store!Writing(c) # {} => (CHOOSE b \in Store!Writing(c) : TRUE) \in Store!Writing(c)
    BY Zenon
  <2> QED
    BY <1>1, <2>1, <2>2, <2>3, <2>4 DEF Store!Pair
<1> QED
  BY <1>3, <1>5, <1>6, OpTypes DEF PairMap, Store!To

(* The first assignment is the moment at which a call takes effect. *)
LEMMA WritingTakesEffect ==
  ASSUME Store!TokenStoreAssumption, StoreInv, NEW a \in StoreCalls, Store!WriteToken(a)
  PROVE  /\ a \in OpenCalls /\ OpenCalls' = OpenCalls \ {a} /\ Op[a].kind # "read"
         /\ PairMap' = [PairMap EXCEPT ![Store!To(a)] =
              CASE Op[a].kind = "copy" -> PairMap[Store!From(a)]
                [] Op[a].kind = "setboth" -> [token |-> a, result |-> a]
                [] OTHER -> [token |-> a, result |-> Nil]]
<1> DEFINE new == IF Op[a].kind = "copy" THEN tokenID[Store!From(a)] ELSE a
<1>1. /\ tokenID' = [tokenID EXCEPT ![Store!To(a)] = new] /\ authResult' = authResult
      /\ storePc' = [storePc EXCEPT ![a] = "half"] /\ HoldsLock(a) /\ Op[a].kind # "read"
      /\ storePc[a] \in {"ready", "locked"} /\ (Op[a].kind = "copy" => storePc[a] = "ready")
  BY DEF Store!WriteToken, Store!Goto, HoldsLock
<1>2. \A b \in StoreCalls : storePc'[b] = "half" <=> storePc[b] = "half" \/ b = a
  BY <1>1 DEF StoreInv, StoreTypes
<1>3. a \in OpenCalls /\ OpenCalls' = OpenCalls \ {a}
  BY <1>1 DEF OpenCalls, StoreInv, StoreTypes
<1>4. \A b : Store!Coming(b)' = Store!Coming(b)
  BY <1>1 DEF Store!Coming, Store!From
<1>5. \A b \in StoreCalls : storePc[b] = "half" => Store!To(b) # Store!To(a)
  BY <1>1, OnlyOneWrites DEF HoldsLock
<1>6. Store!Writing(Store!To(a))' = {a}
  BY <1>2, <1>5 DEF Store!Writing, Store!To
<1>7. Store!Pair(Store!To(a))' = [token |-> new, result |-> Store!Coming(a)]
  <2>1. (CHOOSE x \in {a} : TRUE) = a
    BY Zenon
  <2>2. tokenID'[Store!To(a)] = new
    BY <1>1, OpTypes DEF StoreInv, StoreTypes
  <2> QED
    BY <1>4, <1>6, <2>1, <2>2 DEF Store!Pair, Store!To
<1>8. ASSUME NEW c \in Clients \ {Store!To(a)} PROVE Store!Pair(c)' = Store!Pair(c)
  <2>1. Store!Writing(c)' = Store!Writing(c)
    BY <1>2 DEF Store!Writing, Store!To
  <2>2. tokenID'[c] = tokenID[c]
    BY <1>1 DEF StoreInv, StoreTypes
  <2> QED
    BY <1>1, <1>4, <2>1, <2>2 DEF Store!Pair
<1>9. Op[a].kind = "copy" => PairMap[Store!From(a)] = [token |-> new, result |-> Store!Coming(a)]
  <2> SUFFICES ASSUME Op[a].kind = "copy"
               PROVE  PairMap[Store!From(a)] = [token |-> new, result |-> Store!Coming(a)]
    OBVIOUS
  <2>1. \A b \in StoreCalls : storePc[b] = "half" => Store!To(b) # Store!From(a)
    BY <1>1, SourceIsQuiet DEF HoldsLock
  <2>2. Store!Pair(Store!From(a)) = [token |-> tokenID[Store!From(a)], result |-> authResult[Store!From(a)]]
    BY <2>1, PairAtRest, OpTypes
  <2> QED
    BY <2>2, OpTypes DEF PairMap, Store!Coming
<1>10. Store!Pair(Store!To(a))' = CASE Op[a].kind = "copy" -> PairMap[Store!From(a)]
                        [] Op[a].kind = "setboth" -> [token |-> a, result |-> a]
                        [] OTHER -> [token |-> a, result |-> Nil]
  BY <1>7, <1>9 DEF Store!Coming
<1> QED
  BY <1>1, <1>3, <1>8, <1>10, OpTypes DEF PairMap, Store!To

LEMMA StepIsCall ==
  ASSUME Store!TokenStoreAssumption
  PROVE  StoreInv /\ [Store!Next]_(Store!vars) => [Store!Pairs!Next]_(Store!Pairs!pairVars)
<1> SUFFICES ASSUME StoreInv, [Store!Next]_(Store!vars) PROVE Store!Pairs!Next \/ UNCHANGED <<PairMap, OpenCalls>>
  BY DEF Store!Pairs!pairVars, PairMap, OpenCalls
<1>1. CASE UNCHANGED Store!vars
  BY <1>1 DEF PairMap, Store!Pair, OpenCalls, Store!Writing, Store!Coming, Store!To,
    Store!From, Store!vars
<1>2. ASSUME NEW a \in StoreCalls, Store!Step(a) PROVE Store!Pairs!Next \/ UNCHANGED <<PairMap, OpenCalls>>
  <2>1. CASE Store!WantLock(a) \/ Store!Lock(a) \/ Store!LockOther(a) \/ Store!Unlock(a)
    BY <2>1, LockingIsInvisible
  <2>2. CASE Store!WriteResult(a)
    BY <2>2, ResultWasAnnounced
  <2>3. CASE Store!Read(a) \/ Store!Refuse(a)
    <3>1. Store!Pairs!Call(a)
      BY <2>3, LeavingIsLeave DEF Store!Pairs!Call, Store!Pairs!Leave, PairMap, OpenCalls
    <3> QED
      BY <3>1 DEF Store!Pairs!Next
  <2>4. CASE Store!WriteToken(a)
    <3>1. Store!Pairs!Write(a)
      BY <2>4, WritingTakesEffect DEF Store!Pairs!Write, Store!Pairs!Effect, PairMap,
        Store!To, Store!From
    <3>2. Store!Pairs!Call(a)
      BY <2>4, <3>1, WritingTakesEffect DEF Store!Pairs!Call, OpenCalls
    <3> QED
      BY <3>2 DEF Store!Pairs!Next
  <2> QED
    BY <1>2, <2>1, <2>2, <2>3, <2>4 DEF Store!Step
<1> QED
  BY <1>1, <1>2 DEF Store!Next, Store!Finished

(* SetToken, SetTokenAndAuthResult and CopyTokenFrom, interleaved lock by   *)
(* lock and assignment by assignment, take effect as if each were one step. *)
THEOREM TokenPairsImplemented ==
  ASSUME Store!TokenStoreAssumption
  PROVE  Store!Spec => Store!ImplementsTokenPairs
<1> QED
  BY InitPairs, StepIsCall, StoreInvAlways, PTL DEF Store!Spec,
    Store!ImplementsTokenPairs, Store!Pairs!Spec
=============================================================================
