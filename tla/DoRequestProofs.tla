-------------------------- MODULE DoRequestProofs ---------------------------
(***************************************************************************)
(* Theorems about DoRequest for every limit of the backoffs and however    *)
(* often RetryFunc agrees.                                                 *)
(***************************************************************************)
EXTENDS DoRequest, TLAPS

(* The bookkeeping behind the bounds: what the history says of the attempts *)
(* at every place of the loop.                                              *)
Reauths ==
  /\ reauths <= 1
  /\ pc # "done" /\ ~state.hasReauth => reauths = 0
  /\ pc = "reauth" => ~state.hasReauth

Backoffs ==
  /\ backoffs <= state.retries /\ backoffs <= MaxTries
  /\ pc = "backoff" => backoffs < state.retries /\ backoffs < MaxTries

Attempts ==
  ~client.retry =>
    /\ pc # "retry"
    /\ pc \in {"build", "send"} => attempts = backoffs + reauths
    /\ pc \in {"reply", "reauth", "backoff"} =>
         attempts = backoffs + reauths + 1
    /\ attempts <= backoffs + reauths + 1

Failures ==
  LET due == state.retries + reauths IN
  /\ pc \in {"build", "send", "backoff"} => failures = due
  /\ pc = "reply" => failures = IF reply \in Good THEN due ELSE due + 1
  /\ pc \in {"reauth", "retry"} => failures = due + 1

(* A body is open while its response is looked at, or until a deferred      *)
(* Close.                                                                   *)
OpenBodies ==
  /\ pc \notin {"build", "done"} => ~(opts.keep /\ opts.json)
  /\ pc # "done" => open = deferred + (IF pc = "reply" THEN 1 ELSE 0)

(* Where the readers that can be rewound stand when an attempt is made.     *)
Readers ==
  /\ opts.body \notin Raw => reader = "start"
  /\ opts.body = "file" => reader # "end"
  /\ pc \in {"build", "send"} /\ fresh /\ opts.body # "stream" => reader = "start"

IInv ==
  /\ TypeOK
  /\ Reauths /\ Backoffs /\ Attempts /\ RetriesCountFailures /\ Failures
  /\ OpenBodies /\ BodiesClosed
  /\ Readers /\ RefreshedAttemptIsWhole

LEMMA MaxTriesNat == TypeOK => MaxTries \in Nat
  BY DoRequestAssumption DEF TypeOK, MaxTries

LEMMA InitIInv == Init => IInv
<1> SUFFICES ASSUME Init PROVE IInv
  OBVIOUS
<1>1. whole \in BOOLEAN /\ fresh \in BOOLEAN
  BY Zenon DEF Init
<1>2. TypeOK
  BY <1>1 DEF Init, TypeOK, Bodies, Raw, Replies, Ends
<1> QED
  BY <1>2, MaxTriesNat DEF Init, IInv, Reauths, Backoffs, Attempts, RetriesCountFailures,
    Failures, OpenBodies, BodiesClosed, Readers, RefreshedAttemptIsWhole

(* The two Boolean variables by themselves. *)
LEMMA FlagsStep ==
  TypeOK /\ [Next]_vars => whole' \in BOOLEAN /\ fresh' \in BOOLEAN
<1> SUFFICES ASSUME whole \in BOOLEAN, fresh \in BOOLEAN, [Next]_vars
             PROVE  whole' \in BOOLEAN /\ fresh' \in BOOLEAN
  BY DEF TypeOK
<1>1. CASE Build
  BY <1>1, Zenon DEF Build, Return
<1>2. CASE Respond
  BY <1>2, Zenon DEF Respond, Spent
<1>3. CASE TransportFails
  BY <1>3, Zenon DEF TransportFails, Return, Spent
<1>4. CASE Rejected
  BY <1>4, Zenon DEF Rejected, Return
<1>5. CASE ReauthFails
  BY <1>5, Zenon DEF ReauthFails, Return
<1>6. CASE Reauthenticated
  BY <1>6, Zenon DEF Reauthenticated, Return, Rewound
<1>7. CASE BackOff
  BY <1>7, Zenon DEF BackOff, Return
<1>8. CASE AskRetryFunc
  BY <1>8, Zenon DEF AskRetryFunc, Return
<1>9. CASE Decode
  BY <1>9, Zenon DEF Decode, Return
<1>10. CASE Deliver
  BY <1>10, Zenon DEF Deliver, Return
<1>11. CASE UNCHANGED vars
  BY <1>11, Zenon DEF vars, history
<1> QED
  BY <1>1, <1>2, <1>3, <1>4, <1>5, <1>6, <1>7, <1>8, <1>9, <1>10, <1>11 DEF Next, Finished

(* And everything else. *)
TypeRest ==
  /\ client \in [reauth : BOOLEAN, backoff : BOOLEAN, retry : BOOLEAN, maxBackoff : MaxBackoffs]
  /\ opts \in [body : Bodies, json : BOOLEAN, keep : BOOLEAN]
  /\ pc \in {"build", "send", "reply", "reauth", "backoff", "retry", "done"}
  /\ state \in [hasReauth : BOOLEAN, retries : Nat]
  /\ reader \in {"start", "end", "closed"}
  /\ reply \in Replies \cup {"none"}
  /\ open \in Nat
  /\ deferred \in Nat
  /\ result \in [end : Ends, wrapped : BOOLEAN]
  /\ attempts \in Nat /\ failures \in Nat /\ backoffs \in Nat /\ reauths \in Nat

LEMMA ReaderTypes ==
  TypeRest => Spent(opts.body) \in {"start", "end", "closed"} /\ Rewound \in {"start", "end", "closed"}
<1> SUFFICES ASSUME TypeRest
             PROVE  Spent(opts.body) \in {"start", "end", "closed"} /\ Rewound \in {"start", "end", "closed"}
  OBVIOUS
<1>1. Spent(opts.body) \in {"start", "end", "closed"}
  BY DEF Spent
<1>2. Rewound \in {"start", "end", "closed"}
  BY DEF Rewound, TypeRest
<1> QED
  BY <1>1, <1>2

LEMMA TypeStep == TypeOK /\ OpenBodies /\ [Next]_vars => TypeOK'
<1> SUFFICES ASSUME TypeRest, OpenBodies, [Next]_vars PROVE TypeRest'
  BY FlagsStep DEF TypeOK, TypeRest
<1> USE DEF TypeRest, OpenBodies, input, history, Bodies, Raw, Replies, Ends, Good
<1>1. CASE Build
  BY <1>1 DEF Build, Return
<1>2. CASE Respond
  BY <1>2, ReaderTypes DEF Respond
<1>3. CASE TransportFails
  BY <1>3, ReaderTypes DEF TransportFails, Return
<1>4. CASE Rejected
  BY <1>4 DEF Rejected, Return
<1>5. CASE ReauthFails
  BY <1>5 DEF ReauthFails, Return
<1>6. CASE Reauthenticated
  <2>1. CASE opts.body = "file" /\ reader = "closed"
    BY <1>6, <2>1 DEF Reauthenticated, Return
  <2>2. CASE ~(opts.body = "file" /\ reader = "closed")
    <3>1. state' \in [hasReauth : BOOLEAN, retries : Nat]
      BY <1>6, <2>2 DEF Reauthenticated
    <3>2. UNCHANGED <<input, reply, attempts, failures, backoffs, open, deferred, result>>
      BY <1>6, <2>2 DEF Reauthenticated
    <3>3. reader' \in {"start", "end", "closed"} /\ pc' = "build" /\ reauths' = reauths + 1
      BY <1>6, <2>2, ReaderTypes DEF Reauthenticated
    <3> QED
      BY <3>1, <3>2, <3>3
  <2> QED
    BY <2>1, <2>2
<1>7. CASE BackOff
  BY <1>7 DEF BackOff, Return
<1>8. CASE AskRetryFunc
  BY <1>8 DEF AskRetryFunc, Return
<1>9. CASE Decode
  BY <1>9 DEF Decode, Return
<1>10. CASE Deliver
  BY <1>10 DEF Deliver, Return
<1>11. CASE UNCHANGED vars
  BY <1>11 DEF vars, history
<1> QED
  BY <1>1, <1>2, <1>3, <1>4, <1>5, <1>6, <1>7, <1>8, <1>9, <1>10, <1>11 DEF Next, Finished

LEMMA ReauthsStep == IInv /\ [Next]_vars => Reauths'
<1> SUFFICES ASSUME IInv, [Next]_vars PROVE Reauths'
  OBVIOUS
<1> USE DEF IInv, TypeOK, input, history, Reauths
<1>1. CASE Build
  BY <1>1 DEF Build, Return
<1>2. CASE Respond
  BY <1>2 DEF Respond, Spent
<1>3. CASE TransportFails
  BY <1>3 DEF TransportFails, Return, Spent
<1>4. CASE Rejected
  BY <1>4 DEF Rejected, Return, MustReauthenticate
<1>5. CASE ReauthFails
  BY <1>5 DEF ReauthFails, Return
<1>6. CASE Reauthenticated
  BY <1>6 DEF Reauthenticated, Return, Rewound
<1>7. CASE BackOff
  BY <1>7 DEF BackOff, Return
<1>8. CASE AskRetryFunc
  BY <1>8 DEF AskRetryFunc, Return
<1>9. CASE Decode
  BY <1>9 DEF Decode, Return
<1>10. CASE Deliver
  BY <1>10 DEF Deliver, Return
<1>11. CASE UNCHANGED vars
  BY <1>11 DEF vars, history
<1> QED
  BY <1>1, <1>2, <1>3, <1>4, <1>5, <1>6, <1>7, <1>8, <1>9, <1>10, <1>11 DEF Next, Finished

LEMMA BackoffsStep == IInv /\ [Next]_vars => Backoffs'
<1> SUFFICES ASSUME IInv, [Next]_vars PROVE Backoffs'
  OBVIOUS
<1> USE MaxTriesNat DEF IInv, TypeOK, input, history, Backoffs, MaxTries
<1>1. CASE Build
  BY <1>1 DEF Build, Return
<1>2. CASE Respond
  BY <1>2 DEF Respond, Spent
<1>3. CASE TransportFails
  BY <1>3 DEF TransportFails, Return, Spent
<1>4. CASE Rejected
  BY <1>4 DEF Rejected, Return, MayBackOff
<1>5. CASE ReauthFails
  BY <1>5 DEF ReauthFails, Return
<1>6. CASE Reauthenticated
  BY <1>6 DEF Reauthenticated, Return, Rewound
<1>7. CASE BackOff
  BY <1>7 DEF BackOff, Return
<1>8. CASE AskRetryFunc
  BY <1>8 DEF AskRetryFunc, Return
<1>9. CASE Decode
  BY <1>9 DEF Decode, Return
<1>10. CASE Deliver
  BY <1>10 DEF Deliver, Return
<1>11. CASE UNCHANGED vars
  BY <1>11 DEF vars, history
<1> QED
  BY <1>1, <1>2, <1>3, <1>4, <1>5, <1>6, <1>7, <1>8, <1>9, <1>10, <1>11 DEF Next, Finished

LEMMA AttemptsStep == IInv /\ [Next]_vars => (Attempts /\ AttemptsBounded)'
<1> SUFFICES ASSUME IInv, [Next]_vars PROVE (Attempts /\ AttemptsBounded)'
  OBVIOUS
<1> USE MaxTriesNat DEF IInv, TypeOK, input, history, Reauths, Backoffs, Attempts, AttemptsBounded, MaxTries
<1>1. CASE Build
  BY <1>1 DEF Build, Return
<1>2. CASE Respond
  BY <1>2 DEF Respond, Spent
<1>3. CASE TransportFails
  BY <1>3 DEF TransportFails, Return, Spent
<1>4. CASE Rejected
  BY <1>4 DEF Rejected, Return
<1>5. CASE ReauthFails
  BY <1>5 DEF ReauthFails, Return
<1>6. CASE Reauthenticated
  BY <1>6 DEF Reauthenticated, Return, Rewound
<1>7. CASE BackOff
  BY <1>7 DEF BackOff, Return
<1>8. CASE AskRetryFunc
  BY <1>8 DEF AskRetryFunc, Return
<1>9. CASE Decode
  BY <1>9 DEF Decode, Return
<1>10. CASE Deliver
  BY <1>10 DEF Deliver, Return
<1>11. CASE UNCHANGED vars
  BY <1>11 DEF vars, history
<1> QED
  BY <1>1, <1>2, <1>3, <1>4, <1>5, <1>6, <1>7, <1>8, <1>9, <1>10, <1>11 DEF Next, Finished

LEMMA FailuresStep == IInv /\ [Next]_vars => (Failures /\ RetriesCountFailures)'
<1> SUFFICES ASSUME IInv, [Next]_vars PROVE (Failures /\ RetriesCountFailures)'
  OBVIOUS
<1> USE DEF IInv, TypeOK, input, history, Reauths, Failures, RetriesCountFailures, Good
<1>1. CASE Build
  BY <1>1 DEF Build, Return
<1>2. CASE Respond
  BY <1>2 DEF Respond, Spent
<1>3. CASE TransportFails
  BY <1>3 DEF TransportFails, Return, Spent
<1>4. CASE Rejected
  BY <1>4 DEF Rejected, Return, MustReauthenticate, MayBackOff
<1>5. CASE ReauthFails
  BY <1>5 DEF ReauthFails, Return
<1>6. CASE Reauthenticated
  BY <1>6 DEF Reauthenticated, Return, Rewound
<1>7. CASE BackOff
  BY <1>7 DEF BackOff, Return
<1>8. CASE AskRetryFunc
  BY <1>8 DEF AskRetryFunc, Return
<1>9. CASE Decode
  BY <1>9 DEF Decode, Return
<1>10. CASE Deliver
  BY <1>10 DEF Deliver, Return
<1>11. CASE UNCHANGED vars
  BY <1>11 DEF vars, history
<1> QED
  BY <1>1, <1>2, <1>3, <1>4, <1>5, <1>6, <1>7, <1>8, <1>9, <1>10, <1>11 DEF Next, Finished

LEMMA BodiesStep == IInv /\ [Next]_vars => (OpenBodies /\ BodiesClosed)'
<1> SUFFICES ASSUME IInv, [Next]_vars PROVE (OpenBodies /\ BodiesClosed)'
  OBVIOUS
<1> USE DEF IInv, TypeOK, input, history, OpenBodies, BodiesClosed, Good
<1>1. CASE Build
  BY <1>1 DEF Build, Return
<1>2. CASE Respond
  BY <1>2 DEF Respond, Spent
<1>3. CASE TransportFails
  BY <1>3 DEF TransportFails, Return, Spent
<1>4. CASE Rejected
  BY <1>4 DEF Rejected, Return
<1>5. CASE ReauthFails
  BY <1>5 DEF ReauthFails, Return
<1>6. CASE Reauthenticated
  BY <1>6 DEF Reauthenticated, Return, Rewound
<1>7. CASE BackOff
  BY <1>7 DEF BackOff, Return
<1>8. CASE AskRetryFunc
  BY <1>8 DEF AskRetryFunc, Return
<1>9. CASE Decode
  BY <1>9 DEF Decode, Return
<1>10. CASE Deliver
  BY <1>10 DEF Deliver, Return
<1>11. CASE UNCHANGED vars
  BY <1>11 DEF vars, history
<1> QED
  BY <1>1, <1>2, <1>3, <1>4, <1>5, <1>6, <1>7, <1>8, <1>9, <1>10, <1>11 DEF Next, Finished

LEMMA ReadersStep == IInv /\ [Next]_vars => (Readers /\ RefreshedAttemptIsWhole)'
<1> SUFFICES ASSUME IInv, [Next]_vars PROVE (Readers /\ RefreshedAttemptIsWhole)'
  OBVIOUS
<1> USE DEF IInv, TypeOK, input, history, Readers, RefreshedAttemptIsWhole, Raw, Bodies
<1>1. CASE Build
  BY <1>1 DEF Build, Return
<1>2. CASE Respond
  BY <1>2 DEF Respond, Spent
<1>3. CASE TransportFails
  BY <1>3 DEF TransportFails, Return, Spent
<1>4. CASE Rejected
  BY <1>4 DEF Rejected, Return
<1>5. CASE ReauthFails
  BY <1>5 DEF ReauthFails, Return
<1>6. CASE Reauthenticated
  BY <1>6 DEF Reauthenticated, Return, Rewound
<1>7. CASE BackOff
  BY <1>7 DEF BackOff, Return
<1>8. CASE AskRetryFunc
  BY <1>8 DEF AskRetryFunc, Return
<1>9. CASE Decode
  BY <1>9 DEF Decode, Return
<1>10. CASE Deliver
  BY <1>10 DEF Deliver, Return
<1>11. CASE UNCHANGED vars
  BY <1>11 DEF vars, history
<1> QED
  BY <1>1, <1>2, <1>3, <1>4, <1>5, <1>6, <1>7, <1>8, <1>9, <1>10, <1>11 DEF Next, Finished

LEMMA LastWordStep == IInv /\ RetryFuncHasLastWord /\ [Next]_vars => RetryFuncHasLastWord'
<1> SUFFICES ASSUME IInv, RetryFuncHasLastWord, [Next]_vars PROVE RetryFuncHasLastWord'
  OBVIOUS
<1> USE DEF IInv, TypeOK, input, history, RetryFuncHasLastWord
<1>1. CASE Build
  BY <1>1 DEF Build, Return
<1>2. CASE Respond
  BY <1>2 DEF Respond
<1>3. CASE TransportFails
  BY <1>3 DEF TransportFails, Return
<1>4. CASE Rejected
  BY <1>4 DEF Rejected, Return
<1>5. CASE ReauthFails
  BY <1>5 DEF ReauthFails, Return
<1>6. CASE Reauthenticated
  BY <1>6 DEF Reauthenticated, Return
<1>7. CASE BackOff
  BY <1>7 DEF BackOff, Return
<1>8. CASE AskRetryFunc
  BY <1>8 DEF AskRetryFunc, Return
<1>9. CASE Decode
  BY <1>9 DEF Decode, Return
<1>10. CASE Deliver
  BY <1>10 DEF Deliver, Return
<1>11. CASE UNCHANGED vars
  BY <1>11 DEF vars
<1> QED
  BY <1>1, <1>2, <1>3, <1>4, <1>5, <1>6, <1>7, <1>8, <1>9, <1>10, <1>11 DEF Next, Finished

LEMMA IInvStep == IInv /\ [Next]_vars => IInv'
<1> SUFFICES ASSUME IInv, [Next]_vars PROVE IInv'
  OBVIOUS
<1>1. TypeOK'
  BY TypeStep DEF IInv
<1>2. Reauths' /\ Backoffs'
  BY ReauthsStep, BackoffsStep
<1>3. (Attempts /\ AttemptsBounded)' /\ (Failures /\ RetriesCountFailures)'
  BY AttemptsStep, FailuresStep
<1>4. (OpenBodies /\ BodiesClosed)' /\ (Readers /\ RefreshedAttemptIsWhole)'
  BY BodiesStep, ReadersStep
<1> QED
  BY <1>1, <1>2, <1>3, <1>4 DEF IInv

LEMMA Inductive == Spec => []IInv
  BY InitIInv, IInvStep, PTL DEF Spec

-----------------------------------------------------------------------------
(* The model of doRequest stays within its types: no counter of open bodies *)
(* ever falls below zero, that is, no body is closed twice.                 *)
THEOREM TypeCorrect == Spec => []TypeOK
<1>1. IInv => TypeOK
  BY DEF IInv
<1> QED
  BY <1>1, Inductive, PTL

(* Without a RetryFunc doRequest sends at most MaxBackoffRetries + 2        *)
(* requests, for every MaxBackoffRetries and every order of answers.        *)
THEOREM CallIsBounded == Spec => []AttemptsBounded
<1>1. IInv => AttemptsBounded
  BY MaxTriesNat DEF IInv, TypeOK, Attempts, Reauths, Backoffs, AttemptsBounded, MaxTries
<1> QED
  BY <1>1, Inductive, PTL

(* One reauthentication and MaxBackoffRetries backoffs, however long        *)
(* RetryFunc keeps the call alive.                                          *)
THEOREM RemediesAreBounded == Spec => []RemediesBounded
<1>1. IInv => RemediesBounded
  BY DEF IInv, Reauths, Backoffs, RemediesBounded
<1> QED
  BY <1>1, Inductive, PTL

(* No response body leaks from an attempt, however many there were.         *)
THEOREM NoBodyLeaks == Spec => []BodiesClosed
<1>1. IInv => BodiesClosed
  BY DEF IInv
<1> QED
  BY <1>1, Inductive, PTL

(* The attempt after a reauthentication carries the body whenever the       *)
(* reader can be rewound.                                                   *)
THEOREM RewindReachesTheWire == Spec => []RefreshedAttemptIsWhole
<1>1. IInv => RefreshedAttemptIsWhole
  BY DEF IInv
<1> QED
  BY <1>1, Inductive, PTL

(* With a RetryFunc no failure of the transport, refused status or broken   *)
(* body ends a call of doRequest unasked, after any number of attempts.     *)
THEOREM RetryFuncIsAlwaysAsked == Spec => []RetryFuncHasLastWord
<1>1. Init => RetryFuncHasLastWord
  BY DEF Init, RetryFuncHasLastWord
<1> QED
  BY <1>1, Inductive, LastWordStep, PTL DEF Spec

(* What RetryFunc is told of the failures so far, for any number of them.   *)
THEOREM RetryFuncIsToldTheTruth == Spec => []RetriesCountFailures
<1>1. IInv => RetriesCountFailures
  BY DEF IInv
<1> QED
  BY <1>1, Inductive, PTL
=============================================================================
