------------------------------- MODULE Polling -------------------------------
(***************************************************************************)
(* WaitFor (util.go) and the waits built on it: WaitForStatus of servers,  *)
(* volumes, snapshots, attachments and nodes, and the waits of the         *)
(* acceptance tests, which also give up in an error state or wait until    *)
(* the resource is gone.  The resource goes through its own lifecycle      *)
(* between and during the polls; the context may end at any moment.        *)
(*                                                                         *)
(* A second is the period of the ticker, which starts after the first      *)
(* poll; its channel holds one tick.  No name here is one of Pager, since  *)
(* PagerProofs is about both.                                              *)
(***************************************************************************)
EXTENDS Naturals

CONSTANTS
  Statuses,   \* what a resource can report
  Lifecycle,  \* the steps of a resource, pairs of Statuses \cup {Gone}
  Gone,
  Waits       \* the waits considered: [kind, wanted]

VARIABLES
  status,     \* of the resource at the service
  since,      \* every status the resource has had since the call
  over,       \* the context is over
  place, wait,
  answer,     \* what the service answers to the poll in progress
  late,       \* the poll in progress began when the context was over
  ticker, tick,  \* the ticker has been made; its channel holds a tick
  outcome,
  polls, latePolls  \* polls begun in the current second; polls begun late

waitVars == <<status, since, over, place, wait, answer, late, ticker, tick, outcome, polls, latePolls>>

NoAnswer == "no answer"
Failures == {"404", "409", "failure", "context"}
Kinds == {"status", "status or error", "deleted", "detached"}

(* No status is mistaken for a failure, and no wait is of another kind. *)
ASSUME PollingAssumption ==
  /\ Statuses \cap (Failures \cup {NoAnswer}) = {}
  /\ Waits \subseteq [kind : Kinds, wanted : Statuses \cup {Gone}]

WaitInit ==
  /\ status \in Statuses \cup {Gone} /\ since = {status}
  /\ over \in BOOLEAN
  /\ wait \in Waits
  /\ place = "called" /\ answer = NoAnswer /\ late = FALSE
  /\ ticker = FALSE /\ tick = FALSE
  /\ outcome = "none" /\ polls = 0 /\ latePolls = 0

-----------------------------------------------------------------------------
(* The predicates.  Each sees what Get made of the answer. *)
Reached(a) == [done |-> a = wait.wanted, err |-> a \in Failures]

(* The waits of the acceptance tests give up when the resource has failed. *)
ReachedOrFailed(a) == [done |-> a = wait.wanted,
                       err  |-> a \in Failures \/ (a = "ERROR" /\ a # wait.wanted)]

(* Broken: every error counts as the end of the resource. *)
Deleted_AnyError(a) == [done |-> a \in Failures, err |-> FALSE]

Deleted(a) == [done |-> a = "404", err |-> a \in Failures \ {"404"}]

(* A port that is still in use answers with a conflict; an active one ends
   this wait as well. *)
Detached(a) == [done |-> a \in {"404", "ACTIVE"}, err |-> a \in Failures \ {"404", "409"}]

Predicate(a) ==
  CASE wait.kind = "status"          -> Reached(a)
    [] wait.kind = "status or error" -> ReachedOrFailed(a)
    [] wait.kind = "deleted"         -> Deleted(a)
    [] wait.kind = "detached"        -> Detached(a)

-----------------------------------------------------------------------------
BeginPoll ==
  /\ place' = "poll" /\ answer' = NoAnswer /\ late' = over
  /\ polls' = polls + 1
  /\ latePolls' = IF over THEN latePolls + 1 ELSE latePolls

(* The first poll comes before any look at the context. *)
FirstPoll ==
  /\ place = "called" /\ BeginPoll
  /\ UNCHANGED <<status, since, over, wait, ticker, tick, outcome>>

(* The service answers with the state of that moment, or fails. *)
Answered ==
  /\ place = "poll" /\ answer = NoAnswer /\ ~late
  /\ answer' \in {IF status = Gone THEN "404" ELSE status, "failure"}
                 \cup (IF wait.kind = "detached" /\ status # Gone THEN {"409"} ELSE {})
  /\ UNCHANGED <<status, since, over, place, wait, late, ticker, tick, outcome, polls, latePolls>>

(* Broken: the request is not bound to the context, and waits on. *)
GetCancelled_Never == place = "poll" /\ over /\ answer = NoAnswer /\ UNCHANGED waitVars

(* The request is given up when its context is over, and not even sent when
   it has been over before. *)
GetCancelled ==
  /\ place = "poll" /\ over /\ answer = NoAnswer
  /\ answer' = "context"
  /\ UNCHANGED <<status, since, over, place, wait, late, ticker, tick, outcome, polls, latePolls>>

(* Broken: an error is taken for "not yet". *)
PollEnds_IgnoresErrors ==
  /\ place = "poll" /\ answer # NoAnswer
  /\ LET p == Predicate(answer)
     IN  IF p.done
         THEN place' = "returned" /\ outcome' = "nil" /\ UNCHANGED ticker
         ELSE place' = "select" /\ ticker' = TRUE /\ UNCHANGED outcome
  /\ UNCHANGED <<status, since, over, wait, answer, late, tick, polls, latePolls>>

(* "if done, err := predicate(ctx); done || err != nil { return err }" *)
PollEnds ==
  /\ place = "poll" /\ answer # NoAnswer
  /\ LET p == Predicate(answer)
     IN  IF p.done \/ p.err
         THEN /\ place' = "returned"
              /\ outcome' = IF ~p.err THEN "nil" ELSE IF answer = "context" THEN "context" ELSE "error"
              /\ UNCHANGED ticker
         ELSE place' = "select" /\ ticker' = TRUE /\ UNCHANGED outcome
  /\ UNCHANGED <<status, since, over, wait, answer, late, tick, polls, latePolls>>

(* Of two channels that are ready, select takes either. *)
TakeTick ==
  /\ place = "select" /\ tick /\ tick' = FALSE /\ BeginPoll
  /\ UNCHANGED <<status, since, over, wait, ticker, outcome>>

TakeDone ==
  /\ place = "select" /\ over
  /\ place' = "returned" /\ outcome' = "context"
  /\ UNCHANGED <<status, since, over, wait, answer, late, ticker, tick, polls, latePolls>>

(* Broken: a timer, which fires once. *)
Second_Once ==
  /\ ticker /\ place # "returned" /\ polls = 1 /\ late = FALSE /\ answer = NoAnswer
  /\ tick' = TRUE /\ polls' = 0
  /\ UNCHANGED <<status, since, over, place, wait, answer, late, ticker, outcome, latePolls>>

(* A tick that finds the channel full is dropped. *)
Second ==
  /\ ticker /\ place # "returned"
  /\ tick' = TRUE /\ polls' = 0
  /\ UNCHANGED <<status, since, over, place, wait, answer, late, ticker, outcome, latePolls>>

-----------------------------------------------------------------------------
(* The surroundings: the service, and whoever owns the context. *)
Evolve ==
  /\ \E s \in Statuses \cup {Gone} : /\ <<status, s>> \in Lifecycle /\ status' = s
                                     /\ since' = since \cup {s}
  /\ place # "returned"
  /\ UNCHANGED <<over, place, wait, answer, late, ticker, tick, outcome, polls, latePolls>>

ContextEnds ==
  /\ ~over /\ place # "returned" /\ over' = TRUE
  /\ UNCHANGED <<status, since, place, wait, answer, late, ticker, tick, outcome, polls, latePolls>>

Returned == place = "returned" /\ UNCHANGED waitVars

Wait == FirstPoll \/ PollEnds \/ TakeTick \/ TakeDone
WaitNext == Wait \/ Answered \/ GetCancelled \/ Second \/ Evolve \/ ContextEnds \/ Returned

(* The goroutine and the ticker run; nothing is assumed of the service. *)
WaitSpec == WaitInit /\ [][WaitNext]_waitVars /\ WF_waitVars(Wait) /\ WF_waitVars(GetCancelled) /\ WF_waitVars(Second)
-----------------------------------------------------------------------------
WaitTypeOK ==
  /\ status \in Statuses \cup {Gone} /\ status \in since /\ since \subseteq Statuses \cup {Gone}
  /\ place \in {"called", "poll", "select", "returned"} /\ wait \in Waits
  /\ answer \in Statuses \cup Failures \cup {NoAnswer}
  /\ outcome \in {"none", "nil", "context", "error"} /\ (outcome = "none" <=> place # "returned")
  /\ {over, late, ticker, tick} \subseteq BOOLEAN /\ {polls, latePolls} \subseteq Nat
  /\ tick \/ place = "select" => ticker

(* nil says that what was waited for has been the case at some moment since
   the call, which for a deleted resource means that it is gone; a context
   error says that the context is over. *)
Goal == CASE wait.kind = "deleted" -> {Gone}
          [] wait.kind = "detached" -> {Gone, "ACTIVE"}
          [] OTHER -> {wait.wanted}
ResultIsEarned ==
  /\ outcome = "nil" => Goal \cap since # {}
  /\ outcome = "context" => over

(* When tick and context fall together the wait may poll once more, and only
   once; that poll cannot make it succeed. *)
AtMostOneLatePoll == latePolls <= 1 /\ (late => outcome # "nil")

(* The service is asked once a second, however long its answers take. *)
OnePollPerSecond == polls <= 1

(* A wait ends when its context does, even if the service never answers. *)
WaitEnds == over ~> place = "returned"

(* With a service that answers, a wait ends that the resource has decided:
   it stays in the status that was waited for, or has failed under a wait
   that looks out for it. *)
Stays(s) == \A t \in Statuses \cup {Gone} : <<s, t>> \notin Lifecycle
Decided ==
  Stays(status) /\ \/ status = wait.wanted \/ status = Gone
                   \/ wait.kind = "status or error" /\ status = "ERROR"
DecidedIsNoticed == WF_waitVars(Answered) => (Decided ~> place = "returned")
=============================================================================
