----------------------------- MODULE MCAuthFlow -----------------------------
(***************************************************************************)
(* AuthFlow for TLC: one goroutine logs in, then two make requests; or     *)
(* two log in, one after the other or side by side, and one requests.      *)
(***************************************************************************)
EXTENDS AuthFlow

Three == 1 .. 3
LoginsAndRequests ==
  {<<"authenticate", "request", "request">>, <<"authenticate", "authenticate", "request">>}

KnownOptions == [builder : {"v2", "v3", "token"}, allowReauth : BOOLEAN]
=============================================================================
