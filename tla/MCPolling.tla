------------------------------ MODULE MCPolling ------------------------------
(* A server that is built, rebooted, may fail, and may be deleted. *)
EXTENDS Polling

TheStatuses == {"BUILD", "ACTIVE", "REBOOT", "ERROR", "STOPPED"}
TheLifecycle ==
  {<<"BUILD", "ACTIVE">>, <<"BUILD", "ERROR">>, <<"ACTIVE", "REBOOT">>, <<"REBOOT", "ACTIVE">>,
   <<"REBOOT", "ERROR">>, <<"ACTIVE", "STOPPED">>, <<"ACTIVE", Gone>>}
TheWaits ==
  [kind : {"status", "status or error"}, wanted : {"ACTIVE", "REBOOT", "STOPPED", "ERROR"}]
    \cup [kind : {"deleted", "detached"}, wanted : {Gone}]
=============================================================================
