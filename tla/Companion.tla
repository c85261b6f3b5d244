----------------------------- MODULE Companion -----------------------------
(***************************************************************************)
(* The companion tasks an editor offers beside the server: the deploy and  *)
(* the live check, one task after the other against the same network.      *)
(* Neither keeps state between invocations, so one of each is enough.      *)
(***************************************************************************)
EXTENDS Deploy, LiveCheck

vars == <<deploy, device, check, world>>

Init == DeployInit /\ CheckInit

\* A script is started once, and not while the other runs.
Start ==
  /\ deploy.pc = "idle" /\ world = None
  /\ \/ (\E o \in Options : DeployStart(o)) /\ UNCHANGED checkVars
     \/ (\E w \in World : CheckStart(w)) /\ UNCHANGED deployVars

Script ==
  \/ DeployStep /\ UNCHANGED checkVars
  \/ CheckStep /\ UNCHANGED deployVars

\* The steps that come by themselves
Due ==
  \/ Timed /\ UNCHANGED checkVars
  \/ CheckStep /\ UNCHANGED deployVars

Next == Start \/ Script \/ (DeviceStep /\ UNCHANGED checkVars)

\* A started script goes on wherever its wait has a timeout.  The device owes
\* nothing.
Spec == Init /\ [][Next]_vars /\ WF_vars(Due)

-----------------------------------------------------------------------------
(* Properties *)

TypeOK == DeployType /\ CheckType

\* "callers must NOT re-resolve them" (resolve_host_addrs): one lookup, and only
\* addresses of an answer without a refused address are dialled, on every
\* connection of either script.
DialsChecked ==
  /\ deploy.lookups <= 1
  /\ deploy.dialled \subseteq ToSet(deploy.addrs) \ Denied
  /\ check.asked \cap Denied = {}

\* A script that was started exits, whatever the device does: neither a request
\* that is never answered nor an import that never ends holds it ("instead of
\* calling recv_exit_status() directly, which blocks forever").  The device can
\* only hold it in SFTP, in exec_command or in output that does not end.
\* getaddrinfo and the password prompt have no timeout either: the resolver and
\* the user are assumed to come to an end.
TasksEnd ==
  /\ deploy.pc # "idle" ~>
       \/ deploy.pc \in {"upload", "exec", "done"}
       \/ deploy.pc = "poll" /\ device.response # None
  /\ world # None ~> check.pc = "done"
=============================================================================
