------------------------------- MODULE Deploy -------------------------------
(***************************************************************************)
(* The deploy companion (scripts/mikrotik-deploy.py): one invocation that  *)
(* pushes a script over REST (execute, else upload and import) or SSH      *)
(* (upload and import), against a device that answers late, partly, with   *)
(* an error after it has run the script, or never.                         *)
(*                                                                         *)
(* The device is a process of its own: a request stays with it when the    *)
(* client has given it up, and may still be carried out afterwards.        *)
(* Responses are abstracted to a class of status and a class of body.      *)
(* Refusals before the network that share an exit code are one "problem".  *)
(***************************************************************************)
EXTENDS Dial

CONSTANT Deadline  \* effective_timeout of the SSH poll, in polls


VARIABLES
  deploy,  \* the process
  device   \* the device: the request in its hands and what it did

deployVars == <<deploy, device>>

Usage == {"host", "file", "name", "empty", "destructive", "port", "pin", "password"}

\* "missing" is a CA file named for an https device that is not there: nothing
\* looks at it before the first request.
Options ==
  [problem : Usage \cup {None}, dry : BOOLEAN, method : {"auto", "rest", "ssh"},
   libs : SUBSET {"requests", "paramiko"}, missing : BOOLEAN]

Requests == {"execute", "put", "import", "exec"}
Responses ==
  [status : {"ok", "redirect", "error"}, body : {"fine", "marker", "large", "cut"}]

ASSUME DeployAssumption ==
  /\ Deadline \in Nat
  /\ None \notin Options /\ None \notin Requests /\ None \notin Responses
  /\ None \notin Usage \cup {"ok", "redirect", "error", "rest", "ssh"}

\* "heard" is the status of the last answer read, "sent" the requests written,
\* "dialled" and "lookups" what went over the network: history for properties.
Deploying ==
  [pc : {"idle", "target", "ask", "wait", "connect", "upload", "exec", "poll", "done"},
   opts : Options \cup {None}, exit : 0 .. 5 \cup {None},
   addrs : Seq(Addrs), next : Requests \cup {None},
   socket : BOOLEAN, left : 0 .. Deadline,
   lookups : Nat, dialled : SUBSET Addrs, sent : Seq(Requests),
   heard : {"ok", "redirect", "error", None}]

Device ==
  [request : Requests \cup {None}, response : Responses \cup {None},
   file : BOOLEAN, runs : Nat]

DeployType == deploy \in Deploying /\ device \in Device

NotStarted ==
  [pc |-> "idle", opts |-> None, exit |-> None, addrs |-> <<>>, next |-> None,
   socket |-> FALSE, left |-> 0, lookups |-> 0, dialled |-> {}, sent |-> <<>>,
   heard |-> None]

DeployInit ==
  /\ deploy = NotStarted
  /\ device = [request |-> None, response |-> None, file |-> FALSE, runs |-> 0]

-----------------------------------------------------------------------------
(* main: the gates before the network *)

\* main picks the transport of "auto"; a dry run needs no library.
Transport(o) ==
  IF o.method # "auto" THEN o.method
  ELSE IF o.dry \/ "requests" \in o.libs THEN "rest"
  ELSE IF "paramiko" \in o.libs THEN "ssh" ELSE None

Library(o) == IF Transport(o) = "rest" THEN "requests" ELSE "paramiko"

\* The exit code decided without the network, None to go on.  A dry run passes
\* the same gates, password and libraries excepted.
Gate(o) ==
  IF o.problem \notin {None, "password"} \/ (o.problem = "password" /\ ~o.dry) THEN 2
  ELSE IF Transport(o) = None THEN 3
  ELSE IF o.dry THEN 0
  ELSE IF Library(o) \notin o.libs THEN 3 ELSE None

Exit(code) == [deploy EXCEPT !.pc = "done", !.exit = code, !.socket = FALSE]

DeployStart(o) ==
  /\ deploy.pc = "idle"
  /\ deploy' = IF Gate(o) # None
                 THEN [Exit(Gate(o)) EXCEPT !.opts = o]
                 ELSE [deploy EXCEPT !.pc = "target", !.opts = o]
  /\ UNCHANGED device

\* check_target_with_addrs: the one lookup
Target(answer) ==
  /\ deploy.pc = "target"
  /\ deploy' =
       [IF Accepted(answer)
          THEN [deploy EXCEPT !.addrs = Pinned(answer), !.next = "execute",
                  !.pc = IF Transport(deploy.opts) = "rest" THEN "ask" ELSE "connect"]
          ELSE Exit(4)
        EXCEPT !.lookups = @ + 1]
  /\ UNCHANGED device

-----------------------------------------------------------------------------
(* deploy_via_rest *)

Give(request) == device' = [device EXCEPT !.request = request, !.response = None]

\* The first request is made before the CA file is looked for.
BadNoBundle ==
  /\ deploy.pc = "ask" /\ deploy.opts.missing
  /\ deploy' = [Exit(1) EXCEPT !.sent = Append(@, deploy.next)]
  /\ Give(deploy.next)

\* The session finds no CA file: an OSError, and no RequestException, leaves the
\* script before anything is dialled.
NoBundle ==
  /\ deploy.pc = "ask" /\ deploy.opts.missing
  /\ deploy' = Exit(1)
  /\ UNCHANGED device

\* A request of the session.  Unless a kept-alive connection serves it, the
\* pinned addresses are dialled; a refused connection or handshake is a
\* RequestException.
Ask(up, agreed) ==
  /\ deploy.pc = "ask" /\ ~deploy.opts.missing
  /\ LET dialling == [deploy EXCEPT !.dialled = @ \cup Tried(deploy.addrs, up)] IN
       IF Connects(deploy.addrs, up) /\ agreed
         THEN /\ deploy' = [dialling EXCEPT !.pc = "wait", !.sent = Append(@, deploy.next)]
              /\ Give(deploy.next)
         ELSE /\ deploy' = [dialling EXCEPT !.pc = "done", !.exit = 4]
              /\ UNCHANGED device

\* The timeout is taken for a transient error and the request sent again.
BadLost ==
  /\ deploy.pc = "wait"
  /\ deploy' = IF Len(deploy.sent) < 3 THEN [deploy EXCEPT !.pc = "ask"] ELSE Exit(4)
  /\ UNCHANGED device

\* Timeout or reset: the request may be carried out all the same.
Lost ==
  /\ deploy.pc = "wait"
  /\ deploy' = Exit(4)
  /\ UNCHANGED device

Readable(r) == r.body \notin {"large", "cut"}

Follow(request) == [deploy EXCEPT !.pc = "ask", !.next = request]

\* The branches of the three responses.  An import is judged by its markers,
\* not by its status.
Outcome(r) ==
  IF deploy.next = "put" THEN IF r.status = "ok" THEN Follow("import") ELSE Exit(4)
  ELSE IF r.status = "redirect" \/ ~Readable(r) THEN Exit(4)
  ELSE IF deploy.next = "execute" THEN IF r.status = "ok" THEN Exit(0) ELSE Follow("put")
  ELSE IF r.body = "marker" THEN Exit(5) ELSE Exit(0)

Heard ==
  /\ deploy.pc = "wait" /\ device.response # None
  /\ deploy' = [Outcome(device.response) EXCEPT !.heard = device.response.status]
  /\ UNCHANGED device

-----------------------------------------------------------------------------
(* deploy_via_ssh *)

Connect(up, agreed) ==
  /\ deploy.pc = "connect"
  /\ deploy' =
       [IF Connects(deploy.addrs, up) /\ agreed
          THEN [deploy EXCEPT !.socket = TRUE, !.pc = "upload"]
          ELSE Exit(4)
        EXCEPT !.dialled = @ \cup Tried(deploy.addrs, up)]
  /\ UNCHANGED device

\* An exception out of SFTP or exec_command closes the client on its way up.
Upload ==
  /\ deploy.pc = "upload"
  /\ \/ /\ deploy' = [deploy EXCEPT !.pc = "exec"]
        /\ device' = [device EXCEPT !.file = TRUE]
     \/ deploy' = Exit(1) /\ UNCHANGED device

Exec ==
  /\ deploy.pc = "exec"
  /\ \/ /\ deploy' = [deploy EXCEPT !.pc = "poll", !.left = Deadline,
                                    !.next = "exec", !.sent = Append(@, "exec")]
        /\ Give("exec")
     \/ deploy' = Exit(1) /\ UNCHANGED device

\* The deadline is taken for the end of the import.
BadPollEnd ==
  /\ deploy.pc = "poll" /\ device.response = None
  /\ deploy' = IF deploy.left = 0 THEN Exit(0) ELSE [deploy EXCEPT !.left = @ - 1]
  /\ UNCHANGED device

\* The deadline is set anew by every poll.
BadPollAnew ==
  /\ deploy.pc = "poll" /\ device.response = None
  /\ deploy' = IF deploy.left = 0 THEN Exit(5) ELSE [deploy EXCEPT !.left = Deadline]
  /\ UNCHANGED device

\* The deadline is computed and never looked at.
BadPollPast ==
  /\ deploy.pc = "poll" /\ device.response = None
  /\ deploy' = [deploy EXCEPT !.left = @ - 1]
  /\ UNCHANGED device

\* A poll that finds no exit status
Poll ==
  /\ deploy.pc = "poll" /\ device.response = None
  /\ deploy' = IF deploy.left = 0 THEN Exit(5) ELSE [deploy EXCEPT !.left = @ - 1]
  /\ UNCHANGED device

Imported ==
  /\ deploy.pc = "poll" /\ device.response # None
  /\ LET r == device.response IN
       deploy' = [Exit(IF r.body = "fine" /\ r.status = "ok" THEN 0 ELSE 5)
                    EXCEPT !.heard = r.status]
  /\ UNCHANGED device

-----------------------------------------------------------------------------
(* The device *)

\* It carries a request out, in whole or up to an error, and says so unless
\* nobody listens any more.  "ok" may be said of an import that failed, but then
\* the output names the failure; a refused request may have run up to an error.
Carry(r, ran) ==
  /\ ran => device.request # "put" /\ r.status # "redirect"
  /\ ran => device.request = "execute" \/ device.file
  /\ device.request = "exec" => r.status # "redirect"
  /\ r.status = "ok" /\ ~ran =>
       device.request = "put" \/ (device.request # "execute" /\ r.body = "marker")
  /\ device' = [request |-> None,
                response |-> IF deploy.pc \in {"wait", "poll"} THEN r ELSE None,
                file |-> device.file \/ (device.request = "put" /\ r.status = "ok"),
                runs |-> IF ran THEN device.runs + 1 ELSE device.runs]
  /\ UNCHANGED deploy

\* The request never got there.
Drop ==
  /\ device' = [device EXCEPT !.request = None]
  /\ UNCHANGED deploy

Talk == \E up \in SUBSET Addrs, agreed \in BOOLEAN : Ask(up, agreed) \/ Connect(up, agreed)

\* Steps whose wait has a timeout
Timed ==
  \/ \E answer \in Answers : Target(answer)
  \/ Talk \/ NoBundle \/ Lost \/ Heard \/ Poll

\* SFTP, exec_command and the read of the output have none.
Untimed == Upload \/ Exec \/ Imported

DeployStep == Timed \/ Untimed

DeviceStep ==
  /\ device.request # None
  /\ Drop \/ \E r \in Responses, ran \in BOOLEAN : Carry(r, ran)

DeployNext ==
  \/ \E o \in Options : DeployStart(o)
  \/ DeployStep
  \/ DeviceStep

-----------------------------------------------------------------------------
(* Properties *)

\* The exit code tells what happened.  2, 3 and a dry run: nothing went over the
\* network, not even a lookup.  0: the device is done, has run the script and
\* had an answer read in full, or it answered the import with an error
\* status that names no failure ("IMPORT_FAILURE_MARKERS").  5: an import was
\* asked for.  1, an uncaught error: over REST nothing was dialled and the device
\* has no request, over SSH no client or socket is left open.
ExitsTell ==
  deploy.pc = "done" =>
    /\ ~deploy.socket
    /\ deploy.exit \in {2, 3} \/ deploy.opts.dry =>
         deploy.lookups = 0 /\ deploy.dialled = {} /\ device.runs = 0
    /\ deploy.exit = 0 /\ ~deploy.opts.dry =>
         /\ device.request = None
         /\ device.runs > 0 \/ (deploy.next = "import" /\ deploy.heard = "error")
    /\ deploy.exit = 5 => ToSet(deploy.sent) \cap {"import", "exec"} # {}
    /\ deploy.exit = 1 /\ Transport(deploy.opts) = "rest" =>
         deploy.dialled = {} /\ deploy.sent = <<>> /\ device.runs = 0

\* "POST /rest/execute and /import are never retried ..., so a repeated import
\* cannot run twice" (main): no request is written twice, and none after one whose
\* answer was lost.  The device runs the script again only where it answered the
\* execute with an error after it had run some of it.
NeverRetried ==
  /\ IsInjective(deploy.sent)
  /\ Len(deploy.sent) > 1 => deploy.heard # None
  /\ device.runs <= Cardinality(ToSet(deploy.sent) \cap {"execute", "import", "exec"})
  /\ device.runs > 1 => deploy.sent = <<"execute", "put", "import">>
=============================================================================
