------------------------------ MODULE LiveCheck ------------------------------
(***************************************************************************)
(* The live check (scripts/mikrotik-live-check.py): one authenticated GET, *)
(* repeated once after a timeout, and an exit code.  The script has two    *)
(* clients, requests and, where that is not installed, urllib, with a TLS  *)
(* set-up and a status handling each; what it reports must not depend on   *)
(* which of them is there.  A connection that is not made in time is       *)
(* "slow": urllib names the timeout as the reason, while requests reports  *)
(* a timeout or a connection error, as its version and the scheme have it. *)
(***************************************************************************)
EXTENDS Dial

VARIABLES
  check,    \* the process
  world     \* what it meets: installed client, options, resolver and device

checkVars == <<check, world>>

\* Refusals before the network, but for the password, come before the preview.
Problems == {"fingerprint", "no host", "host", "port", "password"}

\* The outcome of a GET: no answer in time, no connection in time, no connection,
\* or a response.
Failures == {"timeout", "slow", "down"}
Gets ==
  [status : Failures, body : {"none"}] \cup
  [status : {"200", "204", "302", "401"}, body : {"list", "other", "large", "cut"}]

World ==
  [client : {"requests", "urllib"}, problem : Problems \cup {None}, dry : BOOLEAN,
   tls : Tls, answer : Answers, peer : Peer]

ASSUME CheckAssumption == None \notin World /\ None \notin Problems

\* "gets" is what the network made of each GET.
Checking ==
  [pc : {"gate", "target", "password", "get", "read", "done"},
   exit : {0, 2, 4, None}, gets : Seq(Gets), asked : SUBSET Addrs]

CheckType ==
  /\ check \in Checking
  /\ world = None \/ world \in World

CheckInit ==
  /\ world = None
  /\ check = [pc |-> "gate", exit |-> None, gets |-> <<>>, asked |-> {}]

CheckStart(w) ==
  /\ world = None
  /\ world' = w
  /\ UNCHANGED check

-----------------------------------------------------------------------------
At(pc) == world # None /\ check.pc = pc

GoTo(pc) == check' = [check EXCEPT !.pc = pc]
End(code) == check' = [check EXCEPT !.pc = "done", !.exit = code]

\* A malformed pin, no host, a refused host or port, then the preview
CheckGate ==
  /\ At("gate")
  /\ IF world.problem = "no host" THEN End(2)
     ELSE IF world.problem \in {"fingerprint", "host", "port"} THEN End(4)
     ELSE IF world.dry THEN End(0) ELSE GoTo("target")
  /\ UNCHANGED world

CheckTarget ==
  /\ At("target")
  /\ IF Accepted(world.answer) THEN GoTo("password") ELSE End(4)
  /\ UNCHANGED world

AskPassword ==
  /\ At("password")
  /\ IF world.problem = "password" THEN End(2) ELSE GoTo("get")
  /\ UNCHANGED world

Authority ==
  IF world.client = "requests" THEN SessionVerify(world.tls) ELSE ContextVerify(world.tls)

\* _is_plain_timeout and requests' Timeout: where a GET may lead.  The first one
\* that timed out is given another.
After(g) ==
  IF g.status \notin Failures THEN {"read"}
  ELSE IF g.status = "down" \/ check.gets # <<>> THEN {"done"}
  ELSE IF g.status = "slow" /\ world.client = "requests" THEN {"get", "done"} ELSE {"get"}

\* One GET on the pinned addresses.  Without a handshake there is no response.
Get(g) ==
  /\ At("get")
  /\ g.status \notin Failures => Handshake(world.tls, Authority, world.peer)
  /\ \E pc \in After(g) :
       check' = [check EXCEPT !.gets = Append(@, g),
                   !.asked = @ \cup ToSet(Pinned(world.answer)),
                   !.pc = pc, !.exit = IF pc = "done" THEN 4 ELSE @]
  /\ UNCHANGED world

List == [status |-> "200", body |-> "list"]

\* requests leaves every status to the script, which refuses redirects unread
\* and reads the others, in pieces and up to the cap.
ReadRequests ==
  /\ At("read") /\ world.client = "requests"
  /\ LET r == Last(check.gets) IN
       IF r.status # "302" /\ r.body \notin {"large", "cut"} /\ r = List
         THEN End(0) ELSE End(4)
  /\ UNCHANGED world

\* urllib raises every status but 2xx; the others are read up to the cap.
ReadUrllib ==
  /\ At("read") /\ world.client = "urllib"
  /\ LET r == Last(check.gets) IN
       IF r.status \in {"200", "204"} /\ r.body \notin {"large", "cut"} /\ r = List
         THEN End(0) ELSE End(4)
  /\ UNCHANGED world

CheckStep ==
  \/ CheckGate \/ CheckTarget \/ AskPassword \/ (\E g \in Gets : Get(g))
  \/ ReadRequests \/ ReadUrllib

CheckNext == (\E w \in World : CheckStart(w)) \/ CheckStep

-----------------------------------------------------------------------------
(* Properties *)

\* The documented precedence: a CA bundle demands the chain, with or without a
\* pin; a pin alone takes the place of the chain.
Trusted(tls, peer) ==
  tls.https =>
    /\ tls.pin => peer.pinned
    /\ tls.ca => peer.chain = "ca"
    /\ tls.verify /\ ~tls.ca /\ ~tls.pin => peer.chain = "system"

\* With a CA bundle and --no-ssl-verify but no pin, urllib checks no chain, against
\* "a custom CA bundle wins" (main), where requests does.
Lenient == world.client = "urllib" /\ world.tls.ca /\ ~world.tls.verify /\ ~world.tls.pin

\* "0 - Live OK (reachable, valid JSON list)": whichever client is installed, the
\* check succeeds exactly when a device the options trust gave a list to the
\* first GET, or to the one repetition of a GET that timed out, before or after
\* it was connected.  The one set of options on which the clients differ is Lenient.
VerdictTrue ==
  check.pc = "done" /\ ~world.dry /\ ~Lenient =>
    (check.exit = 0
       <=> /\ world.problem = None
           /\ Accepted(world.answer)
           /\ \/ check.gets = <<List>>
              \/ \E s \in {"timeout", "slow"} :
                   check.gets = <<[status |-> s, body |-> "none"], List>>
           /\ Trusted(world.tls, world.peer))
=============================================================================
