-------------------------- MODULE Companion_proofs --------------------------
(***************************************************************************)
(* Theorems about the companion scripts, for every address policy, every   *)
(* answer of the resolver, every deadline, whatever the options and        *)
(* whatever the device does.                                               *)
(***************************************************************************)
EXTENDS Companion, Lists_proofs

-----------------------------------------------------------------------------
(* Addresses *)

\* The addresses dialled are those of the answer, each once.
LEMMA PinnedKeeps ==
  ASSUME NEW answer \in Seq(Addrs)
  PROVE  Pinned(answer) \in Seq(Addrs) /\ ToSet(Pinned(answer)) \subseteq ToSet(answer)
<1> DEFINE keep == {i \in DOMAIN answer : \A j \in 1 .. i - 1 : answer[j] # answer[i]}
<1>1. keep \in SUBSET DOMAIN answer
  OBVIOUS
<1>2. Pinned(answer) = Chosen(answer, keep)
  BY DEF Pinned
<1> HIDE DEF keep
<1>3. /\ Pinned(answer) \in Seq(Addrs)
      /\ \A m \in 1 .. Len(Pinned(answer)) : \E i \in keep : Pinned(answer)[m] = answer[i]
  BY <1>1, <1>2, ChosenKeeps
<1>4. \A m \in DOMAIN Pinned(answer) : Pinned(answer)[m] \in ToSet(answer)
  BY <1>1, <1>3 DEF ToSet
<1> QED BY <1>3, <1>4 DEF ToSet

\* Nothing else is tried.
LEMMA TriedKeeps ==
  ASSUME NEW addrs, NEW up
  PROVE  Tried(addrs, up) \subseteq ToSet(addrs)
BY DEF Tried, ToSet

-----------------------------------------------------------------------------
(* The deploy script *)

\* What has been asked of the device when it comes to the next request.
Before(request) ==
  CASE request = "execute" -> <<>>
    [] request = "put"     -> <<"execute">>
    [] OTHER               -> <<"execute", "put">>

\* How many of the requests sent may run the script.
Runnable(sent) ==
  CASE sent = <<>> -> 0
    [] sent = <<"execute", "put", "import">> -> 2
    [] OTHER -> 1

Pending == IF device.request \in {"execute", "import", "exec"} THEN 1 ELSE 0

Histories ==
  {<<>>, <<"execute">>, <<"execute", "put">>, <<"execute", "put", "import">>, <<"exec">>}

\* Before the first connection
Silent ==
  /\ deploy.lookups = 0 /\ deploy.dialled = {}
  /\ deploy.sent = <<>>

\* Where the script is in its requests
InTurn ==
  /\ deploy.pc \in {"idle", "target", "connect", "upload", "exec"} => deploy.sent = <<>>
  /\ deploy.pc = "ask" =>
       /\ deploy.next \in {"execute", "put", "import"}
       /\ deploy.sent = Before(deploy.next)
       /\ deploy.next # "execute" => deploy.heard # None
  /\ deploy.pc = "wait" =>
       /\ deploy.next \in {"execute", "put", "import"}
       /\ deploy.sent = Append(Before(deploy.next), deploy.next)
       /\ deploy.next # "execute" => deploy.heard # None
  /\ deploy.pc = "poll" => deploy.next = "exec" /\ deploy.sent = <<"exec">>

\* The device has in hand what is waited for, and what an answer says of it
Told ==
  LET r == device.response IN
    /\ deploy.pc \in {"wait", "poll"} => device.request \in {None, deploy.next}
    /\ r # None => device.request = None
    /\ deploy.pc \in {"wait", "poll"} /\ r # None /\ r.status = "ok" /\ deploy.next # "put" =>
         device.runs > 0 \/ (deploy.next # "execute" /\ r.body = "marker")

DeployInv ==
  /\ DeployType
  /\ deploy.pc # "idle" => deploy.opts \in Options
  /\ deploy.pc \notin {"idle", "done"} => ~deploy.opts.dry
  /\ deploy.pc \in {"idle", "target"} => Silent
  /\ deploy.lookups <= 1
  /\ ToSet(deploy.addrs) \cap Denied = {}
  /\ deploy.dialled \subseteq ToSet(deploy.addrs)
  /\ deploy.socket => deploy.pc \in {"upload", "exec", "poll"}
  /\ InTurn
  /\ deploy.sent \in Histories
  /\ Len(deploy.sent) > 1 => deploy.heard # None
  /\ deploy.sent = <<>> => device.request = None
  /\ device.runs + Pending <= Runnable(deploy.sent)
  /\ Told
  /\ deploy.pc = "done" =>
       /\ deploy.exit # None
       /\ deploy.exit \in {2, 3} \/ deploy.opts.dry => Silent
       /\ deploy.exit = 0 /\ ~deploy.opts.dry =>
            /\ device.request = None
            /\ device.runs > 0 \/ (deploy.next = "import" /\ deploy.heard = "error")
       /\ deploy.exit = 5 => ToSet(deploy.sent) \cap {"import", "exec"} # {}

LEMMA DeployInvInit == DeployInit => DeployInv
<1> SUFFICES ASSUME DeployInit PROVE DeployInv
  OBVIOUS
<1>1. DeployType
  BY DialAssumption, DeployAssumption DEF DeployInit, NotStarted, DeployType, Deploying, Device
<1>2. ToSet(<<>>) = {} /\ Len(<<>>) = 0
  BY DEF ToSet
<1>3. Pending = 0 /\ Runnable(<<>>) = 0
  BY DeployAssumption DEF DeployInit, Pending, Runnable, Requests
<1>4. InTurn /\ Silent /\ Told
  BY DEF DeployInit, NotStarted, InTurn, Silent, Told
<1> QED BY <1>1, <1>2, <1>3, <1>4
      DEF DeployInit, NotStarted, DeployInv, Histories

\* What Exit leaves
LEMMA ExitKeeps ==
  ASSUME deploy \in Deploying, NEW code \in 0 .. 5
  PROVE  /\ Exit(code) \in Deploying
         /\ Exit(code).pc = "done" /\ Exit(code).exit = code /\ ~Exit(code).socket
         /\ Exit(code).opts = deploy.opts /\ Exit(code).lookups = deploy.lookups
         /\ Exit(code).dialled = deploy.dialled /\ Exit(code).addrs = deploy.addrs
         /\ Exit(code).sent = deploy.sent /\ Exit(code).heard = deploy.heard
         /\ Exit(code).next = deploy.next
BY DEF Exit, Deploying

LEMMA InvDeployStart ==
  ASSUME DeployInv, NEW o \in Options, DeployStart(o)
  PROVE  DeployInv'
<1>1. /\ deploy \in Deploying /\ device \in Device /\ deploy.pc = "idle" /\ device' = device
      /\ None \notin Nat /\ o # None
  BY DialAssumption, DeployAssumption DEF DeployInv, DeployType, DeployStart
<1>2. Gate(o) \in {None, 0, 2, 3} /\ (Gate(o) = None => ~o.dry) /\ (Gate(o) = 0 => o.dry)
  BY <1>1 DEF Gate, Options
<1>3. CASE Gate(o) = None
  <2>1. deploy' = [deploy EXCEPT !.pc = "target", !.opts = o]
    BY <1>3 DEF DeployStart
  <2>2. deploy' \in Deploying
    BY <1>1, <2>1 DEF Deploying
  <2>3. /\ deploy'.pc = "target" /\ deploy'.opts = o
        /\ deploy'.lookups = deploy.lookups /\ deploy'.dialled = deploy.dialled
        /\ deploy'.sent = deploy.sent /\ deploy'.heard = deploy.heard
        /\ deploy'.addrs = deploy.addrs /\ deploy'.socket = deploy.socket
    BY <1>1, <2>1 DEF Deploying
  <2> QED BY <1>1, <1>2, <1>3, <2>2, <2>3
        DEF DeployInv, DeployType, InTurn, Silent, Told, Pending, Runnable
<1>4. CASE Gate(o) # None
  <2> DEFINE code == Gate(o)
             e == Exit(code)
  <2>1. code \in {0, 2, 3} /\ code \in 0 .. 5
    BY <1>2, <1>4
  <2>2. deploy' = [e EXCEPT !.opts = o]
    BY <1>4 DEF DeployStart
  <2> HIDE DEF code
  <2>3. e \in Deploying /\ e.pc = "done" /\ e.exit = code /\ ~e.socket
        /\ e.lookups = deploy.lookups /\ e.dialled = deploy.dialled /\ e.addrs = deploy.addrs
        /\ e.sent = deploy.sent /\ e.heard = deploy.heard
    BY <1>1, <2>1, ExitKeeps
  <2> HIDE DEF e
  <2>4. deploy' \in Deploying
    BY <2>2, <2>3 DEF Deploying
  <2>5. /\ deploy'.pc = "done" /\ deploy'.exit = code /\ ~deploy'.socket /\ deploy'.opts = o
        /\ deploy'.lookups = deploy.lookups /\ deploy'.dialled = deploy.dialled
        /\ deploy'.addrs = deploy.addrs /\ deploy'.sent = deploy.sent
        /\ deploy'.heard = deploy.heard
    BY <2>2, <2>3 DEF Deploying
  <2>6. code = 0 => o.dry
    BY <1>2 DEF code
  <2> QED BY <1>1, <2>1, <2>4, <2>5, <2>6
        DEF DeployInv, DeployType, InTurn, Silent, Told, Pending, Runnable
<1> QED BY <1>3, <1>4

LEMMA InvTarget ==
  ASSUME DeployInv, NEW answer \in Answers, Target(answer)
  PROVE  DeployInv'
<1>1. deploy \in Deploying /\ device \in Device /\ deploy.pc = "target" /\ device' = device
  BY DEF DeployInv, DeployType, Target
<1>2. answer \in Seq(Addrs)
  BY DialAssumption
<1> DEFINE addrs == Pinned(answer)
<1>3. addrs \in Seq(Addrs) /\ ToSet(addrs) \subseteq ToSet(answer)
  BY <1>2, PinnedKeeps
<1> HIDE DEF addrs
<1> DEFINE once == deploy.lookups + 1
<1>4. once \in Nat
  BY <1>1 DEF Deploying
<1>5. once <= 1
  BY <1>1 DEF DeployInv, Silent
<1> HIDE DEF once
<1>6. CASE Accepted(answer)
  <2>1. PICK pc \in {"ask", "connect"} :
          deploy' = [[deploy EXCEPT !.addrs = addrs, !.next = "execute", !.pc = pc]
                       EXCEPT !.lookups = once]
    BY <1>1, <1>6 DEF Target, addrs, once, Deploying
  <2>2. deploy' \in Deploying
    BY <1>1, <1>3, <1>4, <2>1 DEF Deploying, Requests
  <2>3. /\ deploy'.pc = pc /\ deploy'.opts = deploy.opts /\ deploy'.lookups = once
        /\ deploy'.dialled = deploy.dialled /\ deploy'.addrs = addrs /\ deploy'.sent = deploy.sent
        /\ deploy'.heard = deploy.heard /\ deploy'.socket = deploy.socket
        /\ deploy'.next = "execute"
    BY <1>1, <2>1 DEF Deploying
  <2>4. ToSet(addrs) \cap Denied = {}
    BY <1>3, <1>6 DEF Accepted
  <2> QED BY <1>1, <1>5, <2>2, <2>3, <2>4
        DEF DeployInv, DeployType, InTurn, Before, Silent, Told, Pending, Runnable
<1>7. CASE ~Accepted(answer)
  <2> DEFINE e == Exit(4)
  <2>1. deploy' = [e EXCEPT !.lookups = e.lookups + 1]
    BY <1>7 DEF Target
  <2>2. e \in Deploying /\ e.pc = "done" /\ e.exit = 4 /\ ~e.socket /\ e.opts = deploy.opts
        /\ e.lookups = deploy.lookups /\ e.dialled = deploy.dialled /\ e.addrs = deploy.addrs
        /\ e.sent = deploy.sent /\ e.heard = deploy.heard
    BY <1>1, ExitKeeps
  <2> HIDE DEF e
  <2>3. deploy' = [e EXCEPT !.lookups = once]
    BY <2>1, <2>2 DEF once
  <2>4. deploy' \in Deploying
    BY <1>4, <2>2, <2>3 DEF Deploying
  <2>5. /\ deploy'.pc = "done" /\ deploy'.exit = 4 /\ ~deploy'.socket
        /\ deploy'.opts = deploy.opts /\ deploy'.lookups = once
        /\ deploy'.dialled = deploy.dialled /\ deploy'.addrs = deploy.addrs
        /\ deploy'.sent = deploy.sent /\ deploy'.heard = deploy.heard
    BY <2>2, <2>3 DEF Deploying
  <2>6. 4 # None
    BY DialAssumption
  <2> QED BY <1>1, <1>5, <2>4, <2>5, <2>6
        DEF DeployInv, DeployType, InTurn, Silent, Told, Pending, Runnable
<1> QED BY <1>6, <1>7

\* What a request adds to those sent
LEMMA SentNext ==
  /\ Append(Before("execute"), "execute") = <<"execute">>
  /\ Append(Before("put"), "put") = <<"execute", "put">>
  /\ Append(Before("import"), "import") = <<"execute", "put", "import">>
  /\ Append(<<>>, "exec") = <<"exec">>
  /\ Before("execute") = <<>> /\ Before("put") = <<"execute">>
  /\ Before("import") = <<"execute", "put">>
<1>1. /\ Before("execute") = <<>> /\ Before("put") = <<"execute">>
      /\ Before("import") = <<"execute", "put">>
  BY DEF Before
<1>2. Append(<<>>, "execute") = <<"execute">> /\ Append(<<>>, "exec") = <<"exec">>
  OBVIOUS
<1>3. Append(<<"execute">>, "put") = <<"execute", "put">>
  <2> DEFINE s == Append(<<"execute">>, "put")
             u == <<"execute", "put">>
  <2>1. s \in Seq(Requests) /\ Len(s) = 2
    BY DEF Requests
  <2>2. u \in Seq(Requests) /\ Len(u) = 2
    BY DEF Requests
  <2>3. \A i \in 1 .. 2 : s[i] = u[i]
    OBVIOUS
  <2> HIDE DEF s, u
  <2> QED BY <2>1, <2>3, <2>2, SeqEqual DEF s, u
<1>4. Append(<<"execute", "put">>, "import") = <<"execute", "put", "import">>
  <2> DEFINE s == Append(<<"execute", "put">>, "import")
             u == <<"execute", "put", "import">>
  <2>1. s \in Seq(Requests) /\ Len(s) = 3
    BY DEF Requests
  <2>2. u \in Seq(Requests) /\ Len(u) = 3
    BY DEF Requests
  <2>3. \A i \in 1 .. 3 : s[i] = u[i]
    OBVIOUS
  <2> HIDE DEF s, u
  <2> QED BY <2>1, <2>3, <2>2, SeqEqual DEF s, u
<1> QED BY <1>1, <1>2, <1>3, <1>4

\* How many of each list of requests run the script
LEMMA RunnableOf ==
  /\ Runnable(<<>>) = 0 /\ Runnable(<<"execute">>) = 1 /\ Runnable(<<"execute", "put">>) = 1
  /\ Runnable(<<"execute", "put", "import">>) = 2 /\ Runnable(<<"exec">>) = 1
  /\ <<"execute">> # <<>> /\ <<"exec">> # <<>> /\ <<"execute", "put">> # <<>>
  /\ <<"execute", "put", "import">> # <<>>
  /\ Len(<<"execute">>) = 1 /\ Len(<<"exec">>) = 1 /\ Len(<<>>) = 0
  /\ Len(<<"execute", "put">>) = 2 /\ Len(<<"execute", "put", "import">>) = 3
BY DEF Runnable

\* Leaving once the network is up to it, with or without an answer read
LEMMA InvExit ==
  ASSUME DeployInv, deploy.pc \notin {"idle", "target", "done"}, NEW code \in {0, 1, 4, 5},
         NEW heard \in {"ok", "redirect", "error", None}, heard = deploy.heard \/ heard # None,
         deploy' = [Exit(code) EXCEPT !.heard = heard], device' = device,
         code = 0 => /\ device.request = None
                     /\ device.runs > 0 \/ (deploy.next = "import" /\ heard = "error"),
         code = 5 => ToSet(deploy.sent) \cap {"import", "exec"} # {}
  PROVE  DeployInv'
<1> DEFINE e == Exit(code)
<1>1. deploy \in Deploying /\ device \in Device /\ deploy.opts \in Options /\ ~deploy.opts.dry
  BY DEF DeployInv, DeployType
<1>2. e \in Deploying /\ e.pc = "done" /\ e.exit = code /\ ~e.socket /\ e.opts = deploy.opts
      /\ e.lookups = deploy.lookups /\ e.dialled = deploy.dialled /\ e.addrs = deploy.addrs
      /\ e.sent = deploy.sent /\ e.next = deploy.next
  BY <1>1, ExitKeeps
<1>3. deploy' = [e EXCEPT !.heard = heard]
  OBVIOUS
<1> HIDE DEF e
<1>4. deploy' \in Deploying
  BY <1>2, <1>3 DEF Deploying
<1>5. /\ deploy'.pc = "done" /\ deploy'.exit = code /\ ~deploy'.socket
      /\ deploy'.opts = deploy.opts /\ deploy'.lookups = deploy.lookups
      /\ deploy'.dialled = deploy.dialled /\ deploy'.addrs = deploy.addrs
      /\ deploy'.sent = deploy.sent /\ deploy'.heard = heard /\ deploy'.next = deploy.next
  BY <1>2, <1>3 DEF Deploying
<1>6. code # None /\ code \notin {2, 3}
  BY DialAssumption
<1> QED BY <1>1, <1>4, <1>5, <1>6
      DEF DeployInv, DeployType, InTurn, Silent, Told, Pending, Runnable

\* The same without an answer
LEMMA InvLeave ==
  ASSUME DeployInv, deploy.pc \notin {"idle", "target", "done"}, NEW code \in {1, 4, 5},
         deploy' = Exit(code), device' = device,
         code = 5 => ToSet(deploy.sent) \cap {"import", "exec"} # {}
  PROVE  DeployInv'
<1>1. deploy \in Deploying
  BY DEF DeployInv, DeployType
<1>2. /\ deploy.heard \in {"ok", "redirect", "error", None}
      /\ deploy' = [Exit(code) EXCEPT !.heard = deploy.heard]
  BY <1>1 DEF Deploying, Exit
<1> QED BY <1>2, InvExit

LEMMA InvAsk ==
  ASSUME DeployInv, NEW up, NEW agreed, Ask(up, agreed)
  PROVE  DeployInv'
<1> DEFINE dialled == deploy.dialled \cup Tried(deploy.addrs, up)
<1>1. deploy \in Deploying /\ device \in Device /\ deploy.pc = "ask"
  BY DEF DeployInv, DeployType, Ask
<1>2. dialled \subseteq ToSet(deploy.addrs)
  BY TriedKeeps DEF DeployInv
<1>3. ToSet(deploy.addrs) \subseteq Addrs
  BY <1>1 DEF ToSet, Deploying
<1>4. dialled \in SUBSET Addrs
  BY <1>2, <1>3
<1>5. deploy.next \in {"execute", "put", "import"} /\ deploy.sent = Before(deploy.next)
  BY <1>1 DEF DeployInv, InTurn
<1> DEFINE d == [deploy EXCEPT !.dialled = dialled]
<1> HIDE DEF dialled
<1>6. CASE Connects(deploy.addrs, up) /\ agreed
  <2> DEFINE sent == Append(deploy.sent, deploy.next)
  <2>1. deploy' = [d EXCEPT !.pc = "wait", !.sent = sent]
    BY <1>1, <1>6 DEF Ask, dialled, Deploying
  <2>2. device' = [device EXCEPT !.request = deploy.next, !.response = None]
    BY <1>1, <1>6 DEF Ask, Give, Deploying
  <2>3. sent \in Seq(Requests)
    BY <1>1, <1>5 DEF Requests, Deploying
  <2>4. sent = Append(Before(deploy.next), deploy.next)
    BY <1>5
  <2> HIDE DEF sent
  <2>5. deploy' \in Deploying
    BY <1>1, <1>4, <2>1, <2>3 DEF Deploying
  <2>6. /\ deploy'.pc = "wait" /\ deploy'.opts = deploy.opts /\ deploy'.next = deploy.next
        /\ deploy'.lookups = deploy.lookups /\ deploy'.dialled = dialled
        /\ deploy'.addrs = deploy.addrs /\ deploy'.sent = sent
        /\ deploy'.heard = deploy.heard /\ deploy'.socket = deploy.socket
    BY <1>1, <2>1 DEF Deploying
  <2>7. device' \in Device /\ device'.request = deploy.next /\ device'.response = None
        /\ device'.runs = device.runs
    BY <1>1, <1>5, <2>2 DEF Device, Requests
  <2>8. device.runs + Pending <= Runnable(Before(deploy.next))
    BY <1>5 DEF DeployInv
  <2>9. device'.runs + Pending' <= Runnable(sent) /\ sent \in Histories /\ sent # <<>>
        /\ (Len(sent) > 1 => deploy.next # "execute")
    <3>1. device.runs \in Nat /\ Pending \in {0, 1}
      BY <1>1 DEF Device, Pending
    <3>2. CASE deploy.next = "execute"
      <4>1. sent = <<"execute">> /\ Pending' = 1 /\ device.runs + Pending <= 0
        BY <2>4, <2>7, <2>8, <3>2, SentNext, RunnableOf DEF Pending
      <4> QED BY <2>7, <3>1, <4>1, RunnableOf DEF Histories
    <3>3. CASE deploy.next = "put"
      <4>1. sent = <<"execute", "put">> /\ Pending' = 0 /\ device.runs + Pending <= 1
        BY <2>4, <2>7, <2>8, <3>3, SentNext, RunnableOf DEF Pending
      <4> QED BY <2>7, <3>1, <3>3, <4>1, RunnableOf DEF Histories
    <3>4. CASE deploy.next = "import"
      <4>1. sent = <<"execute", "put", "import">> /\ Pending' = 1 /\ device.runs + Pending <= 1
        BY <2>4, <2>7, <2>8, <3>4, SentNext, RunnableOf DEF Pending
      <4> QED BY <2>7, <3>1, <3>4, <4>1, RunnableOf DEF Histories
    <3> QED BY <1>5, <3>2, <3>3, <3>4
  <2> QED BY <1>1, <1>2, <1>5, <2>4, <2>5, <2>6, <2>7, <2>9
        DEF DeployInv, DeployType, InTurn, Silent, Told
<1>7. CASE ~(Connects(deploy.addrs, up) /\ agreed)
  <2> DEFINE code == 4
  <2>1. deploy' = [d EXCEPT !.pc = "done", !.exit = code] /\ device' = device
    BY <1>1, <1>7 DEF Ask, dialled, Deploying
  <2>2. code \in 0 .. 5 /\ code = 4
    OBVIOUS
  <2> HIDE DEF code
  <2>3. deploy' \in Deploying
    BY <1>1, <1>4, <2>1, <2>2 DEF Deploying
  <2>4. /\ deploy'.pc = "done" /\ deploy'.opts = deploy.opts /\ deploy'.next = deploy.next
        /\ deploy'.lookups = deploy.lookups /\ deploy'.dialled = dialled
        /\ deploy'.addrs = deploy.addrs /\ deploy'.sent = deploy.sent /\ deploy'.exit = 4
        /\ deploy'.heard = deploy.heard /\ deploy'.socket = deploy.socket
    BY <1>1, <2>1, <2>2 DEF Deploying
  <2>5. 4 # None
    BY DialAssumption
  <2> QED BY <1>1, <1>2, <2>1, <2>3, <2>4, <2>5
        DEF DeployInv, DeployType, InTurn, Silent, Told, Pending, Runnable
<1> QED BY <1>6, <1>7

LEMMA InvHeard ==
  ASSUME DeployInv, Heard
  PROVE  DeployInv'
<1> DEFINE r == device.response
<1>1. /\ deploy \in Deploying /\ device \in Device /\ deploy.pc = "wait" /\ device' = device
      /\ r # None /\ deploy' = [Outcome(r) EXCEPT !.heard = r.status]
  BY DEF DeployInv, DeployType, Heard
<1>2. r \in Responses
  BY <1>1 DEF Device
<1>3. r.status \in {"ok", "redirect", "error"} /\ r.status # None
  BY <1>2, DeployAssumption DEF Responses
<1>4. /\ deploy.next \in {"execute", "put", "import"}
      /\ deploy.sent = Append(Before(deploy.next), deploy.next)
      /\ device.request = None
      /\ r.status = "ok" /\ deploy.next # "put" =>
           device.runs > 0 \/ (deploy.next # "execute" /\ r.body = "marker")
  BY <1>1 DEF DeployInv, InTurn, Told
<1> DEFINE heard == r.status
<1>5. heard = r.status
  OBVIOUS
<1> HIDE DEF r, heard
<1>6. ASSUME NEW code \in {0, 4, 5}, Outcome(r) = Exit(code),
             code = 0 => device.runs > 0 \/ (deploy.next = "import" /\ heard = "error"),
             code = 5 => deploy.next = "import"
      PROVE  DeployInv'
  <2>1. ASSUME code = 5 PROVE ToSet(deploy.sent) \cap {"import", "exec"} # {}
    <3>1. deploy.sent = <<"execute", "put", "import">>
      BY <1>4, <1>6, <2>1, SentNext
    <3>2. deploy.sent[3] = "import" /\ 3 \in DOMAIN deploy.sent
      BY <3>1
    <3> QED BY <3>2 DEF ToSet
  <2>2. deploy' = [Exit(code) EXCEPT !.heard = heard]
    BY <1>1, <1>5, <1>6
  <2> QED BY <1>1, <1>3, <1>4, <1>5, <1>6, <2>1, <2>2, InvExit
<1>7. ASSUME NEW request \in {"put", "import"}, Outcome(r) = Follow(request),
             deploy.next = IF request = "put" THEN "execute" ELSE "put"
      PROVE  DeployInv'
  <2>1. deploy' = [[deploy EXCEPT !.pc = "ask", !.next = request] EXCEPT !.heard = heard]
    BY <1>1, <1>5, <1>7 DEF Follow
  <2>2. heard \in {"ok", "redirect", "error", None} /\ heard # None
    BY <1>3, <1>5
  <2>3. deploy' \in Deploying
    BY <1>1, <2>1, <2>2 DEF Deploying, Requests
  <2>4. /\ deploy'.pc = "ask" /\ deploy'.next = request /\ deploy'.heard = heard
        /\ deploy'.opts = deploy.opts /\ deploy'.lookups = deploy.lookups
        /\ deploy'.dialled = deploy.dialled /\ deploy'.addrs = deploy.addrs
        /\ deploy'.sent = deploy.sent /\ deploy'.socket = deploy.socket
    BY <1>1, <2>1 DEF Deploying
  <2>5. deploy.sent = Before(request)
    BY <1>4, <1>7, SentNext
  <2> QED BY <1>1, <1>4, <2>2, <2>3, <2>4, <2>5
        DEF DeployInv, DeployType, InTurn, Silent, Told, Pending, Runnable
<1>8. CASE deploy.next = "put"
  <2>1. Outcome(r) = Follow("import") \/ Outcome(r) = Exit(4)
    BY <1>8 DEF Outcome
  <2> QED BY <1>6, <1>7, <1>8, <2>1
<1>9. CASE deploy.next = "execute"
  <2>1. \/ Outcome(r) = Exit(4) \/ Outcome(r) = Follow("put")
        \/ Outcome(r) = Exit(0) /\ r.status = "ok"
    BY <1>9 DEF Outcome
  <2>2. r.status = "ok" => device.runs > 0
    BY <1>4, <1>9
  <2> QED BY <1>6, <1>7, <1>9, <2>1, <2>2
<1>10. CASE deploy.next = "import"
  <2>1. \/ Outcome(r) = Exit(4) \/ Outcome(r) = Exit(5)
        \/ Outcome(r) = Exit(0) /\ r.body # "marker" /\ r.status # "redirect"
    BY <1>10 DEF Outcome
  <2>2. r.body # "marker" /\ r.status # "redirect" => device.runs > 0 \/ heard = "error"
    BY <1>3, <1>4, <1>5, <1>10
  <2> QED BY <1>6, <1>10, <2>1, <2>2
<1> QED BY <1>4, <1>8, <1>9, <1>10

LEMMA InvConnect ==
  ASSUME DeployInv, NEW up, NEW agreed, Connect(up, agreed)
  PROVE  DeployInv'
<1> DEFINE dialled == deploy.dialled \cup Tried(deploy.addrs, up)
<1>1. deploy \in Deploying /\ device \in Device /\ deploy.pc = "connect" /\ device' = device
  BY DEF DeployInv, DeployType, Connect
<1>2. dialled \subseteq ToSet(deploy.addrs)
  BY TriedKeeps DEF DeployInv
<1>3. ToSet(deploy.addrs) \subseteq Addrs
  BY <1>1 DEF ToSet, Deploying
<1>4. dialled \in SUBSET Addrs
  BY <1>2, <1>3
<1>5. CASE Connects(deploy.addrs, up) /\ agreed
  <2>1. deploy' = [[deploy EXCEPT !.socket = TRUE, !.pc = "upload"] EXCEPT !.dialled = dialled]
    BY <1>1, <1>5 DEF Connect, Deploying
  <2> HIDE DEF dialled
  <2>2. deploy' \in Deploying
    BY <1>1, <1>4, <2>1 DEF Deploying
  <2>3. /\ deploy'.pc = "upload" /\ deploy'.opts = deploy.opts /\ deploy'.dialled = dialled
        /\ deploy'.lookups = deploy.lookups /\ deploy'.addrs = deploy.addrs
        /\ deploy'.sent = deploy.sent /\ deploy'.heard = deploy.heard
    BY <1>1, <2>1 DEF Deploying
  <2> QED BY <1>1, <1>2, <2>2, <2>3
        DEF DeployInv, DeployType, InTurn, Silent, Told, Pending, Runnable
<1>6. CASE ~(Connects(deploy.addrs, up) /\ agreed)
  <2> DEFINE e == Exit(4)
  <2>1. e \in Deploying /\ e.pc = "done" /\ e.exit = 4 /\ ~e.socket /\ e.opts = deploy.opts
        /\ e.lookups = deploy.lookups /\ e.dialled = deploy.dialled /\ e.addrs = deploy.addrs
        /\ e.sent = deploy.sent /\ e.heard = deploy.heard
    BY <1>1, ExitKeeps
  <2>2. deploy' = [e EXCEPT !.dialled = dialled]
    BY <1>6, <2>1 DEF Connect
  <2> HIDE DEF e, dialled
  <2>3. deploy' \in Deploying
    BY <1>4, <2>1, <2>2 DEF Deploying
  <2>4. /\ deploy'.pc = "done" /\ deploy'.exit = 4 /\ ~deploy'.socket
        /\ deploy'.opts = deploy.opts /\ deploy'.lookups = deploy.lookups
        /\ deploy'.dialled = dialled /\ deploy'.addrs = deploy.addrs
        /\ deploy'.sent = deploy.sent /\ deploy'.heard = deploy.heard
    BY <2>1, <2>2 DEF Deploying
  <2>5. 4 # None
    BY DialAssumption
  <2> QED BY <1>1, <1>2, <2>3, <2>4, <2>5
        DEF DeployInv, DeployType, InTurn, Silent, Told, Pending, Runnable
<1> QED BY <1>5, <1>6

LEMMA InvUpload == DeployInv /\ Upload => DeployInv'
<1> SUFFICES ASSUME DeployInv, Upload PROVE DeployInv'
  OBVIOUS
<1>1. deploy \in Deploying /\ device \in Device /\ deploy.pc = "upload"
  BY DEF DeployInv, DeployType, Upload
<1>2. CASE deploy' = [deploy EXCEPT !.pc = "exec"] /\ device' = [device EXCEPT !.file = TRUE]
  <2>1. deploy' \in Deploying /\ device' \in Device
    BY <1>1, <1>2 DEF Deploying, Device
  <2>2. /\ deploy'.pc = "exec" /\ deploy'.opts = deploy.opts /\ deploy'.dialled = deploy.dialled
        /\ deploy'.lookups = deploy.lookups /\ deploy'.addrs = deploy.addrs
        /\ deploy'.sent = deploy.sent /\ deploy'.heard = deploy.heard
    BY <1>1, <1>2 DEF Deploying
  <2>3. /\ device'.request = device.request /\ device'.response = device.response
        /\ device'.runs = device.runs
    BY <1>1, <1>2 DEF Device
  <2> QED BY <1>1, <2>1, <2>2, <2>3
        DEF DeployInv, DeployType, InTurn, Silent, Told, Pending, Runnable
<1>3. CASE deploy' = Exit(1) /\ UNCHANGED device
  BY <1>1, <1>3, InvLeave
<1> QED BY <1>2, <1>3 DEF Upload

LEMMA InvExec == DeployInv /\ Exec => DeployInv'
<1> SUFFICES ASSUME DeployInv, Exec PROVE DeployInv'
  OBVIOUS
<1>1. deploy \in Deploying /\ device \in Device /\ deploy.pc = "exec" /\ deploy.sent = <<>>
  BY DEF DeployInv, DeployType, InTurn, Exec
<1>2. CASE Give("exec")
           /\ deploy' = [deploy EXCEPT !.pc = "poll", !.left = Deadline, !.next = "exec",
                                       !.sent = Append(@, "exec")]
  <2>1. Append(deploy.sent, "exec") = <<"exec">>
    BY <1>1, SentNext
  <2>2. deploy' = [deploy EXCEPT !.pc = "poll", !.left = Deadline, !.next = "exec",
                                 !.sent = <<"exec">>]
    BY <1>1, <1>2, <2>1 DEF Deploying
  <2>3. <<"exec">> \in Seq(Requests) /\ Deadline \in 0 .. Deadline
    BY DeployAssumption DEF Requests
  <2>4. deploy' \in Deploying
    BY <1>1, <2>2, <2>3 DEF Deploying, Requests
  <2>5. /\ deploy'.pc = "poll" /\ deploy'.opts = deploy.opts /\ deploy'.dialled = deploy.dialled
        /\ deploy'.lookups = deploy.lookups /\ deploy'.addrs = deploy.addrs
        /\ deploy'.sent = <<"exec">> /\ deploy'.next = "exec"
    BY <1>1, <2>2 DEF Deploying
  <2>6. device' \in Device /\ device'.request = "exec" /\ device'.response = None
        /\ device'.runs = device.runs
    BY <1>1, <1>2 DEF Device, Give, Requests
  <2>7. device.runs + Pending <= 0 /\ Pending \in {0, 1} /\ device.runs \in Nat
    BY <1>1, RunnableOf DEF DeployInv, Pending, Device
  <2>8. device'.runs + Pending' <= Runnable(<<"exec">>)
    BY <2>6, <2>7, RunnableOf DEF Pending
  <2> QED BY <1>1, <2>4, <2>5, <2>6, <2>8, RunnableOf
        DEF DeployInv, DeployType, InTurn, Silent, Told, Histories
<1>3. CASE deploy' = Exit(1) /\ UNCHANGED device
  BY <1>1, <1>3, InvLeave
<1> QED BY <1>2, <1>3 DEF Exec

LEMMA InvPoll == DeployInv /\ (Poll \/ Imported) => DeployInv'
<1> SUFFICES ASSUME DeployInv, Poll \/ Imported PROVE DeployInv'
  OBVIOUS
<1>1. /\ deploy \in Deploying /\ device \in Device /\ deploy.pc = "poll" /\ device' = device
      /\ deploy.next = "exec" /\ deploy.sent = <<"exec">>
  BY DEF DeployInv, DeployType, InTurn, Poll, Imported
<1>2. ToSet(deploy.sent) \cap {"import", "exec"} # {}
  <2>1. deploy.sent[1] = "exec" /\ 1 \in DOMAIN deploy.sent
    BY <1>1
  <2> QED BY <2>1 DEF ToSet
<1>3. CASE Poll
  <2>1. CASE deploy.left = 0
    BY <1>1, <1>2, <1>3, <2>1, InvLeave DEF Poll
  <2>2. CASE deploy.left # 0
    <3> DEFINE left == deploy.left - 1
    <3>1. left \in 0 .. Deadline
      BY <1>1, <2>2, DeployAssumption DEF Deploying
    <3>2. deploy' = [deploy EXCEPT !.left = left]
      BY <1>1, <1>3, <2>2 DEF Poll, Deploying
    <3> HIDE DEF left
    <3>3. deploy' \in Deploying
      BY <1>1, <3>1, <3>2 DEF Deploying
    <3>4. /\ deploy'.pc = deploy.pc /\ deploy'.opts = deploy.opts /\ deploy'.next = deploy.next
          /\ deploy'.dialled = deploy.dialled /\ deploy'.lookups = deploy.lookups
          /\ deploy'.addrs = deploy.addrs /\ deploy'.sent = deploy.sent
          /\ deploy'.heard = deploy.heard /\ deploy'.socket = deploy.socket
      BY <1>1, <3>2 DEF Deploying
    <3> QED BY <1>1, <3>3, <3>4
          DEF DeployInv, DeployType, InTurn, Silent, Told, Pending, Runnable
  <2> QED BY <2>1, <2>2
<1>4. CASE Imported
  <2> DEFINE r == device.response
             code == IF r.body = "fine" /\ r.status = "ok" THEN 0 ELSE 5
             heard == r.status
  <2>1. r # None /\ deploy' = [Exit(code) EXCEPT !.heard = heard]
    BY <1>4 DEF Imported
  <2>2. r \in Responses
    BY <1>1, <2>1 DEF Device
  <2>3. heard \in {"ok", "redirect", "error", None} /\ heard # None
    BY <2>2, DeployAssumption DEF Responses
  <2>4. device.request = None /\ (code = 0 => device.runs > 0)
    BY <1>1, <2>1 DEF DeployInv, Told
  <2>5. code \in {0, 5}
    OBVIOUS
  <2> HIDE DEF code, heard
  <2> QED BY <1>1, <1>2, <2>1, <2>3, <2>4, <2>5, InvExit
<1> QED BY <1>3, <1>4

LEMMA InvDrop ==
  ASSUME DeployInv, device.request # None, Drop
  PROVE  DeployInv'
<1>1. deploy \in Deploying /\ device \in Device /\ deploy' = deploy
      /\ device' = [device EXCEPT !.request = None]
  BY DEF DeployInv, DeployType, Drop
<1>2. device' \in Device /\ device'.request = None /\ device'.response = device.response
      /\ device'.runs = device.runs
  BY <1>1 DEF Device
<1>3. device'.runs + Pending' <= device.runs + Pending
  BY <1>1, <1>2, DeployAssumption DEF Pending, Device, Requests
<1>4. device'.runs + Pending' <= Runnable(deploy'.sent)
  <2>1. /\ device.runs \in Nat /\ Pending \in Nat /\ device'.runs \in Nat /\ Pending' \in Nat
        /\ Runnable(deploy.sent) \in Nat
    BY <1>1, <1>2 DEF Pending, Runnable, Device
  <2> QED BY <1>1, <1>3, <2>1 DEF DeployInv
<1> QED BY <1>1, <1>2, <1>4 DEF DeployInv, DeployType, InTurn, Silent, Told

LEMMA InvCarry ==
  ASSUME DeployInv, device.request # None, NEW r \in Responses, NEW ran \in BOOLEAN, Carry(r, ran)
  PROVE  DeployInv'
<1> DEFINE response == IF deploy.pc \in {"wait", "poll"} THEN r ELSE None
           file == device.file \/ (device.request = "put" /\ r.status = "ok")
           runs == IF ran THEN device.runs + 1 ELSE device.runs
<1>1. deploy \in Deploying /\ device \in Device /\ deploy' = deploy
      /\ device' = [request |-> None, response |-> response, file |-> file, runs |-> runs]
  BY DEF DeployInv, DeployType, Carry
<1>2. response \in Responses \cup {None} /\ file \in BOOLEAN /\ runs \in Nat
  BY <1>1 DEF Device
<1>3. /\ response # None => deploy.pc \in {"wait", "poll"} /\ response = r
      /\ runs > 0 \/ ~ran
  BY <1>1 DEF Device
<1>4. runs <= device.runs + Pending
  <2>1. ran => device.request \in {"execute", "import", "exec"}
    BY <1>1 DEF Carry, Device, Requests
  <2>2. device.runs \in Nat /\ (ran => Pending = 1) /\ Pending \in Nat
    BY <1>1, <2>1 DEF Device, Pending
  <2> QED BY <2>2
<1> HIDE DEF response, file, runs
<1>5. device' \in Device /\ device'.request = None /\ device'.response = response
      /\ device'.runs = runs
  BY <1>1, <1>2 DEF Device
<1>6. device'.runs + Pending' <= Runnable(deploy'.sent)
  <2>1. /\ device.runs \in Nat /\ Pending \in Nat /\ Runnable(deploy.sent) \in Nat
        /\ Pending' = 0
    BY <1>1, <1>5, DeployAssumption DEF Pending, Runnable, Device, Requests
  <2> QED BY <1>1, <1>2, <1>4, <1>5, <2>1 DEF DeployInv
<1>7. Told'
  <2>1. ASSUME response # None, r.status = "ok", deploy.next # "put"
        PROVE  runs > 0 \/ (deploy.next # "execute" /\ r.body = "marker")
    BY <1>3, <2>1 DEF Carry, DeployInv, Told
  <2> QED BY <1>1, <1>3, <1>5, <2>1 DEF Told
<1> QED BY <1>1, <1>5, <1>6, <1>7 DEF DeployInv, DeployType, InTurn, Silent

\* A step of the deploy, of the script or of the device
LEMMA InvDeploy ==
  ASSUME DeployInv, DeployNext \/ UNCHANGED deployVars
  PROVE  DeployInv'
<1>1. CASE \E o \in Options : DeployStart(o)
  BY <1>1, InvDeployStart
<1>2. CASE \E answer \in Answers : Target(answer)
  BY <1>2, InvTarget
<1>3. CASE Talk
  BY <1>3, InvAsk, InvConnect DEF Talk
<1>4. CASE NoBundle \/ Lost
  BY <1>4, InvLeave DEF NoBundle, Lost
<1>5. CASE Heard
  BY <1>5, InvHeard
<1>6. CASE Poll \/ Imported
  BY <1>6, InvPoll
<1>7. CASE Upload
  BY <1>7, InvUpload
<1>8. CASE Exec
  BY <1>8, InvExec
<1>9. CASE DeviceStep
  BY <1>9, InvDrop, InvCarry DEF DeviceStep
<1>10. CASE UNCHANGED deployVars
  <2>1. deploy' = deploy /\ device' = device
    BY <1>10 DEF deployVars
  <2> QED BY <2>1 DEF DeployInv, DeployType, InTurn, Silent, Told, Pending
<1> QED BY <1>1, <1>2, <1>3, <1>4, <1>5, <1>6, <1>7, <1>8, <1>9, <1>10
      DEF DeployNext, DeployStep, Timed, Untimed

\* A CA file that is not there is found out by the first request, and only the
\* errors of SSH come later.
Bundle ==
  /\ deploy.pc \in {"connect", "upload", "exec", "poll"} => Transport(deploy.opts) # "rest"
  /\ deploy.pc = "ask" /\ deploy.opts.missing => deploy.dialled = {} /\ deploy.sent = <<>>
  /\ deploy.pc = "wait" => ~deploy.opts.missing
  /\ deploy.pc = "done" /\ deploy.exit = 1 /\ Transport(deploy.opts) = "rest" =>
       deploy.dialled = {} /\ deploy.sent = <<>>

\* Every step of the deploy, of the script or of the device, keeps it so.
LEMMA BundleKept ==
  ASSUME DeployInv, Bundle, DeployNext \/ UNCHANGED deployVars
  PROVE  Bundle'
<1>1. deploy \in Deploying
  BY DEF DeployInv, DeployType
<1>2. ASSUME NEW code \in {0, 2, 3, 4, 5}, NEW e, e = Exit(code),
             deploy'.pc = e.pc, deploy'.exit = e.exit
      PROVE  Bundle'
  <2>1. e.pc = "done" /\ e.exit = code
    BY <1>1, <1>2, ExitKeeps
  <2> QED BY <1>2, <2>1 DEF Bundle
<1>3. CASE \E o \in Options : DeployStart(o)
  <2>1. PICK o \in Options : DeployStart(o)
    BY <1>3
  <2>2. Gate(o) \in {None, 0, 2, 3}
    BY DEF Gate
  <2>3. CASE Gate(o) = None
    <3>1. deploy' = [deploy EXCEPT !.pc = "target", !.opts = o]
      BY <2>1, <2>3 DEF DeployStart
    <3>2. deploy'.pc = "target"
      BY <1>1, <3>1 DEF Deploying
    <3> QED BY <3>2 DEF Bundle
  <2>4. CASE Gate(o) # None
    <3> DEFINE e == Exit(Gate(o))
    <3>1. deploy' = [e EXCEPT !.opts = o]
      BY <2>1, <2>4 DEF DeployStart
    <3>2. e \in Deploying
      BY <1>1, <2>2, <2>4, ExitKeeps
    <3>3. deploy'.pc = e.pc /\ deploy'.exit = e.exit
      <4> HIDE DEF e
      <4> QED BY <3>1, <3>2 DEF Deploying
    <3> QED BY <1>2, <2>2, <2>4, <3>3
  <2> QED BY <2>3, <2>4
<1>4. CASE \E answer \in Answers : Target(answer)
  <2>1. PICK answer \in Answers : Target(answer)
    BY <1>4
  <2>2. deploy.dialled = {} /\ deploy.sent = <<>>
    BY <2>1 DEF Target, DeployInv, Silent
  <2>3. CASE Accepted(answer)
    <3> DEFINE pc == IF Transport(deploy.opts) = "rest" THEN "ask" ELSE "connect"
               addrs == Pinned(answer)
               once == deploy.lookups + 1
    <3>1. deploy' = [[deploy EXCEPT !.addrs = addrs, !.next = "execute", !.pc = pc]
                       EXCEPT !.lookups = once]
      BY <1>1, <2>1, <2>3 DEF Target, Deploying
    <3> HIDE DEF pc, addrs, once
    <3>2. deploy'.pc = pc /\ deploy'.opts = deploy.opts /\ deploy'.dialled = deploy.dialled
          /\ deploy'.sent = deploy.sent
      BY <1>1, <3>1 DEF Deploying
    <3> QED BY <2>2, <3>2 DEF Bundle, pc
  <2>4. CASE ~Accepted(answer)
    <3> DEFINE e == Exit(4)
    <3>1. deploy' = [e EXCEPT !.lookups = e.lookups + 1]
      BY <2>1, <2>4 DEF Target
    <3>2. e \in Deploying
      BY <1>1, ExitKeeps
    <3>3. deploy'.pc = e.pc /\ deploy'.exit = e.exit
      <4> HIDE DEF e
      <4> QED BY <3>1, <3>2 DEF Deploying
    <3> QED BY <1>2, <3>3
  <2> QED BY <2>3, <2>4
<1>5. CASE \E up \in SUBSET Addrs, agreed \in BOOLEAN : Ask(up, agreed)
  <2>1. PICK up \in SUBSET Addrs, agreed \in BOOLEAN : Ask(up, agreed)
    BY <1>5
  <2>2. ~deploy.opts.missing /\ deploy'.opts = deploy.opts
        /\ (deploy'.pc = "wait" \/ (deploy'.pc = "done" /\ deploy'.exit = 4))
    BY <1>1, <2>1 DEF Ask, Deploying
  <2> QED BY <2>2 DEF Bundle
<1>6. CASE \E up \in SUBSET Addrs, agreed \in BOOLEAN : Connect(up, agreed)
  <2>1. PICK up \in SUBSET Addrs, agreed \in BOOLEAN : Connect(up, agreed)
    BY <1>6
  <2> DEFINE dialled == deploy.dialled \cup Tried(deploy.addrs, up)
             e == Exit(4)
  <2>2. CASE Connects(deploy.addrs, up) /\ agreed
    <3>1. deploy'.pc = "upload" /\ deploy'.opts = deploy.opts
      BY <1>1, <2>1, <2>2 DEF Connect, Deploying
    <3>2. Transport(deploy.opts) # "rest"
      BY <2>1 DEF Connect, Bundle
    <3> QED BY <3>1, <3>2 DEF Bundle
  <2>3. CASE ~(Connects(deploy.addrs, up) /\ agreed)
    <3>1. e \in Deploying
      BY <1>1, ExitKeeps
    <3>2. e.dialled = deploy.dialled
      BY <1>1, ExitKeeps
    <3>3. deploy' = [e EXCEPT !.dialled = dialled]
      BY <2>1, <2>3, <3>2 DEF Connect
    <3>4. deploy'.pc = e.pc /\ deploy'.exit = e.exit
      <4> HIDE DEF e, dialled
      <4> QED BY <3>1, <3>3 DEF Deploying
    <3> QED BY <1>2, <3>4
  <2> QED BY <2>2, <2>3
<1>7. CASE NoBundle
  <2>1. deploy' = Exit(1) /\ deploy.dialled = {} /\ deploy.sent = <<>>
    BY <1>7 DEF NoBundle, Bundle
  <2>2. deploy'.pc = "done" /\ deploy'.dialled = {} /\ deploy'.sent = <<>>
    BY <1>1, <2>1, ExitKeeps
  <2> QED BY <2>2 DEF Bundle
<1>8. CASE Lost
  BY <1>2, <1>8 DEF Lost
<1>9. CASE Heard
  <2> DEFINE r == device.response
             o == Outcome(r)
             heard == r.status
  <2>1. deploy' = [o EXCEPT !.heard = heard] /\ deploy.pc = "wait"
    BY <1>9 DEF Heard
  <2>2. \/ \E code \in {0, 4, 5} : o = Exit(code)
        \/ \E request : o = Follow(request)
    BY DEF Outcome
  <2> HIDE DEF o, heard
  <2>3. ASSUME NEW code \in {0, 4, 5}, o = Exit(code) PROVE Bundle'
    <3>1. o \in Deploying
      BY <1>1, <2>3, ExitKeeps
    <3>2. deploy'.pc = o.pc /\ deploy'.exit = o.exit
      BY <2>1, <3>1 DEF Deploying
    <3> QED BY <1>2, <2>3, <3>2
  <2>4. ASSUME NEW request, o = Follow(request) PROVE Bundle'
    <3>1. deploy' = [[deploy EXCEPT !.pc = "ask", !.next = request] EXCEPT !.heard = heard]
      BY <2>1, <2>4 DEF Follow
    <3>2. deploy'.pc = "ask" /\ deploy'.opts = deploy.opts
      BY <1>1, <3>1 DEF Deploying
    <3>3. ~deploy.opts.missing
      BY <2>1 DEF Bundle
    <3> QED BY <3>2, <3>3 DEF Bundle
  <2> QED BY <2>2, <2>3, <2>4
<1>10. CASE Upload \/ Exec \/ Poll \/ Imported
  <2>1. deploy.pc \in {"upload", "exec", "poll"} /\ Transport(deploy.opts) # "rest"
    BY <1>10 DEF Upload, Exec, Poll, Imported, Bundle
  <2>2. deploy'.opts = deploy.opts /\ deploy'.pc \in {"upload", "exec", "poll", "done"}
    BY <1>1, <1>10 DEF Upload, Exec, Poll, Imported, Exit, Deploying
  <2> QED BY <2>1, <2>2 DEF Bundle
<1>11. CASE DeviceStep \/ UNCHANGED deployVars
  <2>1. deploy' = deploy
    BY <1>11 DEF DeviceStep, Drop, Carry, deployVars
  <2> QED BY <2>1 DEF Bundle
<1> QED BY <1>3, <1>4, <1>5, <1>6, <1>7, <1>8, <1>9, <1>10, <1>11
      DEF DeployNext, DeployStep, Timed, Untimed, Talk

-----------------------------------------------------------------------------
(* The live check *)

\* The two ways in which a GET times out
TimedOuts == {[status |-> s, body |-> "none"] : s \in {"timeout", "slow"}}

\* At most one GET, a timeout, has come before this one.
Gotten(g) == check.gets = <<g>> \/ \E t \in TimedOuts : check.gets = <<t, g>>

Responded(g) == g \in Gets /\ g.status \notin Failures

Shaken == Handshake(world.tls, Authority, world.peer)

CheckInv ==
  /\ CheckType
  /\ check.pc # "gate" => world \in World
  /\ check.pc \in {"gate", "target", "password"} => check.gets = <<>>
  /\ check.pc \in {"target", "password"} => world.problem \in {None, "password"}
  /\ check.pc \in {"password", "get", "read"} => Accepted(world.answer)
  /\ check.pc \in {"get", "read"} => world.problem = None
  /\ check.pc = "get" => check.gets = <<>> \/ \E t \in TimedOuts : check.gets = <<t>>
  /\ check.pc = "read" => Shaken /\ \E g \in Gets : Responded(g) /\ Gotten(g)
  /\ check.asked \cap Denied = {}
  /\ check.pc = "done" /\ ~world.dry =>
       IF check.exit = 0
         THEN Gotten(List) /\ Shaken /\ world.problem = None /\ Accepted(world.answer)
         ELSE ~Gotten(List)

LEMMA CheckInvInit == CheckInit => CheckInv
<1> SUFFICES ASSUME CheckInit PROVE CheckInv
  OBVIOUS
<1>1. check = [pc |-> "gate", exit |-> None, gets |-> <<>>, asked |-> {}] /\ world = None
  BY DEF CheckInit
<1>2. check \in Checking
  BY <1>1 DEF Checking
<1> QED BY <1>1, <1>2 DEF CheckInv, CheckType

LEMMA InvCheckStart ==
  ASSUME CheckInv, NEW w \in World, CheckStart(w)
  PROVE  CheckInv'
<1>1. check' = check /\ world' = w /\ world \notin World
  BY CheckAssumption DEF CheckStart
<1>2. check.pc = "gate" /\ check.gets = <<>>
  BY <1>1 DEF CheckInv, CheckType
<1> QED BY <1>1, <1>2 DEF CheckInv, CheckType

\* A list is in neither place before a first answer.
LEMMA NoneGotten == check.gets = <<>> => ~Gotten(List)
BY DEF Gotten

\* The answer that counts is the last one.
LEMMA GottenLast ==
  ASSUME NEW g, Gotten(g)
  PROVE  Last(check.gets) = g
<1>1. CASE check.gets = <<g>>
  <2>1. Len(check.gets) = 1 /\ check.gets[1] = g
    BY <1>1
  <2> QED BY <2>1 DEF Last
<1>2. ASSUME NEW t, check.gets = <<t, g>> PROVE Last(check.gets) = g
  <2>1. Len(check.gets) = 2 /\ check.gets[2] = g
    BY <1>2
  <2> QED BY <2>1 DEF Last
<1> QED BY <1>1, <1>2 DEF Gotten

LEMMA InvCheckGate == CheckInv /\ CheckGate => CheckInv'
<1> SUFFICES ASSUME CheckInv, CheckGate PROVE CheckInv'
  OBVIOUS
<1>1. /\ check \in Checking /\ world \in World /\ world' = world /\ check.gets = <<>>
      /\ check.pc = "gate"
  BY DEF CheckInv, CheckType, CheckGate, At
<1>2. ASSUME NEW code \in {0, 2, 4}, End(code), code = 0 => world.dry PROVE CheckInv'
  <2>1. check' = [check EXCEPT !.pc = "done", !.exit = code]
    BY <1>2 DEF End
  <2>2. check' \in Checking /\ check'.pc = "done" /\ check'.exit = code
        /\ check'.gets = check.gets /\ check'.asked = check.asked
    BY <1>1, <2>1 DEF Checking
  <2> QED BY <1>1, <1>2, <2>2, NoneGotten DEF CheckInv, CheckType, Gotten
<1>3. CASE /\ GoTo("target")
           /\ world.problem \notin {"no host", "fingerprint", "host", "port"}
  <2>1. check' \in Checking /\ check'.pc = "target"
        /\ check'.gets = check.gets /\ check'.asked = check.asked
    BY <1>1, <1>3 DEF Checking, GoTo
  <2>2. world.problem \in {None, "password"}
    BY <1>1, <1>3 DEF World, Problems
  <2> QED BY <1>1, <2>1, <2>2 DEF CheckInv, CheckType
<1>4. CASE world.problem \notin {"no host", "fingerprint", "host", "port"} /\ ~world.dry
  BY <1>3, <1>4 DEF CheckGate
<1>5. CASE world.problem = "no host"
  <2>1. End(2)
    BY <1>5 DEF CheckGate
  <2> QED BY <1>2, <2>1
<1>6. CASE world.problem \in {"fingerprint", "host", "port"}
  <2>1. End(4)
    BY <1>6 DEF CheckGate
  <2> QED BY <1>2, <2>1
<1>7. CASE world.problem \notin {"no host", "fingerprint", "host", "port"} /\ world.dry
  <2>1. End(0)
    BY <1>7 DEF CheckGate
  <2> QED BY <1>2, <1>7, <2>1
<1> QED BY <1>4, <1>5, <1>6, <1>7

LEMMA InvCheckTarget == CheckInv /\ (CheckTarget \/ AskPassword) => CheckInv'
<1> SUFFICES ASSUME CheckInv, CheckTarget \/ AskPassword PROVE CheckInv'
  OBVIOUS
<1>1. /\ check \in Checking /\ world \in World /\ world' = world /\ check.gets = <<>>
      /\ check.pc \in {"target", "password"} /\ world.problem \in {None, "password"}
      /\ check.pc = "password" => Accepted(world.answer)
  BY DEF CheckInv, CheckType, CheckTarget, AskPassword, At
<1>2. ASSUME NEW code \in {2, 4}, End(code) PROVE CheckInv'
  <2>1. check' = [check EXCEPT !.pc = "done", !.exit = code]
    BY <1>2 DEF End
  <2>2. check' \in Checking /\ check'.pc = "done" /\ check'.exit = code
        /\ check'.gets = check.gets /\ check'.asked = check.asked
    BY <1>1, <2>1 DEF Checking
  <2> QED BY <1>1, <2>2, NoneGotten DEF CheckInv, CheckType, Gotten
<1>3. ASSUME NEW pc \in {"password", "get"}, GoTo(pc), Accepted(world.answer),
             pc = "get" => world.problem = None
      PROVE  CheckInv'
  <2>1. check' \in Checking /\ check'.pc = pc
        /\ check'.gets = check.gets /\ check'.asked = check.asked
    BY <1>1, <1>3 DEF Checking, GoTo
  <2> QED BY <1>1, <1>3, <2>1 DEF CheckInv, CheckType
<1> QED BY <1>1, <1>2, <1>3 DEF CheckTarget, AskPassword, At

LEMMA InvGet ==
  ASSUME CheckInv, NEW g \in Gets, Get(g)
  PROVE  CheckInv'
<1> DEFINE gets == Append(check.gets, g)
           asked == check.asked \cup ToSet(Pinned(world.answer))
<1>1. /\ check \in Checking /\ world \in World /\ world' = world /\ check.pc = "get"
      /\ check.gets = <<>> \/ \E t \in TimedOuts : check.gets = <<t>>
      /\ Accepted(world.answer) /\ world.problem = None
  BY DEF CheckInv, CheckType, Get, At
<1>2. PICK pc \in After(g) :
        check' = [check EXCEPT !.gets = Append(@, g),
                    !.asked = @ \cup ToSet(Pinned(world.answer)),
                    !.pc = pc, !.exit = IF pc = "done" THEN 4 ELSE @]
  BY DEF Get
<1> DEFINE exit == IF pc = "done" THEN 4 ELSE check.exit
<1>3. check' = [check EXCEPT !.gets = gets, !.asked = asked, !.pc = pc, !.exit = exit]
  BY <1>1, <1>2 DEF Checking
<1>4. gets \in Seq(Gets) /\ pc \in {"get", "done", "read"} /\ exit \in {0, 2, 4, None}
  BY <1>1 DEF Checking, After
<1>5. asked \in SUBSET Addrs /\ asked \cap Denied = {}
  <2>1. world.answer \in Seq(Addrs)
    BY <1>1, DialAssumption DEF World
  <2>2. ToSet(Pinned(world.answer)) \subseteq ToSet(world.answer)
    BY <2>1, PinnedKeeps
  <2>3. ToSet(world.answer) \subseteq Addrs
    BY <2>1 DEF ToSet
  <2> QED BY <1>1, <2>2, <2>3 DEF Accepted, CheckInv, Checking
<1>6. gets = <<g>> \/ \E t \in TimedOuts : gets = <<t, g>>
  <2>1. CASE check.gets = <<>>
    BY <2>1
  <2>2. ASSUME NEW t \in TimedOuts, check.gets = <<t>> PROVE gets = <<t, g>>
    <3>1. t \in Gets
      BY DEF TimedOuts, Gets, Failures
    <3> DEFINE s == Append(<<t>>, g)
               u == <<t, g>>
    <3>2. s \in Seq(Gets) /\ Len(s) = 2
      BY <3>1
    <3>3. u \in Seq(Gets) /\ Len(u) = 2
      BY <3>1
    <3>4. \A i \in 1 .. 2 : s[i] = u[i]
      OBVIOUS
    <3> HIDE DEF s, u
    <3>5. s = u
      BY <3>2, <3>3, <3>4, SeqEqual
    <3> QED BY <2>2, <3>5 DEF s, u
  <2> QED BY <1>1, <2>1, <2>2
<1>7. pc = "get" => g \in TimedOuts /\ check.gets = <<>> /\ gets = <<g>>
  <2>1. pc = "get" => g.status \in {"timeout", "slow"} /\ check.gets = <<>>
    BY DEF After, Failures
  <2>2. g.status \in {"timeout", "slow"} => g \in TimedOuts
    BY DEF Gets, TimedOuts, Failures
  <2>3. check.gets = <<>> => gets = <<g>>
    OBVIOUS
  <2> QED BY <2>1, <2>2, <2>3
<1>8. pc = "read" => Responded(g) /\ Shaken
  BY DEF Get, After, Responded, Shaken
<1>9. pc = "done" => exit = 4 /\ g # List
  BY DEF After, Failures, List
<1>10. check'.gets = gets /\ g # List => ~Gotten(List)'
  <2>1. gets[Len(gets)] = g
    <3>1. gets = <<g>> => Len(gets) = 1 /\ gets[1] = g
      OBVIOUS
    <3>2. \A t : gets = <<t, g>> => Len(gets) = 2 /\ gets[2] = g
      OBVIOUS
    <3> HIDE DEF gets
    <3> QED BY <1>6, <3>1, <3>2
  <2> HIDE DEF gets
  <2>2. gets = <<List>> => gets[Len(gets)] = List
    OBVIOUS
  <2>3. ASSUME NEW t, gets = <<t, List>> PROVE gets[Len(gets)] = List
    <3>1. Len(gets) = 2 /\ gets[2] = List
      BY <2>3
    <3> QED BY <3>1
  <2>4. ASSUME check'.gets = gets, g # List PROVE ~Gotten(List)'
    <3>1. gets # <<List>> /\ \A t : gets # <<t, List>>
      BY <2>1, <2>2, <2>3, <2>4
    <3> QED BY <2>4, <3>1 DEF Gotten
  <2> QED BY <2>4
<1> HIDE DEF gets, asked, exit
<1>11. check' \in Checking /\ check'.gets = gets /\ check'.asked = asked /\ check'.pc = pc
       /\ check'.exit = exit
  BY <1>1, <1>3, <1>4, <1>5 DEF Checking
<1> QED BY <1>1, <1>4, <1>5, <1>6, <1>7, <1>8, <1>9, <1>10, <1>11
      DEF CheckInv, CheckType, Gotten, Shaken, Authority

LEMMA InvRead == CheckInv /\ (ReadRequests \/ ReadUrllib) => CheckInv'
<1> SUFFICES ASSUME CheckInv, ReadRequests \/ ReadUrllib PROVE CheckInv'
  OBVIOUS
<1> DEFINE r == Last(check.gets)
<1>1. /\ check \in Checking /\ world \in World /\ world' = world /\ check.pc = "read"
      /\ Shaken /\ world.problem = None /\ Accepted(world.answer)
  BY DEF CheckInv, CheckType, ReadRequests, ReadUrllib, At
<1>2. PICK g \in Gets : Responded(g) /\ Gotten(g)
  BY <1>1 DEF CheckInv
<1>3. r = g
  BY <1>2, GottenLast
<1>4. PICK code \in {0, 4} : End(code) /\ (code = 0 <=> g = List)
  BY <1>3 DEF ReadRequests, ReadUrllib, List
<1>5. check' = [check EXCEPT !.pc = "done", !.exit = code]
  BY <1>4 DEF End
<1>6. check' \in Checking /\ check'.pc = "done" /\ check'.exit = code
      /\ check'.gets = check.gets /\ check'.asked = check.asked
  BY <1>1, <1>5 DEF Checking
<1>7. Gotten(List) <=> g = List
  BY <1>2, <1>3, GottenLast
<1> QED BY <1>1, <1>4, <1>6, <1>7
      DEF CheckInv, CheckType, Gotten, Shaken, Authority

LEMMA InvCheck ==
  ASSUME CheckInv, CheckNext \/ UNCHANGED checkVars
  PROVE  CheckInv'
<1>1. CASE UNCHANGED checkVars
  BY <1>1 DEF checkVars, CheckInv, CheckType, Gotten, Shaken, Authority
<1>2. CASE CheckNext
  BY <1>2, InvCheckStart, InvCheckGate, InvCheckTarget, InvGet, InvRead DEF CheckNext, CheckStep
<1> QED BY <1>1, <1>2

-----------------------------------------------------------------------------
(* The theorems *)

Inv == DeployInv /\ Bundle /\ CheckInv

\* Whatever the scripts and the device do, both invariants hold.
LEMMA InvHolds == Spec => []Inv
<1>1. Init => Inv
  BY DeployInvInit, CheckInvInit DEF Init, Inv, DeployInit, NotStarted, Bundle
<1>2. Inv /\ [Next]_vars => Inv'
  <2> SUFFICES ASSUME Inv, [Next]_vars PROVE Inv'
    OBVIOUS
  <2>1. DeployNext \/ UNCHANGED deployVars
    BY DEF Next, Start, Script, DeviceStep, DeployNext, vars, deployVars
  <2>2. CheckNext \/ UNCHANGED checkVars
    BY DEF Next, Start, Script, CheckNext, vars, checkVars
  <2> QED BY <2>1, <2>2, InvDeploy, BundleKept, InvCheck DEF Inv
<1> QED BY <1>1, <1>2, PTL DEF Spec

\* Both scripts and the device keep their types: no exit code but those listed,
\* a deadline that is never passed, no address that is not a resolver's.
THEOREM TypeCorrect == Spec => []TypeOK
<1>1. Inv => TypeOK
  BY DEF Inv, DeployInv, CheckInv, TypeOK
<1> QED BY <1>1, InvHolds, PTL

\* The exit code of the deploy tells what went over the network, whether the
\* script has run, and that no socket is left open.
THEOREM ExitTold == Spec => []ExitsTell
<1>1. Inv => ExitsTell
  <2> SUFFICES ASSUME Inv, deploy.pc = "done" PROVE ExitsTell
    BY DEF ExitsTell
  <2>1. DeployInv /\ Bundle
    BY DEF Inv
  <2>2. deploy.sent = <<>> => device.runs = 0
    <3>1. device.runs \in Nat /\ Pending \in Nat
      BY <2>1 DEF DeployInv, DeployType, Device, Pending
    <3> QED BY <2>1, <3>1, RunnableOf DEF DeployInv
  <2> QED BY <2>1, <2>2 DEF DeployInv, Bundle, Silent, ExitsTell
<1> QED BY <1>1, InvHolds, PTL

\* What is sent, and how many of its requests run the script
LEMMA SentOnce ==
  ASSUME NEW sent \in Histories
  PROVE  /\ IsInjective(sent)
         /\ Runnable(sent) = Cardinality(ToSet(sent) \cap {"execute", "import", "exec"})
         /\ Runnable(sent) > 1 => sent = <<"execute", "put", "import">>
<1> DEFINE running == {"execute", "import", "exec"}
<1>1. Cardinality({}) = 0 /\ Cardinality({"execute"}) = 1 /\ Cardinality({"exec"}) = 1
  BY FS_EmptySet, FS_Singleton
<1>2. Cardinality({"execute", "import"}) = 2
  <2>1. IsFiniteSet({"execute"})
    BY FS_Singleton
  <2>2. Cardinality({"execute"} \cup {"import"}) = Cardinality({"execute"}) + 1
    BY <2>1, FS_AddElement
  <2>3. {"execute", "import"} = {"execute"} \cup {"import"}
    OBVIOUS
  <2> QED BY <1>1, <2>2, <2>3
<1>3. CASE sent = <<>>
  <2>1. ToSet(sent) \cap running = {}
    BY <1>3 DEF ToSet
  <2>2. IsInjective(sent)
    BY <1>3 DEF IsInjective
  <2>3. Runnable(sent) = Cardinality(ToSet(sent) \cap running)
    BY <1>1, <1>3, <2>1, RunnableOf
  <2>4. Runnable(sent) > 1 => sent = <<"execute", "put", "import">>
    BY <1>3, RunnableOf
  <2> QED BY <2>2, <2>3, <2>4
<1>4. CASE sent = <<"execute">>
  <2>1. ToSet(sent) = {"execute"}
    BY <1>4 DEF ToSet
  <2>2. ToSet(sent) \cap running = {"execute"}
    BY <2>1
  <2>3. IsInjective(sent)
    BY <1>4 DEF IsInjective
  <2>4. Runnable(sent) = Cardinality(ToSet(sent) \cap running)
    BY <1>1, <1>4, <2>2, RunnableOf
  <2>5. Runnable(sent) > 1 => sent = <<"execute", "put", "import">>
    BY <1>4, RunnableOf
  <2> QED BY <2>3, <2>4, <2>5
<1>5. CASE sent = <<"exec">>
  <2>1. ToSet(sent) = {"exec"}
    BY <1>5 DEF ToSet
  <2>2. ToSet(sent) \cap running = {"exec"}
    BY <2>1
  <2>3. IsInjective(sent)
    BY <1>5 DEF IsInjective
  <2>4. Runnable(sent) = Cardinality(ToSet(sent) \cap running)
    BY <1>1, <1>5, <2>2, RunnableOf
  <2>5. Runnable(sent) > 1 => sent = <<"execute", "put", "import">>
    BY <1>5, RunnableOf
  <2> QED BY <2>3, <2>4, <2>5
<1>6. CASE sent = <<"execute", "put">>
  <2>1. ToSet(sent) = {"execute", "put"}
    BY <1>6 DEF ToSet
  <2>2. ToSet(sent) \cap running = {"execute"}
    BY <2>1
  <2>3. IsInjective(sent)
    BY <1>6 DEF IsInjective
  <2>4. Runnable(sent) = Cardinality(ToSet(sent) \cap running)
    BY <1>1, <1>6, <2>2, RunnableOf
  <2>5. Runnable(sent) > 1 => sent = <<"execute", "put", "import">>
    BY <1>6, RunnableOf
  <2> QED BY <2>3, <2>4, <2>5
<1>7. CASE sent = <<"execute", "put", "import">>
  <2>1. ToSet(sent) = {"execute", "put", "import"}
    BY <1>7 DEF ToSet
  <2>2. ToSet(sent) \cap running = {"execute", "import"}
    BY <2>1
  <2>3. IsInjective(sent)
    BY <1>7 DEF IsInjective
  <2>4. Runnable(sent) = Cardinality(ToSet(sent) \cap running)
    BY <1>2, <1>7, <2>2, RunnableOf
  <2>5. Runnable(sent) > 1 => sent = <<"execute", "put", "import">>
    BY <1>7, RunnableOf
  <2> QED BY <2>3, <2>4, <2>5
<1> QED BY <1>3, <1>4, <1>5, <1>6, <1>7 DEF Histories

\* No request is sent twice, none after a lost answer, and the device runs the
\* script twice only where it answered the execute with an error.
THEOREM RequestsNotRepeated == Spec => []NeverRetried
<1>1. Inv => NeverRetried
  <2> SUFFICES ASSUME DeployInv PROVE NeverRetried
    BY DEF Inv
  <2> DEFINE running == Cardinality(ToSet(deploy.sent) \cap {"execute", "import", "exec"})
  <2>1. /\ deploy.sent \in Histories /\ device.runs + Pending <= Runnable(deploy.sent)
        /\ Len(deploy.sent) > 1 => deploy.heard # None
    BY DEF DeployInv
  <2>2. device.runs \in Nat /\ Pending \in Nat /\ Runnable(deploy.sent) \in Nat
    BY DEF DeployInv, DeployType, Device, Pending, Runnable
  <2>3. /\ IsInjective(deploy.sent) /\ Runnable(deploy.sent) = running
        /\ Runnable(deploy.sent) > 1 => deploy.sent = <<"execute", "put", "import">>
    BY <2>1, SentOnce
  <2>4. device.runs <= running
    <3> HIDE DEF running
    <3> QED BY <2>1, <2>2, <2>3
  <2>5. device.runs > 1 => deploy.sent = <<"execute", "put", "import">>
    <3> HIDE DEF running
    <3> QED BY <2>1, <2>2, <2>3
  <2> QED BY <2>1, <2>3, <2>4, <2>5 DEF NeverRetried
<1> QED BY <1>1, InvHolds, PTL

\* Neither script looks a host up twice, or dials an address that was not in an
\* answer without a refused one.
THEOREM DialsPinned == Spec => []DialsChecked
<1>1. Inv => DialsChecked
  BY DEF Inv, DeployInv, CheckInv, DialsChecked
<1> QED BY <1>1, InvHolds, PTL

\* Either client accepts the peers the options trust, and no other, but for the
\* options that switch the chain off for urllib alone.
LEMMA ShakenTrusts ==
  ASSUME world \in World, ~Lenient
  PROVE  Shaken <=> Trusted(world.tls, world.peer)
<1>1. /\ world.client \in {"requests", "urllib"} /\ world.tls \in Tls /\ world.peer \in Peer
  BY DEF World
<1>2. world.peer.chain \in {"ca", "system", "self"}
  BY <1>1 DEF Peer
<1>3. CASE world.client = "requests"
  BY <1>1, <1>2, <1>3
     DEF Shaken, Handshake, Authority, SessionVerify, Trusted, Tls, Peer
<1>4. CASE world.client = "urllib"
  BY <1>1, <1>2, <1>4
     DEF Shaken, Handshake, Authority, ContextVerify, Trusted, Tls, Peer, Lenient
<1> QED BY <1>1, <1>3, <1>4

\* Whichever client is installed, the live check succeeds exactly when a peer the
\* options trust gave a list to the first GET or to the one repetition.
THEOREM VerdictSound == Spec => []VerdictTrue
<1>1. Inv => VerdictTrue
  <2> SUFFICES ASSUME CheckInv, check.pc = "done", ~world.dry, ~Lenient PROVE VerdictTrue
    BY DEF Inv, VerdictTrue
  <2>1. world \in World /\ (Shaken <=> Trusted(world.tls, world.peer))
    BY ShakenTrusts DEF CheckInv
  <2>2. IF check.exit = 0
          THEN Gotten(List) /\ Shaken /\ world.problem = None /\ Accepted(world.answer)
          ELSE ~Gotten(List)
    BY DEF CheckInv
  <2> QED BY <2>1, <2>2 DEF VerdictTrue, Gotten, TimedOuts
<1> QED BY <1>1, InvHolds, PTL
=============================================================================
