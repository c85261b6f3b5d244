----------------------------- MODULE MCLiveFetch ----------------------------
(***************************************************************************)
(* Instance of LiveFetch for TLC.                                          *)
(***************************************************************************)
EXTENDS LiveFetch

CONSTANTS p1, p2, f1, f2

Lan == V4(192, 168, 88, 1)
Wan == V4(203, 0, 113, 9)
Internal == V4(198, 51, 100, 7)
MappedInternal == AsMapped(Internal)
Metadata == V4(169, 254, 169, 254)

MCPins == {p1, p2}
MCFetchers == {f1, f2}
MCAnswers == {<<>>, <<Wan>>, <<Wan, Wan>>, <<Wan, MappedInternal>>, <<Lan>>, <<Wan, Metadata>>}

Deny(bytes, prefix) == [bytes |-> bytes, prefix |-> prefix]
Resource(path, valid) == [path |-> path, valid |-> valid]
MCDenies == <<Deny(5, NoPrefix), Deny(15, Block(Internal, 25))>>

Router == Name("other")
Env == [enabled |-> TRUE, hosts |-> <<Router>>, user |-> "ops", pass |-> TRUE, port |-> 443,
        verify |-> TRUE, http |-> FALSE, timeout |-> 5, custom |-> <<>>, allow |-> FALSE,
        denies |-> MCDenies, pin |-> NoPin, ca |-> FALSE, shim |-> FALSE, optIn |-> FALSE]

MCEnvs ==
  {Env,
   [Env EXCEPT !.optIn = TRUE, !.ca = TRUE, !.verify = FALSE],
   [Env EXCEPT !.pin = p1],
   [Env EXCEPT !.pin = BadPin],
   [Env EXCEPT !.pin = p1, !.ca = TRUE, !.allow = TRUE],
   [Env EXCEPT !.verify = FALSE, !.http = TRUE, !.hosts = <<Literal(Wan, TRUE), Router>>],
   [Env EXCEPT !.verify = FALSE, !.port = 8080, !.shim = TRUE, !.optIn = TRUE]}

Only(k, v) == [x \in {k} |-> v]
MCSettings ==
  {Only("hosts", <<Literal(Internal, TRUE)>>), Only("hosts", <<Literal(Lan, TRUE)>>),
   Only("user", "invalid"), Only("user", "ops"), Only("port", 8080),
   Only("timeout", 60), Only("custom", <<Resource("rest", TRUE)>>),
   Only("pin", NoPin), Only("pin", BadPin), Only("pin", p2), Only("ca", FALSE), Only("ca", TRUE)}
    \cup {Only(k, b) : k \in {"verify", "http", "allow"}, b \in BOOLEAN}
MCPayloads ==
  {[scope |-> "rsc.live", keys |-> s] : s \in MCSettings} \cup {[scope |-> "bare", keys |-> <<>>]}
=============================================================================
