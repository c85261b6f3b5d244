----------------------------- MODULE MCFraming -----------------------------
(* Constants for model checking Framing: the headers fit six bytes and the  *)
(* body two, and the client writes frames on both sides of each cap.        *)
EXTENDS Framing

Symbols == {"nl", "cr", "x", "lead", "trail", "len0", "len1", "len2", "len3", "lenx",
            "q", "n", "s", "e"}
Claims == [len0 |-> 0, len1 |-> 1, len2 |-> 2, len3 |-> 3, lenx |-> Malformed]
Meaning == [b \in Symbols |->
  CASE b = "q" -> "request" [] b = "n" -> "notification" [] b = "s" -> "shutdown"
    [] b = "e" -> "exit" [] OTHER -> "garbage"]

Frame(head, body) == [head |-> head, body |-> body]

\* Well formed and within the caps; the body may look like headers.
Plain == {
  Frame(<<"len1", "nl", "nl">>, <<"q">>),
  Frame(<<"len1", "nl", "nl">>, <<"s">>),
  Frame(<<"len1", "nl", "nl">>, <<"e">>),
  Frame(<<"len2", "cr", "nl", "cr", "nl">>, <<"len1", "nl">>),
  Frame(<<"x", "nl", "len2", "nl", "nl">>, <<"n", "nl">>),
  Frame(<<"len1", "nl", "lead", "trail", "nl", "nl">>, <<"q">>)}

\* Beyond a cap, or of no length, at the cap and one past it.
Odd == {
  Frame(<<"len0", "nl", "nl">>, <<>>),
  Frame(<<"len3", "nl", "nl">>, <<"q", "nl", "len1">>),
  Frame(<<"len1", "nl", "x", "x", "cr", "nl", "nl">>, <<"q">>),
  Frame(<<"len2", "nl", "x", "x", "x", "x", "x", "nl", "nl">>, <<"len1", "nl">>),
  Frame(<<"len1", "nl", "x", "x", "x", "x", "lead", "trail", "nl", "nl">>, <<"q">>),
  Frame(<<"x", "x", "x", "nl", "len1", "nl", "nl">>, <<"q">>),
  Frame(<<"x", "x", "x", "nl", "len1", "cr", "nl", "nl">>, <<"q">>)}

\* No length to trust.
Bad == {
  Frame(<<"x", "nl", "nl">>, <<"q">>),
  Frame(<<"lenx", "nl", "nl">>, <<"q">>),
  Frame(<<"len1", "x", "nl", "nl">>, <<"q">>),
  Frame(<<"len2", "nl", "len1", "nl", "nl">>, <<"q">>),
  Frame(<<"len1", "nl", "lead", "nl", "nl">>, <<"q">>)}

AllFrames == Plain \cup Odd \cup Bad
=============================================================================
