---------------------------- MODULE MCOutputPump ----------------------------
(* OutputPump for TLC: a line's event is told by its first character.       *)
EXTENDS OutputPump

MCEventOf(text) ==
  CASE text[1] = "i" -> "identity"
    [] text[1] = "t" -> "token"
    [] text[1] = "e" -> "echo"
    [] text[1] = "m" -> "message"
    [] OTHER -> "none"

NL == Newline
Wide == <<"lead4", "cont", "cont", "cont">>
MCStreams ==
  { <<"t", NL, "t", NL, "t", NL, "i", NL, "t", NL>>,
    <<"t", NL, "m", NL, "t", NL, "i">>,
    <<"t", NL, "g", NL, "t", NL, "t", NL>>,
    <<"m", "a", "a", "a", "a", NL, "t", NL, "i", NL>>,
    <<"e", "a", "a", "a", NL, "space", NL, "m">>,
    <<"t">> \o Wide \o <<NL, "t", "lead2", "cont", "lead2", NL>>,
    <<"m", "a">> \o Wide \o <<"cont", "lead2", "cont">>,
    <<"m", "cont", "lead4", "cont">>,
    <<"m", "lead4", "cont", NL, "t", "a", NL>>,
    <<"m", "a", NL, "m", "a", "a", NL, "m">>,
    <<"m", NL, "lead2", "cont", NL, "lead2", "a", "a", "a", NL>> }
=============================================================================
