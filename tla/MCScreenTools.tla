---------------------------- MODULE MCScreenTools ----------------------------
(* An agent and ceo; the titles of their sessions are the same.            *)
EXTENDS ScreenTools, TLC

CONSTANTS a, ceo, o, d, n, t, unused

(* ceo is always there and shows directives, or a queued input line.       *)
TypedAnywhere == {<<a, o>>, <<a, n>>, <<ceo, d>>}

ShownAnywhere ==
  ({a} \X {<<"gone">>, <<"other">>, <<d, "typed">>}) \cup {<<ceo, <<"queued">>>>}

(* A card that has text may go blank; that of ceo is always drawn.         *)
DrawnAnywhere == {<<a, "blank">>, <<a, "text">>, <<ceo, "text">>}
ToCeo == {<<a, ceo>>}

SameTitle == a :> t @@ ceo :> t
=============================================================================
