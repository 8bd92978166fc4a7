--------------------------------- MODULE MCAgex ---------------------------------
EXTENDS Agex

Programmer == INSTANCE AgexPrograms

MCPrograms == Programmer!Sample

\* A blank, a line break, and each with a comment.
MCSeparators ==
  {<<Blank>>, <<NewLine>>, <<Blank, "/", "*", "x", NewLine, "*", "*", "/">>,
   <<Blank, "/", "/", "\"", NewLine>>}

\* What texts are made of: a letter that is also an escape, a digit, and each character or
\* pair that begins or ends something, up to four of them.
Pieces ==
  {<<"n">>, <<"1">>, <<".">>, <<"/", "*">>, <<"*", "/">>, <<"-">>, <<">">>, <<"=">>,
   <<NewLine>>, <<Escape>>, <<"\"">>, <<"'">>, <<"#">>, <<"_">>}
MCTexts == {<<>>} \cup {a \o b \o c \o d : a, b, c \in Pieces \cup {<<>>}, d \in Pieces}
===============================================================================
