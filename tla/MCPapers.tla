------------------------------ MODULE MCPapers ------------------------------
(***************************************************************************)
(* Small files for Papers: every text of four pieces of four kinds and of  *)
(* three of five, some of two pages, and scans of up to three pages.       *)
(***************************************************************************)
EXTENDS Papers

Piece(lead, marks) == [lead |-> lead, marks |-> marks]

Prose  == Piece(PlainText, <<>>)
Q1     == Piece(Lead("number", TRUE, 1, Nothing, Nothing), <<Marks("worded", 5)>>)
Q2     == Piece(Lead("number", TRUE, 2, Nothing, Nothing), <<Marks("total", 9)>>)
One    == Piece(Lead("number", FALSE, 1, Nothing, Nothing), <<>>)
Two    == Piece(Lead("number", FALSE, 2, Nothing, Nothing), <<Marks("bracket", 4)>>)
PartA  == Piece(Lead("paren", FALSE, 0, "a", Nothing), <<Marks("bracket", 3)>>)
PartI  == Piece(Lead("paren", FALSE, 0, "i", Nothing), <<Marks("bracket", 2)>>)
PartAI == Piece(Lead("paren", FALSE, 0, "a", "i"), <<>>)
OneB   == Piece(Lead("number", FALSE, 1, "b", "ii"), <<Marks("worded", 1)>>)

Page(layer, blocks) == [layer |-> layer, blocks |-> blocks]

\* A block of each piece.
Blocks(pieces) == [k \in DOMAIN pieces |-> <<pieces[k]>>]

Text(pieces) == [pdf |-> TRUE, pages |-> <<Page("text", Blocks(pieces))>>]

Scan(pages) == [pdf |-> TRUE, pages |-> [p \in DOMAIN pages |-> Page("scan", Blocks(pages[p]))]]

Texts(pieces, n) == {Text(t) : t \in [1..n -> pieces]}

Scheme == Text(<<Q1, PartA, Q2>>)

BareScheme == Text(<<One, PartAI, OneB>>)

\* Files of more pages, layers and formats.
Others ==
    { Scan(<<<<Q1, PartA>>, <<Prose, Q2>>, <<PartA>>>>),
      Scan(<<<<Prose, Q1, Q2>>, <<One>>>>),
      [pdf |-> TRUE, pages |-> <<Page("text", <<<<Q1, Q2>>, <<PartA>>>>), Page("scan", <<<<Q1>>>>)>>],
      [pdf |-> TRUE, pages |-> <<Page("blank", <<>>), Page("scan", <<<<Q2>>>>)>>],
      [pdf |-> TRUE, pages |-> <<Page("text", <<<<One>>>>), Page("text", <<<<PartAI>>, <<PartI>>>>)>>],
      [pdf |-> TRUE, pages |-> <<Page("blank", <<>>)>>],
      [pdf |-> FALSE, pages |-> <<Page("text", <<<<OneB>>, <<Two>>>>)>>],
      [pdf |-> FALSE, pages |-> <<Page("blank", <<>>)>>] }

\* Every text alone, as its own mark scheme too; fewer before a mark scheme.
MCShelves ==
    {<<f>> : f \in Texts({Prose, Q1, Q2, PartA}, 4) \cup Texts({Prose, One, Two, PartA, PartI}, 3)}
    \cup {<<f, Scheme>> : f \in Texts({Q1, Q2, PartA}, 2) \cup Others}
    \cup {<<f, BareScheme>> : f \in Texts({One, PartA, PartI}, 2) \cup Others}

\* The last two give a question one ref, "2024_p1_q1".
MCLabels ==
    { [year |-> "2024", paperRef |-> <<>>],
      [year |-> "2024", paperRef |-> <<"p1">>],
      [year |-> Nothing, paperRef |-> <<"2024", "p1">>] }

=============================================================================
