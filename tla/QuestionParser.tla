--------------------------- MODULE QuestionParser ---------------------------
(***************************************************************************)
(* From the spans of a paper or a mark scheme to numbered questions        *)
(* (src/app/ingestion/question_parser.py and question_ref.py).             *)
(*                                                                         *)
(* A text is what the patterns see of it.  A span is a sequence of pieces, *)
(* cut where an explicit heading stands mid-text; a piece has a lead, the  *)
(* marker it starts with, and the mark annotations in it, in order.        *)
(***************************************************************************)
EXTENDS Integers, SequencesExt

\* None
Nothing == "-"

\* _ROMAN_SUBPARTS
Roman == {"i", "ii", "iii", "iv", "v", "vi", "vii", "viii"}

Number(number, part, subpart) == [number |-> number, part |-> part, subpart |-> subpart]

\* str | None
Optional == STRING \cup {Nothing}

\* No QuestionNumber: None, which a heading numbered 0 is not.
NoNumber == Number(-1, Nothing, Nothing)

NumberType == [number : Nat \cup {-1}, part : Optional, subpart : Optional]

\* A lead is plain "text"; a "number", written "Question 5b(ii)" (explicit) or
\* "5b(ii)"; or a "paren", "(a)", "(ii)" or "(a)(ii)", with the first
\* parenthesis in part and the second in subpart.
Lead(form, explicit, number, part, subpart) ==
    [ form |-> form, explicit |-> explicit, number |-> number,
      part |-> part, subpart |-> subpart ]

LeadType == [ form : {"text", "number", "paren"}, explicit : BOOLEAN, number : Nat,
              part : Optional, subpart : Optional ]

PlainText == Lead("text", FALSE, 0, Nothing, Nothing)

\* An annotation: "worded" ("(3 marks)"), "total" ("[Total: 12]"), a "bracket"
\* ("[3]") that ends its piece, or an "inner" one with text behind it.
Marks(kind, n) == [kind |-> kind, n |-> n]

MarksType == [kind : {"worded", "total", "bracket", "inner"}, n : Nat]

PieceType == [lead : LeadType, marks : Seq(MarksType)]

\* No allocation was found: None, which an allocation of 0 is not.
NoMarks == -1

-----------------------------------------------------------------------------
(* question_ref.py *)

\* _normalize_subpart
Subpart(raw) == IF raw \in Roman THEN raw ELSE Nothing

\* "(ii)" continues a part if one is in scope; else "(i)" reads as part i.
ContinuesPart(lead, current) ==
    /\ lead.subpart = Nothing
    /\ lead.part \in Roman
    /\ current.part # Nothing

\* parse_question_marker: a continuation inherits from the number in scope and
\* means nothing without one.
Marker(lead, current) ==
    IF lead.form = "number" THEN Number(lead.number, lead.part, Subpart(lead.subpart))
    ELSE IF lead.form = "text" \/ current = NoNumber THEN NoNumber
    ELSE IF ContinuesPart(lead, current) THEN Number(current.number, current.part, lead.part)
    ELSE IF Len(lead.part) = 1 THEN Number(current.number, lead.part, Subpart(lead.subpart))
    ELSE NoNumber

\* canonical: different numbers have different forms, a part being one letter
\* or a dot and digits, and a subpart following a part only.
Canonical(number) == number

Known(p) == IF p = Nothing THEN <<>> ELSE <<p>>

\* full_ref: the pieces that are known, joined with "_".  A paper_ref may hold
\* that sign itself, so it counts as its parts, and none if it is None or empty.
FullRef(year, paperRef, number) == Known(year) \o paperRef \o <<Canonical(number)>>

-----------------------------------------------------------------------------
(* question_parser.py *)

\* _split_embedded_markers over a document: all pieces, each with its span.
Prepared(spans) ==
    FlattenSeq([s \in DOMAIN spans |->
        [k \in DOMAIN spans[s].pieces |->
            [span |-> s, lead |-> spans[s].pieces[k].lead, marks |-> spans[s].pieces[k].marks]]])

ExplicitOnly(pieces) == \E i \in DOMAIN pieces : pieces[i].lead.explicit

\* A bare number where questions are labelled explicitly: page furniture.
Furniture(pieces, i) ==
    ExplicitOnly(pieces) /\ pieces[i].lead.form = "number" /\ ~pieces[i].lead.explicit

MarkerOf(pieces, i, current) ==
    IF Furniture(pieces, i) THEN NoNumber ELSE Marker(pieces[i].lead, current)

\* Mutant: a number that reappears opens a second group.
GroupOfAnew(groups, number) == 0

\* index_of: the group of a number, 0 where there is none yet.
GroupOf(groups, number) == SelectInSeq(groups, LAMBDA g : g.number = number)

\* A piece joins a group, or opens one.
Filed(groups, number, g, i) ==
    IF g = 0 THEN Append(groups, [number |-> number, pieces |-> <<i>>])
    ELSE [groups EXCEPT ![g].pieces = Append(@, i)]

\* Mutant: the first group is taken for the open one.
OpenGroupFirst(groups) == 1

\* groups[-1]: where a piece without a marker goes, the group opened last.
OpenGroup(groups) == Len(groups)

\* One turn of the loop.  Before the first marker a piece belongs to nobody.
AccumulateStep(pieces, so, i) ==
    LET marker == MarkerOf(pieces, i, so.current) IN
    IF marker \notin {NoNumber, so.current}
    THEN [groups |-> Filed(so.groups, marker, GroupOf(so.groups, marker), i), current |-> marker]
    ELSE IF so.groups = <<>> THEN so
    ELSE [so EXCEPT !.groups = Filed(@, marker, OpenGroup(@), i)]

\* _accumulate: the numbers in the order they were opened, each with its pieces.
Accumulate(pieces) ==
    LET so[i \in 0..Len(pieces)] ==
            IF i = 0 THEN [groups |-> <<>>, current |-> NoNumber]
            ELSE AccumulateStep(pieces, so[i - 1], i)
    IN  so[Len(pieces)].groups

\* Mutant: any annotation will do, a total too.
ExtractMarksOfTotal(pieces, group) ==
    LET all == FlattenSeq([k \in DOMAIN group.pieces |-> pieces[group.pieces[k]].marks])
    IN  IF all = <<>> THEN NoMarks ELSE Last(all).n

\* extract_marks of a group's text: the first allocation in words; else none if
\* a total is mentioned; else the bracket at the very end.
ExtractMarks(pieces, group) ==
    LET all    == FlattenSeq([k \in DOMAIN group.pieces |-> pieces[group.pieces[k]].marks])
        worded == {k \in DOMAIN all : all[k].kind = "worded"}
        ending == pieces[Last(group.pieces)].marks
    IN  IF worded # {} THEN all[Min(worded)].n
        ELSE IF \E k \in DOMAIN all : all[k].kind = "total" THEN NoMarks
        ELSE IF ending # <<>> /\ Last(ending).kind = "bracket" THEN Last(ending).n
        ELSE NoMarks

\* _dedupe
SpansOf(pieces, group) == {pieces[group.pieces[k]].span : k \in DOMAIN group.pieces}

\* parse_questions and parse_mark_scheme.
Parse(spans) ==
    LET pieces == Prepared(spans)
        groups == Accumulate(pieces)
    IN  [g \in DOMAIN groups |->
            [ number |-> groups[g].number,
              marks  |-> ExtractMarks(pieces, groups[g]),
              spans  |-> SpansOf(pieces, groups[g]) ]]

\* Mutant: parts are left out of the join.
JoinKeyCoarse(number) == number.number

JoinKey(number) == Canonical(number)

\* by_number: a later entry takes the place of an earlier one with its key.
Joinable(entries) ==
    {e \in DOMAIN entries : \A f \in DOMAIN entries :
        f > e => JoinKey(entries[f].number) # JoinKey(entries[e].number)}

\* by_number.pop: the first question with the key gets the entry, 0 is None.
EntryFor(questions, entries, q) ==
    LET key == JoinKey(questions[q].number)
        hit == {e \in Joinable(entries) : JoinKey(entries[e].number) = key}
    IN  IF hit = {} \/ \E p \in 1..(q - 1) : JoinKey(questions[p].number) = key THEN 0
        ELSE Max(hit)

\* What is left in by_number.
Orphans(questions, entries) ==
    Joinable(entries) \ {EntryFor(questions, entries, q) : q \in DOMAIN questions}

-----------------------------------------------------------------------------
(* What the grouping is for: the number a reader would say each piece of a   *)
(* document stands under, the last one announced.                            *)

ScopeStep(pieces, before, i) ==
    LET marker == MarkerOf(pieces, i, before)
    IN  IF marker = NoNumber THEN before ELSE marker

Scope(pieces) ==
    LET scope[i \in 0..Len(pieces)] ==
            IF i = 0 THEN NoNumber ELSE ScopeStep(pieces, scope[i - 1], i)
    IN  scope

\* Piece i follows the piece that announced its number, and that number had
\* been announced, and left, before.
UnderReturned(pieces, i) ==
    LET scope == Scope(pieces) IN
    \E k \in 1..(i - 1) :
        /\ scope[k] # scope[k - 1]
        /\ \E j \in 1..(k - 1) : scope[j] = scope[k]
        /\ \A j \in k..i : scope[j] = scope[k]

=============================================================================
