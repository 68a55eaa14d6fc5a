---------------------------- MODULE PapersProofs ----------------------------
(***************************************************************************)
(* What holds of questions, mark schemes and documents for every text,     *)
(* every file and any number of uploads and requests.  The first half is   *)
(* about the grouping of the pieces of one text, the second about the      *)
(* tables that are filled from it.                                         *)
(***************************************************************************)
EXTENDS Papers, SequenceLemmas

\* The pieces of a document of n spans.
Pieces(n) == [span : 1..n, lead : LeadType, marks : Seq(MarksType)]

SpanType == [page : Nat, pieces : Seq(PieceType)]

-----------------------------------------------------------------------------
(* Markers and scopes *)

LEMMA NoNumberIsNumber == NoNumber \in NumberType
  BY DEF NoNumber, Number, NumberType, Optional

\* Whatever a lead says, it says it with a number or with none.
LEMMA MarkerIsNumber ==
  ASSUME NEW lead \in LeadType, NEW current \in NumberType
  PROVE  Marker(lead, current) \in NumberType
  <1>1. NoNumber \in NumberType
    BY NoNumberIsNumber
  <1>2. Subpart(lead.subpart) \in Optional
    BY <1>1 DEF Subpart, LeadType, Optional
  <1>3. /\ Number(lead.number, lead.part, Subpart(lead.subpart)) \in NumberType
        /\ Number(current.number, current.part, lead.part) \in NumberType
        /\ Number(current.number, lead.part, Subpart(lead.subpart)) \in NumberType
    BY <1>2 DEF Number, NumberType, LeadType
  <1> HIDE DEF NoNumber
  <1> QED
    BY <1>1, <1>3 DEF Marker

LEMMA MarkerOfIsNumber ==
  ASSUME NEW n \in Nat, NEW pieces \in Seq(Pieces(n)), NEW i \in 1..Len(pieces),
         NEW current \in NumberType
  PROVE  MarkerOf(pieces, i, current) \in NumberType
  <1>1. pieces[i].lead \in LeadType
    <2>1. pieces[i] \in Pieces(n)
      OBVIOUS
    <2> QED
      BY <2>1 DEF Pieces
  <1>2. NoNumber \in NumberType
    BY NoNumberIsNumber
  <1> QED
    BY <1>1, <1>2, MarkerIsNumber DEF MarkerOf

\* The scope of a piece follows from that of the piece before it.
LEMMA ScopeIs ==
  ASSUME NEW n \in Nat, NEW pieces \in Seq(Pieces(n))
  PROVE  LET scope == Scope(pieces)
         IN  /\ scope \in [0..Len(pieces) -> NumberType]
             /\ scope[0] = NoNumber
             /\ \A i \in 1..Len(pieces) : scope[i] = ScopeStep(pieces, scope[i - 1], i)
  <1> DEFINE m == Len(pieces)
             Body(f) == [i \in 0..m |-> IF i = 0 THEN NoNumber ELSE ScopeStep(pieces, f[i - 1], i)]
             scope == CHOOSE f : f = Body(f)
             step == [p \in NumberType \X (1..m) |-> ScopeStep(pieces, p[1], p[2])]
  <1>1. m \in Nat /\ NoNumber \in NumberType
    BY NoNumberIsNumber
  <1>2. ASSUME NEW before \in NumberType, NEW i \in 1..m
        PROVE  ScopeStep(pieces, before, i) \in NumberType
    BY <1>2, MarkerOfIsNumber DEF ScopeStep
  <1>3. step \in Steps(m, NumberType)
    BY <1>2 DEF Steps
  <1>4. PICK f \in [0..m -> NumberType] :
           f[0] = NoNumber /\ \A i \in 1..m : f[i] = step[<<f[i - 1], i>>]
    <2> HIDE DEF step, m
    <2>1. Runs(m, NumberType, NoNumber, step) # {}
      BY <1>1, <1>3, StepsHaveRun
    <2> QED
      BY <2>1 DEF Runs
  <1>5. \A i \in 1..m : i - 1 \in 0..m
    BY <1>1
  <1>6. \A i \in 1..m : step[<<f[i - 1], i>>] = ScopeStep(pieces, f[i - 1], i)
    <2> SUFFICES ASSUME NEW i \in 1..m
                 PROVE  step[<<f[i - 1], i>>] = ScopeStep(pieces, f[i - 1], i)
      OBVIOUS
    <2>1. f[i - 1] \in NumberType
      BY <1>5
    <2> QED
      BY <2>1
  <1>7. \A i \in 1..m : f[i] = ScopeStep(pieces, f[i - 1], i)
    <2> HIDE DEF step
    <2> QED
      BY <1>4, <1>6
  <1>8. f = Body(f)
    <2> HIDE DEF step
    <2> QED
      BY <1>1, <1>4, <1>7
  <1>9. scope = Body(scope)
    <2> HIDE DEF Body
    <2> QED
      BY <1>8
  <1>10. Scope(pieces) = scope
    BY DEF Scope
  <1> HIDE DEF scope, step
  <1>11. /\ scope[0] = NoNumber
         /\ \A i \in 1..m : scope[i] = ScopeStep(pieces, scope[i - 1], i)
         /\ DOMAIN scope = 0..m
    <2>1. \A i \in 0..m : scope[i] = IF i = 0 THEN NoNumber ELSE ScopeStep(pieces, scope[i - 1], i)
      BY <1>9, Zenon
    <2>2. DOMAIN scope = 0..m
      BY <1>9, Zenon
    <2> QED
      BY <1>1, <2>1, <2>2
  <1>12. \A i \in 0..m : scope[i] \in NumberType
    <2> DEFINE S == {i \in 0..m : scope[i] \in NumberType}
    <2>1. 0 \in S
      BY <1>1, <1>11
    <2>2. ASSUME NEW i \in 0..(m - 1), i \in S
          PROVE  i + 1 \in S
      <3>1. i + 1 \in 1..m /\ (i + 1) - 1 = i /\ i + 1 \in 0..m
        BY <1>1
      <3>2. scope[i + 1] = ScopeStep(pieces, scope[i], i + 1)
        BY <1>11, <3>1
      <3> QED
        BY <1>2, <2>2, <3>1, <3>2
    <2> HIDE DEF S, m
    <2>3. 0..m \subseteq S
      BY <1>1, <2>1, <2>2, Induct
    <2> QED
      BY <2>3 DEF S
  <1>13. scope \in [0..m -> NumberType]
    <2>1. scope = [i \in 0..m |-> scope[i]]
      BY <1>9, <1>11
    <2> QED
      BY <1>12, <2>1
  <1> QED
    BY <1>10, <1>11, <1>13

-----------------------------------------------------------------------------
(* The groups of a text *)

GroupType(m) == [number : NumberType, pieces : Seq(1..m)]

GroupingType(m) == [groups : Seq(GroupType(m)), current : NumberType]

\* index_of finds a group of its number, where there is one.
LEMMA GroupOfIs ==
  ASSUME NEW m \in Nat, NEW groups \in Seq(GroupType(m)), NEW number
  PROVE  \/ /\ GroupOf(groups, number) = 0
            /\ \A g \in 1..Len(groups) : groups[g].number # number
         \/ /\ GroupOf(groups, number) \in 1..Len(groups)
            /\ groups[GroupOf(groups, number)].number = number
  <1> DEFINE I == {g \in 1..Len(groups) : groups[g].number = number}
  <1>1. GroupOf(groups, number) = IF I # {} THEN Min(I) ELSE 0
    BY DEF GroupOf, SelectInSeq
  <1>2. CASE I = {}
    BY <1>1, <1>2
  <1>3. CASE I # {}
    <2>1. I \in SUBSET Nat
      OBVIOUS
    <2>2. Min(I) \in I
      <3> HIDE DEF I
      <3> QED
        BY <1>3, <2>1, MinIsFirst
    <2> QED
      BY <1>1, <1>3, <2>2
  <1> QED
    BY <1>2, <1>3

\* A piece that opens a group leaves the others as they are.
LEMMA Opens ==
  ASSUME NEW m \in Nat, NEW groups \in Seq(GroupType(m)), NEW number \in NumberType, NEW i \in 1..m
  PROVE  LET filed == Filed(groups, number, 0, i)
         IN  /\ filed \in Seq(GroupType(m))
             /\ Len(groups) \in Nat /\ Len(filed) = Len(groups) + 1
             /\ \A g \in 1..Len(groups) : filed[g] = groups[g]
             /\ filed[Len(filed)].number = number
             /\ filed[Len(filed)].pieces = <<i>>
  <1> DEFINE new == [number |-> number, pieces |-> <<i>>]
             filed == Append(groups, new)
  <1>1. Filed(groups, number, 0, i) = filed
    BY DEF Filed
  <1>2. new \in GroupType(m) /\ new.number = number /\ new.pieces = <<i>>
    BY DEF GroupType
  <1> HIDE DEF new
  <1>3. /\ filed \in Seq(GroupType(m))
        /\ Len(groups) \in Nat /\ Len(filed) = Len(groups) + 1
        /\ \A g \in 1..Len(groups) : filed[g] = groups[g]
        /\ filed[Len(filed)] = new
    BY <1>2
  <1> QED
    BY <1>1, <1>2, <1>3

\* Nothing changes but the pieces of group h, to which i is added.
JoinedBy(groups, filed, h, i) ==
    /\ Len(filed) = Len(groups)
    /\ \A g \in 1..Len(groups) : filed[g].number = groups[g].number
    /\ \A g \in 1..Len(groups) : g # h => filed[g] = groups[g]
    /\ filed[h].pieces = Append(groups[h].pieces, i)

\* A piece that joins a group changes nothing else of it, nor another group.
LEMMA Joins ==
  ASSUME NEW m \in Nat, NEW groups \in Seq(GroupType(m)), NEW number, NEW i \in 1..m,
         NEW h \in 1..Len(groups)
  PROVE  /\ Filed(groups, number, h, i) \in Seq(GroupType(m))
         /\ JoinedBy(groups, Filed(groups, number, h, i), h, i)
  <1> DEFINE new == [groups[h] EXCEPT !.pieces = Append(@, i)]
             filed == [groups EXCEPT ![h] = new]
  <1>1. Filed(groups, number, h, i) = filed
    BY DEF Filed
  <1>2. groups[h] \in GroupType(m)
    OBVIOUS
  <1>3. groups[h].pieces \in Seq(1..m)
    BY <1>2 DEF GroupType
  <1>4. Append(groups[h].pieces, i) \in Seq(1..m)
    BY <1>3
  <1>5. /\ new \in GroupType(m)
        /\ new.number = groups[h].number
        /\ new.pieces = Append(groups[h].pieces, i)
    BY <1>2, <1>4 DEF GroupType
  <1> HIDE DEF new
  <1>6. /\ filed \in Seq(GroupType(m)) /\ Len(filed) = Len(groups)
        /\ filed[h] = new
        /\ \A g \in 1..Len(groups) : g # h => filed[g] = groups[g]
    BY <1>5
  <1> HIDE DEF filed
  <1> QED
    BY <1>1, <1>5, <1>6 DEF JoinedBy

\* A turn of the loop keeps the type of what it works on.
LEMMA StepIsGrouping ==
  ASSUME NEW n \in Nat, NEW pieces \in Seq(Pieces(n)), NEW i \in 1..Len(pieces),
         NEW so \in GroupingType(Len(pieces))
  PROVE  AccumulateStep(pieces, so, i) \in GroupingType(Len(pieces))
  <1> DEFINE m == Len(pieces)
             marker == MarkerOf(pieces, i, so.current)
  <1>1. m \in Nat /\ so.groups \in Seq(GroupType(m)) /\ so.current \in NumberType
    BY DEF GroupingType
  <1>2. marker \in NumberType
    BY <1>1, MarkerOfIsNumber
  <1> HIDE DEF m, marker
  <1>3. ASSUME NEW g \in 0..Len(so.groups), NEW number \in NumberType
        PROVE  Filed(so.groups, number, g, i) \in Seq(GroupType(m))
    <2>1. i \in 1..m
      BY DEF m
    <2>2. CASE g = 0
      BY <1>1, <1>3, <2>1, <2>2, Opens
    <2>3. CASE g # 0
      <3>1. g \in 1..Len(so.groups)
        BY <1>1, <2>3
      <3> QED
        BY <1>1, <2>1, <3>1, Joins
    <2> QED
      BY <2>2, <2>3
  <1>4. GroupOf(so.groups, marker) \in 0..Len(so.groups)
    <2>1. Len(so.groups) \in Nat
      BY <1>1
    <2>2. \/ GroupOf(so.groups, marker) = 0
          \/ GroupOf(so.groups, marker) \in 1..Len(so.groups)
      BY <1>1, GroupOfIs
    <2> QED
      BY <2>1, <2>2
  <1>5. OpenGroup(so.groups) \in 0..Len(so.groups)
    BY <1>1 DEF OpenGroup
  <1>6. AccumulateStep(pieces, so, i) =
          IF marker \notin {NoNumber, so.current}
          THEN [groups |-> Filed(so.groups, marker, GroupOf(so.groups, marker), i), current |-> marker]
          ELSE IF so.groups = <<>> THEN so
          ELSE [so EXCEPT !.groups = Filed(so.groups, marker, OpenGroup(so.groups), i)]
    BY DEF AccumulateStep, marker
  <1>7. /\ Filed(so.groups, marker, GroupOf(so.groups, marker), i) \in Seq(GroupType(m))
        /\ Filed(so.groups, marker, OpenGroup(so.groups), i) \in Seq(GroupType(m))
    BY <1>2, <1>3, <1>4, <1>5
  <1> QED
    BY <1>2, <1>6, <1>7 DEF GroupingType, m

\* The groups of a text are what its last turn leaves.
LEMMA AccumulateIs ==
  ASSUME NEW n \in Nat, NEW pieces \in Seq(Pieces(n))
  PROVE  \E so \in [0..Len(pieces) -> GroupingType(Len(pieces))] :
            /\ so[0] = [groups |-> <<>>, current |-> NoNumber]
            /\ \A i \in 1..Len(pieces) : so[i] = AccumulateStep(pieces, so[i - 1], i)
            /\ Accumulate(pieces) = so[Len(pieces)].groups
  <1> DEFINE m == Len(pieces)
             D == GroupingType(m)
             b == [groups |-> <<>>, current |-> NoNumber]
             Body(f) == [i \in 0..m |-> IF i = 0 THEN b ELSE AccumulateStep(pieces, f[i - 1], i)]
             so == CHOOSE f : f = Body(f)
             step == [p \in D \X (1..m) |-> AccumulateStep(pieces, p[1], p[2])]
  <1>1. m \in Nat /\ b \in D
    BY NoNumberIsNumber DEF GroupingType
  <1>2. ASSUME NEW before \in D, NEW i \in 1..m
        PROVE  AccumulateStep(pieces, before, i) \in D
    BY <1>2, StepIsGrouping
  <1> HIDE DEF D, b
  <1>3. step \in Steps(m, D)
    BY <1>2 DEF Steps
  <1>4. PICK f \in [0..m -> D] : f[0] = b /\ \A i \in 1..m : f[i] = step[<<f[i - 1], i>>]
    <2> HIDE DEF step, m
    <2>1. Runs(m, D, b, step) # {}
      BY <1>1, <1>3, StepsHaveRun
    <2> QED
      BY <2>1 DEF Runs
  <1>5. \A i \in 1..m : i - 1 \in 0..m
    BY <1>1
  <1>6. \A i \in 1..m : step[<<f[i - 1], i>>] = AccumulateStep(pieces, f[i - 1], i)
    <2> SUFFICES ASSUME NEW i \in 1..m
                 PROVE  step[<<f[i - 1], i>>] = AccumulateStep(pieces, f[i - 1], i)
      OBVIOUS
    <2>1. f[i - 1] \in D
      BY <1>5
    <2> QED
      BY <2>1
  <1>7. \A i \in 1..m : f[i] = AccumulateStep(pieces, f[i - 1], i)
    <2> HIDE DEF step
    <2> QED
      BY <1>4, <1>6
  <1>8. f = Body(f)
    <2> HIDE DEF step
    <2> QED
      BY <1>1, <1>4, <1>7
  <1>9. so = Body(so)
    <2> HIDE DEF Body
    <2> QED
      BY <1>8
  <1>10. Accumulate(pieces) = so[m].groups
    BY DEF Accumulate, b
  <1> HIDE DEF so, step
  <1>11. /\ so[0] = b
         /\ \A i \in 1..m : so[i] = AccumulateStep(pieces, so[i - 1], i)
         /\ so = [i \in 0..m |-> so[i]]
    <2>1. \A i \in 0..m : so[i] = IF i = 0 THEN b ELSE AccumulateStep(pieces, so[i - 1], i)
      BY <1>9, Zenon
    <2>2. DOMAIN so = 0..m
      BY <1>9, Zenon
    <2>3. so = [i \in 0..m |-> so[i]]
      BY <1>9, <2>2, Zenon
    <2> HIDE DEF Body, b
    <2> QED
      BY <1>1, <2>1, <2>3
  <1>12. \A i \in 0..m : so[i] \in D
    <2> DEFINE S == {i \in 0..m : so[i] \in D}
    <2>1. 0 \in S
      BY <1>1, <1>11
    <2>2. ASSUME NEW i \in 0..(m - 1), i \in S
          PROVE  i + 1 \in S
      <3>1. i + 1 \in 1..m /\ (i + 1) - 1 = i /\ i + 1 \in 0..m
        BY <1>1
      <3>2. so[i + 1] = AccumulateStep(pieces, so[i], i + 1)
        BY <1>11, <3>1
      <3> QED
        BY <1>2, <2>2, <3>1, <3>2
    <2> HIDE DEF S, m
    <2>3. 0..m \subseteq S
      BY <1>1, <2>1, <2>2, Induct
    <2> QED
      BY <2>3 DEF S
  <1>13. so \in [0..m -> D]
    BY <1>11, <1>12
  <1> QED
    BY <1>10, <1>11, <1>13 DEF D, b

-----------------------------------------------------------------------------
(* Groups and scopes agree, but for numbers announced a second time *)

\* Piece k announced a number that is still in scope at piece i.
AnnouncedAt(scope, k, i) == scope[k] # scope[k - 1] /\ \A j \in k..i : scope[j] = scope[k]

\* That number had been announced before.
AnnouncedBefore(scope, k) == \E j \in 1..(k - 1) : scope[j] = scope[k]

Returned(scope, i) == \E k \in 1..(i - 1) : AnnouncedAt(scope, k, i) /\ AnnouncedBefore(scope, k)

OneGroupEach(groups) ==
    \A g, h \in 1..Len(groups) : groups[g].number = groups[h].number => g = h

\* A group has pieces, its own or one that went astray.
OwnPieces(scope, group, i) ==
    /\ group.number # NoNumber
    /\ group.pieces # <<>>
    /\ \A k \in 1..Len(group.pieces) :
          /\ group.pieces[k] \in 1..i
          /\ scope[group.pieces[k]] = group.number \/ Returned(scope, group.pieces[k])
    /\ \E j \in 1..i : scope[j] = group.number

\* A group has the piece.
Holds(group, p) == \E k \in 1..Len(group.pieces) : group.pieces[k] = p

\* A piece under a number is in the group of that number, or went astray.
InItsGroup(scope, groups, p) ==
    scope[p] # NoNumber =>
        \E g \in 1..Len(groups) : /\ groups[g].number = scope[p]
                                  /\ Holds(groups[g], p) \/ Returned(scope, p)

\* The group opened last has the number in scope, or that number returned.
OpenIsCurrent(scope, groups, i) ==
    IF scope[i] = NoNumber THEN groups = <<>>
    ELSE /\ groups # <<>>
         /\ \E k \in 1..i : /\ AnnouncedAt(scope, k, i)
                            /\ \/ groups[Len(groups)].number = scope[k]
                               \/ AnnouncedBefore(scope, k)

Grouped(scope, groups, i) ==
    /\ OneGroupEach(groups)
    /\ \A g \in 1..Len(groups) : OwnPieces(scope, groups[g], i)
    /\ \A p \in 1..i : InItsGroup(scope, groups, p)
    /\ OpenIsCurrent(scope, groups, i)

\* A piece added to a group that may have it.
LEMMA OwnPiecesMore ==
  ASSUME NEW m \in Nat, NEW scope, NEW i \in 0..(m - 1), NEW group \in GroupType(m),
         OwnPieces(scope, group, i), NEW more \in GroupType(m), more.number = group.number,
         more.pieces = Append(group.pieces, i + 1),
         scope[i + 1] = group.number \/ Returned(scope, i + 1)
  PROVE  OwnPieces(scope, more, i + 1) /\ Holds(more, i + 1) /\ \A p : Holds(group, p) => Holds(more, p)
  <1> DEFINE s == group.pieces
             t == more.pieces
  <1>1. s \in Seq(1..m) /\ t = Append(s, i + 1) /\ i + 1 \in 1..m
    BY DEF GroupType
  <1> HIDE DEF s, t
  <1>2. /\ Len(s) \in Nat /\ Len(t) = Len(s) + 1 /\ t # <<>>
        /\ \A k \in 1..Len(s) : t[k] = s[k]
        /\ t[Len(s) + 1] = i + 1
    BY <1>1
  <1>3. \A k \in 1..Len(t) : k \in 1..Len(s) \/ k = Len(s) + 1
    BY <1>2
  <1>4. \A k \in 1..Len(s) : k \in 1..Len(t)
    BY <1>2
  <1>5. \A j \in 1..i : j \in 1..(i + 1)
    OBVIOUS
  <1>6. i + 1 \in 1..(i + 1) /\ Len(s) + 1 \in 1..Len(t)
    BY <1>2
  <1>7. /\ group.number # NoNumber
        /\ \A k \in 1..Len(s) : s[k] \in 1..i /\ (scope[s[k]] = group.number \/ Returned(scope, s[k]))
        /\ \E j \in 1..i : scope[j] = group.number
    BY DEF OwnPieces, s
  <1>8. \A k \in 1..Len(t) :
           /\ t[k] \in 1..(i + 1)
           /\ scope[t[k]] = more.number \/ Returned(scope, t[k])
    BY <1>2, <1>3, <1>5, <1>6, <1>7
  <1>9. OwnPieces(scope, more, i + 1)
    BY <1>2, <1>5, <1>7, <1>8 DEF OwnPieces, t
  <1>10. Holds(more, i + 1)
    BY <1>2, <1>6 DEF Holds, t
  <1>11. \A p : Holds(group, p) => Holds(more, p)
    BY <1>2, <1>4 DEF Holds, s, t
  <1> QED
    BY <1>9, <1>10, <1>11

LEMMA OwnPiecesLater ==
  ASSUME NEW scope, NEW i \in Nat, NEW group, OwnPieces(scope, group, i)
  PROVE  OwnPieces(scope, group, i + 1)
  <1>1. \A j \in 1..i : j \in 1..(i + 1)
    OBVIOUS
  <1> QED
    BY <1>1 DEF OwnPieces

\* A number without a group opens one.
LEMMA GroupedByOpening ==
  ASSUME NEW m \in Nat, NEW scope \in [0..m -> NumberType], NEW i \in 0..(m - 1),
         NEW groups \in Seq(GroupType(m)), Grouped(scope, groups, i),
         scope[i + 1] \notin {NoNumber, scope[i]},
         \A g \in 1..Len(groups) : groups[g].number # scope[i + 1]
  PROVE  Grouped(scope, Filed(groups, scope[i + 1], 0, i + 1), i + 1)
  <1> DEFINE p == i + 1
             n == Len(groups)
             filed == Filed(groups, scope[p], 0, p)
  <1>1. p \in 1..m /\ p \in 0..m /\ p - 1 = i /\ p \in 1..p /\ i \in Nat
        /\ \A j \in 1..p : j \in 1..i \/ j = p
    OBVIOUS
  <1>2. scope[p] \in NumberType
    BY <1>1
  <1>3. /\ filed \in Seq(GroupType(m))
        /\ n \in Nat /\ Len(filed) = n + 1
        /\ \A g \in 1..n : filed[g] = groups[g]
        /\ filed[n + 1].number = scope[p]
        /\ filed[n + 1].pieces = <<p>>
    BY <1>1, <1>2, Opens
  <1> HIDE DEF filed, p
  <1>4. /\ \A g \in 1..Len(filed) : g \in 1..n \/ g = n + 1
        /\ n + 1 \in 1..Len(filed)
        /\ \A g \in 1..n : g \in 1..Len(filed)
    BY <1>3
  <1>5. OneGroupEach(filed)
    BY <1>3, <1>4 DEF Grouped, OneGroupEach, p
  <1>6. OwnPieces(scope, filed[n + 1], p)
    <2>1. Len(<<p>>) = 1 /\ <<p>>[1] = p /\ <<p>> # <<>>
      OBVIOUS
    <2>2. scope[p] # NoNumber
      BY DEF p
    <2> QED
      BY <1>1, <1>3, <2>1, <2>2 DEF OwnPieces
  <1>7. \A g \in 1..Len(filed) : OwnPieces(scope, filed[g], p)
    <2>1. \A g \in 1..n : OwnPieces(scope, groups[g], p)
      BY <1>1, OwnPiecesLater DEF Grouped, p
    <2> QED
      BY <1>3, <1>4, <1>6, <2>1
  <1>8. \A q \in 1..p : InItsGroup(scope, filed, q)
    <2>1. \A q \in 1..i : InItsGroup(scope, filed, q)
      BY <1>3, <1>4 DEF Grouped, InItsGroup
    <2>2. Holds(filed[n + 1], p)
      <3>1. Len(<<p>>) = 1 /\ <<p>>[1] = p /\ 1 \in 1..1
        OBVIOUS
      <3> QED
        BY <1>3, <3>1 DEF Holds
    <2>3. InItsGroup(scope, filed, p)
      BY <1>3, <1>4, <2>2 DEF InItsGroup
    <2> QED
      BY <1>1, <2>1, <2>3
  <1>9. OpenIsCurrent(scope, filed, p)
    <2>1. scope[p] # scope[p - 1] /\ scope[p] # NoNumber
      BY <1>1 DEF p
    <2>2. \A j \in p..p : scope[j] = scope[p]
      BY <1>1
    <2>3. filed # <<>> /\ filed[Len(filed)].number = scope[p]
      BY <1>3
    <2> QED
      BY <1>1, <2>1, <2>2, <2>3 DEF OpenIsCurrent, AnnouncedAt
  <1> QED
    BY <1>5, <1>7, <1>8, <1>9 DEF Grouped, p, filed

\* What joining a group leaves of agreement, whatever number is in scope.
LEMMA GroupedByJoining ==
  ASSUME NEW m \in Nat, NEW scope \in [0..m -> NumberType], NEW i \in 0..(m - 1),
         NEW groups \in Seq(GroupType(m)), Grouped(scope, groups, i), NEW number,
         NEW h \in 1..Len(groups),
         scope[i + 1] = groups[h].number \/ Returned(scope, i + 1),
         \E g \in 1..Len(groups) : groups[g].number = scope[i + 1],
         \E k \in 1..(i + 1) : /\ AnnouncedAt(scope, k, i + 1)
                               /\ \/ groups[Len(groups)].number = scope[k]
                                  \/ AnnouncedBefore(scope, k)
  PROVE  Grouped(scope, Filed(groups, number, h, i + 1), i + 1)
  <1> DEFINE p == i + 1
             n == Len(groups)
             filed == Filed(groups, number, h, p)
  <1>1. p \in 1..m /\ p \in 0..m /\ p - 1 = i /\ p \in 1..p /\ i \in Nat
        /\ \A j \in 1..p : j \in 1..i \/ j = p
    OBVIOUS
  <1>2. /\ filed \in Seq(GroupType(m))
        /\ Len(filed) = n
        /\ \A g \in 1..n : filed[g].number = groups[g].number
        /\ \A g \in 1..n : g # h => filed[g] = groups[g]
        /\ filed[h].pieces = Append(groups[h].pieces, p)
    <2>1. p \in 1..m
      BY <1>1
    <2> HIDE DEF p
    <2>2. filed \in Seq(GroupType(m)) /\ JoinedBy(groups, filed, h, p)
      BY <2>1, Joins
    <2> QED
      BY <2>2 DEF JoinedBy
  <1>3. n \in Nat /\ n # 0 /\ n \in 1..n /\ groups[h] \in GroupType(m)
    OBVIOUS
  <1>4. filed[h] \in GroupType(m) /\ filed # <<>>
    BY <1>2, <1>3
  <1> HIDE DEF filed, p, n
  <1>5. OneGroupEach(filed)
    BY <1>2 DEF Grouped, OneGroupEach, n
  <1>6. /\ OwnPieces(scope, filed[h], p) /\ Holds(filed[h], p)
        /\ \A q : Holds(groups[h], q) => Holds(filed[h], q)
    <2>1. OwnPieces(scope, groups[h], i)
      BY DEF Grouped
    <2>2. filed[h].number = groups[h].number
      BY <1>2 DEF n
    <2> QED
      BY <1>2, <1>3, <1>4, <2>1, <2>2, OwnPiecesMore DEF p
  <1>7. \A g \in 1..n : OwnPieces(scope, filed[g], p)
    <2>1. \A g \in 1..n : OwnPieces(scope, groups[g], p)
      BY <1>1, OwnPiecesLater DEF Grouped, p, n
    <2> QED
      BY <1>2, <1>6, <2>1
  <1>8. \A g \in 1..n : \A q : Holds(groups[g], q) => Holds(filed[g], q)
    BY <1>2, <1>6
  <1>9. \A q \in 1..i : InItsGroup(scope, filed, q)
    BY <1>2, <1>8 DEF Grouped, InItsGroup, n
  <1>10. InItsGroup(scope, filed, p)
    <2>1. PICK g \in 1..n : groups[g].number = scope[p]
      BY DEF n, p
    <2>2. Holds(filed[g], p) \/ Returned(scope, p)
      <3>1. CASE scope[p] = groups[h].number
        <4>1. g = h
          BY <2>1, <3>1 DEF Grouped, OneGroupEach, n
        <4> QED
          BY <1>6, <4>1
      <3>2. CASE Returned(scope, p)
        BY <3>2
      <3> QED
        BY <3>1, <3>2 DEF p
    <2> QED
      BY <1>2, <2>1, <2>2 DEF InItsGroup
  <1>11. scope[p] # NoNumber
    <2>1. PICK g \in 1..n : groups[g].number = scope[p]
      BY DEF n, p
    <2> QED
      BY <2>1 DEF Grouped, OwnPieces, n
  <1>12. OpenIsCurrent(scope, filed, p)
    <2>1. filed[Len(filed)].number = groups[Len(groups)].number
      BY <1>2, <1>3 DEF n
    <2> QED
      BY <1>4, <1>11, <2>1 DEF OpenIsCurrent, p
  <1> QED
    BY <1>1, <1>2, <1>5, <1>7, <1>9, <1>10, <1>12 DEF Grouped, p, filed

\* A turn of the loop keeps groups and scopes in agreement.
LEMMA GroupedNext ==
  ASSUME NEW n \in Nat, NEW pieces \in Seq(Pieces(n)), NEW i \in 0..(Len(pieces) - 1),
         NEW scope \in [0..Len(pieces) -> NumberType], scope[0] = NoNumber,
         scope[i + 1] = ScopeStep(pieces, scope[i], i + 1),
         NEW so \in GroupingType(Len(pieces)), so.current = scope[i],
         Grouped(scope, so.groups, i)
  PROVE  LET next == AccumulateStep(pieces, so, i + 1)
         IN  next.current = scope[i + 1] /\ Grouped(scope, next.groups, i + 1)
  <1> DEFINE m == Len(pieces)
             p == i + 1
             groups == so.groups
             marker == MarkerOf(pieces, p, so.current)
             next == AccumulateStep(pieces, so, p)
  <1>1. /\ m \in Nat /\ i \in 0..(m - 1) /\ scope \in [0..m -> NumberType]
        /\ groups \in Seq(GroupType(m)) /\ i \in Nat
    BY DEF GroupingType
  <1>2. /\ p \in Nat /\ p - 1 = i /\ p \in 1..p /\ i \in 1..(p - 1) \cup {0}
        /\ \A j \in 1..p : j \in 1..i \/ j = p
        /\ \A j \in 1..i : j \in 1..(p - 1) /\ j \in 1..p
        /\ \A j \in p..p : j = p
    OBVIOUS
  <1>3. scope[p] = IF marker = NoNumber THEN scope[i] ELSE marker
    BY DEF ScopeStep
  <1>4. next = IF marker \notin {NoNumber, so.current}
               THEN [groups |-> Filed(groups, marker, GroupOf(groups, marker), p), current |-> marker]
               ELSE IF groups = <<>> THEN so
               ELSE [so EXCEPT !.groups = Filed(groups, marker, OpenGroup(groups), p)]
    BY DEF AccumulateStep
  <1> HIDE DEF marker, next, m
  <1>5. CASE marker \notin {NoNumber, so.current}
    <2>1. scope[p] = marker /\ scope[p] \notin {NoNumber, scope[i]}
      BY <1>3, <1>5
    <2>2. next.current = scope[p] /\ next.groups = Filed(groups, marker, GroupOf(groups, marker), p)
      BY <1>4, <1>5, <2>1
    <2>3. CASE GroupOf(groups, marker) = 0
      <3>1. \A g \in 1..Len(groups) : groups[g].number # marker
        <4>1. GroupOf(groups, marker) \notin 1..Len(groups)
          BY <2>3
        <4> HIDE DEF groups
        <4> QED
          BY <1>1, <4>1, GroupOfIs
      <3> HIDE DEF groups
      <3>2. Grouped(scope, groups, i)
        BY DEF groups
      <3>3. Grouped(scope, Filed(groups, scope[p], 0, p), p)
        BY <1>1, <2>1, <3>1, <3>2, GroupedByOpening
      <3> QED
        BY <2>1, <2>2, <2>3, <3>3 DEF next, groups
    <2>4. CASE GroupOf(groups, marker) # 0
      <3> DEFINE h == GroupOf(groups, marker)
      <3> HIDE DEF groups
      <3>1. h \in 1..Len(groups) /\ groups[h].number = scope[p]
        BY <1>1, <2>1, <2>4, GroupOfIs
      <3>2. Grouped(scope, groups, i)
        BY DEF groups
      <3> HIDE DEF h
      <3>3. AnnouncedAt(scope, p, p)
        BY <1>2, <2>1 DEF AnnouncedAt
      <3>4. AnnouncedBefore(scope, p)
        <4>1. PICK j \in 1..i : scope[j] = groups[h].number
          BY <3>1, <3>2 DEF Grouped, OwnPieces
        <4> HIDE DEF p
        <4> QED
          BY <1>2, <3>1, <4>1 DEF AnnouncedBefore
      <3>5. Grouped(scope, Filed(groups, marker, h, p), p)
        <4>1. \E k \in 1..p : /\ AnnouncedAt(scope, k, p)
                              /\ \/ groups[Len(groups)].number = scope[k]
                                 \/ AnnouncedBefore(scope, k)
          BY <1>2, <3>3, <3>4
        <4> QED
          BY <1>1, <3>1, <3>2, <4>1, GroupedByJoining
      <3> QED
        BY <2>2, <3>5 DEF next, groups, h
    <2> QED
      BY <2>3, <2>4
  <1>6. CASE marker \in {NoNumber, so.current}
    <2>1. scope[p] = scope[i]
      BY <1>3, <1>6
    <2>2. CASE groups = <<>>
      <3>1. next = so
        BY <1>4, <1>6, <2>2
      <3>2. scope[i] = NoNumber
        BY <2>2 DEF Grouped, OpenIsCurrent
      <3>3. OneGroupEach(groups) /\ \A g \in 1..Len(groups) : OwnPieces(scope, groups[g], p)
        <4>1. 1..Len(groups) = {}
          BY <2>2
        <4> QED
          BY <4>1 DEF OneGroupEach
      <3>4. \A q \in 1..p : InItsGroup(scope, groups, q)
        <4>1. InItsGroup(scope, groups, p)
          BY <2>1, <3>2 DEF InItsGroup
        <4> HIDE DEF p
        <4> QED
          BY <1>2, <4>1 DEF Grouped
      <3>5. OpenIsCurrent(scope, groups, p)
        BY <2>1, <2>2, <3>2 DEF OpenIsCurrent
      <3> QED
        BY <2>1, <3>1, <3>3, <3>4, <3>5 DEF Grouped, next
    <2>3. CASE groups # <<>>
      <3> DEFINE h == Len(groups)
      <3>1. /\ next.current = scope[p]
            /\ next.groups = Filed(groups, marker, h, p)
        BY <1>4, <1>6, <2>1, <2>3 DEF OpenGroup, GroupingType
      <3>2. h \in 1..Len(groups)
        <4> HIDE DEF groups
        <4> QED
          BY <1>1, <2>3
      <3>3. Grouped(scope, groups, i) /\ scope[i] # NoNumber
        BY <2>3 DEF Grouped, OpenIsCurrent
      <3> HIDE DEF groups
      <3>4. PICK k \in 1..i : /\ AnnouncedAt(scope, k, i)
                              /\ \/ groups[Len(groups)].number = scope[k]
                                 \/ AnnouncedBefore(scope, k)
        BY <3>3 DEF Grouped, OpenIsCurrent
      <3>5. AnnouncedAt(scope, k, p) /\ scope[p] = scope[k]
        <4>1. \A j \in k..p : j \in k..i \/ j = p
          OBVIOUS
        <4>2. i \in k..i
          BY <1>1
        <4> HIDE DEF p
        <4> QED
          BY <2>1, <3>4, <4>1, <4>2 DEF AnnouncedAt
      <3>6. scope[p] = groups[h].number \/ Returned(scope, p)
        <4> HIDE DEF p
        <4> QED
          BY <1>2, <3>4, <3>5 DEF Returned
      <3>7. \E g \in 1..Len(groups) : groups[g].number = scope[p]
        <4>1. i \in 1..i
          BY <1>1, <3>3
        <4> QED
          BY <2>1, <3>3, <4>1 DEF Grouped, InItsGroup
      <3> HIDE DEF h
      <3>8. Grouped(scope, Filed(groups, marker, h, p), p)
        <4>1. \E l \in 1..p : /\ AnnouncedAt(scope, l, p)
                              /\ \/ groups[Len(groups)].number = scope[l]
                                 \/ AnnouncedBefore(scope, l)
          BY <1>2, <3>4, <3>5
        <4> QED
          BY <1>1, <3>2, <3>3, <3>6, <3>7, <4>1, GroupedByJoining
      <3> QED
        BY <3>1, <3>8 DEF next
    <2> QED
      BY <2>2, <2>3
  <1> QED
    BY <1>5, <1>6

\* The groups of a text agree with its scopes.
LEMMA TextGrouped ==
  ASSUME NEW n \in Nat, NEW pieces \in Seq(Pieces(n))
  PROVE  /\ Accumulate(pieces) \in Seq(GroupType(Len(pieces)))
         /\ Grouped(Scope(pieces), Accumulate(pieces), Len(pieces))
  <1> DEFINE m == Len(pieces)
             scope == Scope(pieces)
  <1>1. /\ m \in Nat
        /\ scope \in [0..m -> NumberType] /\ scope[0] = NoNumber
        /\ \A i \in 1..m : scope[i] = ScopeStep(pieces, scope[i - 1], i)
    BY ScopeIs
  <1>2. PICK so \in [0..m -> GroupingType(m)] :
           /\ so[0] = [groups |-> <<>>, current |-> NoNumber]
           /\ \A i \in 1..m : so[i] = AccumulateStep(pieces, so[i - 1], i)
           /\ Accumulate(pieces) = so[m].groups
    BY AccumulateIs
  <1> HIDE DEF scope
  <1> DEFINE S == {i \in 0..m : so[i].current = scope[i] /\ Grouped(scope, so[i].groups, i)}
  <1>3. 0 \in S
    <2>1. so[0].groups = <<>> /\ so[0].current = scope[0]
      BY <1>1, <1>2
    <2>2. 1..Len(<<>>) = {} /\ 1..0 = {}
      OBVIOUS
    <2>3. Grouped(scope, <<>>, 0)
      BY <1>1, <2>2 DEF Grouped, OneGroupEach, OpenIsCurrent
    <2> QED
      BY <1>1, <2>1, <2>3
  <1>4. ASSUME NEW i \in 0..(m - 1), i \in S
        PROVE  i + 1 \in S
    <2>1. i + 1 \in 1..m /\ (i + 1) - 1 = i /\ i + 1 \in 0..m /\ i \in 0..m
      BY <1>1
    <2>2. so[i + 1] = AccumulateStep(pieces, so[i], i + 1) /\ so[i] \in GroupingType(m)
      BY <1>2, <2>1
    <2>3. scope[i + 1] = ScopeStep(pieces, scope[i], i + 1)
      BY <1>1, <2>1
    <2>4. so[i].current = scope[i] /\ Grouped(scope, so[i].groups, i)
      BY <1>4
    <2>5. /\ so[i + 1].current = scope[i + 1]
          /\ Grouped(scope, so[i + 1].groups, i + 1)
      BY <1>1, <2>2, <2>3, <2>4, GroupedNext
    <2> QED
      BY <2>1, <2>5
  <1>5. m \in S
    <2>1. m \in 0..m
      BY <1>1
    <2> HIDE DEF S, m
    <2>2. 0..m \subseteq S
      BY <1>1, <1>3, <1>4, Induct
    <2> QED
      BY <2>1, <2>2
  <1>6. so[m] \in GroupingType(m)
    BY <1>1, <1>2
  <1> QED
    BY <1>2, <1>5, <1>6 DEF GroupingType, scope

-----------------------------------------------------------------------------
(* What is read from the spans of one document *)

\* The pieces of a document's spans.
LEMMA PreparedIs ==
  ASSUME NEW spans \in Seq(SpanType)
  PROVE  Prepared(spans) \in Seq(Pieces(Len(spans)))
  <1> DEFINE n == Len(spans)
             piecesOf(s) == [k \in DOMAIN spans[s].pieces |->
                               [ span  |-> s,
                                 lead  |-> spans[s].pieces[k].lead,
                                 marks |-> spans[s].pieces[k].marks ]]
             seqs == [s \in DOMAIN spans |-> piecesOf(s)]
  <1>1. n \in Nat /\ DOMAIN spans = 1..n
    OBVIOUS
  <1>2. ASSUME NEW s \in 1..n
        PROVE  piecesOf(s) \in Seq(Pieces(n))
    <2> DEFINE written == spans[s].pieces
    <2>1. written \in Seq(PieceType)
      <3>1. spans[s] \in SpanType
        BY <1>1, <1>2
      <3> QED
        BY <3>1 DEF SpanType
    <2>2. DOMAIN written = 1..Len(written) /\ Len(written) \in Nat
      BY <2>1
    <2>3. ASSUME NEW k \in 1..Len(written)
          PROVE  [span |-> s, lead |-> written[k].lead, marks |-> written[k].marks] \in Pieces(n)
      <3>1. written[k] \in PieceType
        BY <2>1
      <3> HIDE DEF written, n
      <3> QED
        BY <1>2, <3>1 DEF PieceType, Pieces
    <2> HIDE DEF written
    <2>4. piecesOf(s) = [k \in 1..Len(written) |->
                           [span |-> s, lead |-> written[k].lead, marks |-> written[k].marks]]
      BY <2>2 DEF written
    <2> HIDE DEF piecesOf, n
    <2> QED
      BY <2>2, <2>3, <2>4
  <1> HIDE DEF piecesOf
  <1>3. seqs \in Seq(Seq(Pieces(n)))
    BY <1>1, <1>2
  <1>4. FlattenSeq(seqs) \in Seq(Pieces(n))
    <2> HIDE DEF seqs, n
    <2> QED
      BY <1>3, Flattened
  <1> QED
    BY <1>4 DEF Prepared, piecesOf

\* A question cites what stands under its number: the body of MisfiledExplained.
WellFiled(pieces, number, cited) ==
    /\ \A s \in cited : \E k \in DOMAIN pieces :
          /\ pieces[k].span = s
          /\ Scope(pieces)[k] = number \/ UnderReturned(pieces, k)
    /\ \A k \in DOMAIN pieces :
          Scope(pieces)[k] = number /\ ~UnderReturned(pieces, k) => pieces[k].span \in cited

\* Its marks stand there: the body of MarksOwn.
WellMarked(pieces, number, marks) ==
    marks # NoMarks =>
        \E k \in DOMAIN pieces :
            /\ Scope(pieces)[k] = number \/ UnderReturned(pieces, k)
            /\ \E m \in Range(pieces[k].marks) : m.kind # "total" /\ m.n = marks

LEMMA ReturnedIs ==
  ASSUME NEW pieces, NEW i
  PROVE  UnderReturned(pieces, i) <=> Returned(Scope(pieces), i)
  BY DEF UnderReturned, Returned, AnnouncedAt, AnnouncedBefore

\* A group cites the spans of its pieces, and no group misses one of its own.
LEMMA GroupWellFiled ==
  ASSUME NEW n \in Nat, NEW pieces \in Seq(Pieces(n)),
         NEW groups \in Seq(GroupType(Len(pieces))),
         Grouped(Scope(pieces), groups, Len(pieces)), NEW g \in 1..Len(groups)
  PROVE  /\ SpansOf(pieces, groups[g]) \in SUBSET (1..n)
         /\ SpansOf(pieces, groups[g]) # {}
         /\ WellFiled(pieces, groups[g].number, SpansOf(pieces, groups[g]))
  <1> DEFINE m == Len(pieces)
             scope == Scope(pieces)
             own == groups[g].pieces
             cited == {pieces[own[k]].span : k \in 1..Len(own)}
  <1>1. m \in Nat /\ DOMAIN pieces = 1..m /\ \A k \in 1..m : pieces[k] \in Pieces(n)
    OBVIOUS
  <1>2. groups[g] \in GroupType(m)
    OBVIOUS
  <1>3. own \in Seq(1..m)
    BY <1>2 DEF GroupType
  <1>4. SpansOf(pieces, groups[g]) = cited
    <2>1. DOMAIN own = 1..Len(own)
      BY <1>3
    <2> QED
      BY <2>1 DEF SpansOf
  <1>5. /\ groups[g].number # NoNumber /\ own # <<>>
        /\ \A k \in 1..Len(own) : own[k] \in 1..m /\ (scope[own[k]] = groups[g].number \/ Returned(scope, own[k]))
    BY DEF Grouped, OwnPieces
  <1>6. \A k \in 1..m : pieces[k].span \in 1..n
    BY <1>1 DEF Pieces
  <1> HIDE DEF m, scope, own
  <1>7. cited \in SUBSET (1..n)
    BY <1>5, <1>6
  <1>8. cited # {}
    <2>1. 1 \in 1..Len(own)
      BY <1>3, <1>5
    <2> QED
      BY <2>1
  <1>9. ASSUME NEW s \in cited
        PROVE  \E k \in 1..m : pieces[k].span = s /\ (scope[k] = groups[g].number \/ Returned(scope, k))
    BY <1>5
  <1>10. ASSUME NEW k \in 1..m, scope[k] = groups[g].number, ~Returned(scope, k)
         PROVE  pieces[k].span \in cited
    <2>1. InItsGroup(scope, groups, k)
      BY DEF Grouped, scope, m
    <2>2. PICK h \in 1..Len(groups) : groups[h].number = scope[k] /\ Holds(groups[h], k)
      BY <1>5, <1>10, <2>1 DEF InItsGroup
    <2>3. h = g
      BY <1>10, <2>2 DEF Grouped, OneGroupEach
    <2>4. PICK j \in 1..Len(own) : own[j] = k
      BY <2>2, <2>3 DEF Holds, own
    <2> QED
      BY <2>4
  <1> HIDE DEF cited
  <1>11. WellFiled(pieces, groups[g].number, cited)
    BY <1>1, <1>9, <1>10, ReturnedIs DEF WellFiled, scope
  <1> QED
    BY <1>4, <1>7, <1>8, <1>11

\* The marks of a group are those of one of its annotations that is no total.
LEMMA GroupWellMarked ==
  ASSUME NEW n \in Nat, NEW pieces \in Seq(Pieces(n)),
         NEW groups \in Seq(GroupType(Len(pieces))),
         Grouped(Scope(pieces), groups, Len(pieces)), NEW g \in 1..Len(groups)
  PROVE  /\ ExtractMarks(pieces, groups[g]) \in Nat \cup {NoMarks}
         /\ WellMarked(pieces, groups[g].number, ExtractMarks(pieces, groups[g]))
  <1> DEFINE m == Len(pieces)
             scope == Scope(pieces)
             number == groups[g].number
             own == groups[g].pieces
             marksOf == [k \in DOMAIN own |-> pieces[own[k]].marks]
             all == FlattenSeq(marksOf)
             worded == {k \in DOMAIN all : all[k].kind = "worded"}
             ending == pieces[Last(own)].marks
             marks == ExtractMarks(pieces, groups[g])
             Allots(x) == \E k \in 1..m :
                 /\ scope[k] = number \/ Returned(scope, k)
                 /\ \E j \in 1..Len(pieces[k].marks) :
                       pieces[k].marks[j].kind # "total" /\ pieces[k].marks[j].n = x
  <1>1. m \in Nat /\ DOMAIN pieces = 1..m /\ \A k \in 1..m : pieces[k] \in Pieces(n)
    OBVIOUS
  <1>2. groups[g] \in GroupType(m)
    OBVIOUS
  <1>3. own \in Seq(1..m)
    BY <1>2 DEF GroupType
  <1>4. DOMAIN own = 1..Len(own) /\ Len(own) \in Nat
    BY <1>3
  <1>5. own # <<>> /\ \A k \in 1..Len(own) :
            own[k] \in 1..m /\ (scope[own[k]] = number \/ Returned(scope, own[k]))
    BY DEF Grouped, OwnPieces
  <1>6. \A k \in 1..m : pieces[k].marks \in Seq(MarksType)
    BY <1>1 DEF Pieces
  <1>7. marks = IF worded # {} THEN all[Min(worded)].n
                ELSE IF \E k \in DOMAIN all : all[k].kind = "total" THEN NoMarks
                ELSE IF ending # <<>> /\ Last(ending).kind = "bracket" THEN Last(ending).n
                ELSE NoMarks
    BY DEF ExtractMarks
  <1> HIDE DEF m, scope, number, own, marks
  <1>8. marksOf \in Seq(Seq(MarksType)) /\ Len(marksOf) = Len(own)
    BY <1>4, <1>5, <1>6
  <1>9. \A i \in 1..Len(own) : marksOf[i] = pieces[own[i]].marks
    BY <1>4
  <1> HIDE DEF marksOf
  <1>10. /\ all \in Seq(MarksType)
         /\ \A j \in 1..Len(all) : \E i \in 1..Len(marksOf) :
               \E k \in 1..Len(marksOf[i]) : all[j] = marksOf[i][k]
    BY <1>8, Flattened
  <1>11. DOMAIN all = 1..Len(all) /\ Len(all) \in Nat /\ \A j \in 1..Len(all) : all[j] \in MarksType
    BY <1>10
  <1> HIDE DEF all
  <1>12. \A k \in 1..Len(own) : \A j \in 1..Len(pieces[own[k]].marks) :
            pieces[own[k]].marks[j] \in MarksType
    BY <1>5, <1>6
  <1>13. ASSUME worded # {}
         PROVE  marks \in Nat /\ Allots(marks)
    <2>1. Min(worded) \in worded
      <3>1. worded \in SUBSET Nat
        BY <1>11
      <3> HIDE DEF worded
      <3> QED
        BY <1>13, <3>1, MinIsFirst
    <2>2. PICK j \in 1..Len(all) : j = Min(worded) /\ all[j].kind = "worded"
      BY <1>11, <2>1
    <2>3. PICK i \in 1..Len(marksOf) : \E k \in 1..Len(marksOf[i]) : all[j] = marksOf[i][k]
      BY <1>10
    <2>4. i \in 1..Len(own) /\ marksOf[i] = pieces[own[i]].marks
      BY <1>8, <1>9
    <2> DEFINE p == own[i]
    <2>5. p \in 1..m /\ (scope[p] = number \/ Returned(scope, p))
      BY <1>5, <2>4
    <2>6. PICK k \in 1..Len(pieces[p].marks) : all[j] = pieces[p].marks[k]
      BY <2>3, <2>4
    <2> HIDE DEF p, worded
    <2>7. marks = all[j].n /\ all[j] \in MarksType
      BY <1>7, <1>11, <1>13, <2>2
    <2>8. all[j].kind # "total" /\ all[j].n \in Nat
      BY <2>2, <2>7 DEF MarksType
    <2>9. marks \in Nat /\ Allots(marks)
      BY <2>5, <2>6, <2>7, <2>8
    <2> QED
      BY <2>9
  <1>14. ASSUME worded = {}, marks # NoMarks
         PROVE  marks \in Nat /\ Allots(marks)
    <2>1. ending # <<>> /\ Last(ending).kind = "bracket" /\ marks = Last(ending).n
      BY <1>7, <1>14
    <2>2. Len(own) \in 1..Len(own) /\ Last(own) = own[Len(own)]
      BY <1>3, <1>5 DEF Last
    <2> DEFINE p == own[Len(own)]
    <2>3. p \in 1..m /\ (scope[p] = number \/ Returned(scope, p)) /\ ending = pieces[p].marks
      BY <1>5, <2>2
    <2>4. ending \in Seq(MarksType)
      BY <1>6, <2>3
    <2> HIDE DEF p, ending
    <2>5. /\ Len(ending) \in 1..Len(ending) /\ Last(ending) = ending[Len(ending)]
          /\ ending[Len(ending)] \in MarksType
      BY <2>1, <2>4 DEF Last
    <2>6. Last(ending).kind # "total" /\ Last(ending).n \in Nat
      BY <2>1, <2>5 DEF MarksType
    <2>7. marks \in Nat /\ Allots(marks)
      BY <2>1, <2>3, <2>5, <2>6
    <2> QED
      BY <2>7
  <1>15. marks = NoMarks \/ (marks \in Nat /\ Allots(marks))
    <2> HIDE DEF Allots, worded
    <2> QED
      BY <1>13, <1>14
  <1>16. marks \in Nat \cup {NoMarks}
    BY <1>15
  <1>17. WellMarked(pieces, number, marks)
    <2> SUFFICES ASSUME marks # NoMarks
                 PROVE  \E k \in 1..m :
                          /\ scope[k] = number \/ UnderReturned(pieces, k)
                          /\ \E x \in Range(pieces[k].marks) : x.kind # "total" /\ x.n = marks
      BY <1>1 DEF WellMarked, scope
    <2>1. PICK k \in 1..m :
             /\ scope[k] = number \/ Returned(scope, k)
             /\ \E j \in 1..Len(pieces[k].marks) :
                   pieces[k].marks[j].kind # "total" /\ pieces[k].marks[j].n = marks
      BY <1>15
    <2>2. scope[k] = number \/ UnderReturned(pieces, k)
      BY <2>1, ReturnedIs DEF scope
    <2>3. DOMAIN pieces[k].marks = 1..Len(pieces[k].marks)
      BY <1>6
    <2>4. \A j \in 1..Len(pieces[k].marks) : pieces[k].marks[j] \in Range(pieces[k].marks)
      BY <2>3 DEF Range
    <2> QED
      BY <2>1, <2>2, <2>4
  <1> QED
    BY <1>16, <1>17 DEF marks, number

AskedType(n) == [number : NumberType, marks : Nat \cup {NoMarks}, spans : SUBSET (1..n)]

\* No number is asked twice, and each has the spans and the marks of its own.
WellAsked(spans, asked) ==
    /\ \A p, q \in 1..Len(asked) : asked[p].number = asked[q].number => p = q
    /\ \A q \in 1..Len(asked) :
          /\ asked[q].spans # {}
          /\ WellFiled(Prepared(spans), asked[q].number, asked[q].spans)
          /\ WellMarked(Prepared(spans), asked[q].number, asked[q].marks)

\* What parse_questions and parse_mark_scheme return, whatever the text.
LEMMA ParseIs ==
  ASSUME NEW spans \in Seq(SpanType)
  PROVE  /\ Parse(spans) \in Seq(AskedType(Len(spans)))
         /\ WellAsked(spans, Parse(spans))
  <1> DEFINE n == Len(spans)
             pieces == Prepared(spans)
             groups == Accumulate(pieces)
             asked == Parse(spans)
             row(g) == [ number |-> groups[g].number,
                         marks  |-> ExtractMarks(pieces, groups[g]),
                         spans  |-> SpansOf(pieces, groups[g]) ]
  <1>1. n \in Nat /\ pieces \in Seq(Pieces(n))
    BY PreparedIs
  <1>2. groups \in Seq(GroupType(Len(pieces))) /\ Grouped(Scope(pieces), groups, Len(pieces))
    BY <1>1, TextGrouped
  <1>3. asked = [g \in DOMAIN groups |-> row(g)]
    BY DEF Parse
  <1> HIDE DEF n, pieces, groups, asked
  <1>4. DOMAIN groups = 1..Len(groups) /\ Len(groups) \in Nat
    BY <1>2
  <1>5. ASSUME NEW g \in 1..Len(groups)
        PROVE  /\ row(g) \in AskedType(n)
               /\ row(g).spans # {}
               /\ WellFiled(pieces, row(g).number, row(g).spans)
               /\ WellMarked(pieces, row(g).number, row(g).marks)
    <2>1. groups[g] \in GroupType(Len(pieces))
      BY <1>2
    <2>2. groups[g].number \in NumberType
      BY <2>1 DEF GroupType
    <2>3. /\ SpansOf(pieces, groups[g]) \in SUBSET (1..n) /\ SpansOf(pieces, groups[g]) # {}
          /\ WellFiled(pieces, groups[g].number, SpansOf(pieces, groups[g]))
      BY <1>1, <1>2, GroupWellFiled
    <2>4. /\ ExtractMarks(pieces, groups[g]) \in Nat \cup {NoMarks}
          /\ WellMarked(pieces, groups[g].number, ExtractMarks(pieces, groups[g]))
      BY <1>1, <1>2, GroupWellMarked
    <2> QED
      BY <2>2, <2>3, <2>4 DEF AskedType
  <1>6. asked \in Seq(AskedType(n)) /\ Len(asked) = Len(groups)
    <2> HIDE DEF row
    <2> QED
      BY <1>3, <1>4, <1>5
  <1>7. \A g \in 1..Len(groups) : asked[g] = row(g)
    BY <1>3, <1>4
  <1>8. \A p, q \in 1..Len(groups) : asked[p].number = asked[q].number => p = q
    <2>1. ASSUME NEW g \in 1..Len(groups)
          PROVE  asked[g].number = groups[g].number
      <3>1. asked[g] = row(g)
        BY <1>7
      <3>2. row(g).number = groups[g].number
        OBVIOUS
      <3> HIDE DEF row
      <3> QED
        BY <3>1, <3>2
    <2>2. OneGroupEach(groups)
      BY <1>2 DEF Grouped
    <2> QED
      BY <2>1, <2>2 DEF OneGroupEach
  <1> HIDE DEF row
  <1>9. WellAsked(spans, asked)
    BY <1>5, <1>6, <1>7, <1>8 DEF WellAsked, pieces
  <1> QED
    BY <1>6, <1>9 DEF n, asked

-----------------------------------------------------------------------------
(* A text that OCR runs together *)

LEMMA RunOnStepIs ==
  ASSUME NEW so \in Seq(PieceType), NEW piece \in PieceType
  PROVE  RunOnStep(so, piece) \in Seq(PieceType)
  <1> DEFINE last == so[Len(so)]
             inner == [k \in DOMAIN last.marks |-> Inner(last.marks[k])]
             more == [last EXCEPT !.marks = inner \o piece.marks]
  <1>1. CASE so = <<>> \/ SplitsOn(piece)
    BY <1>1 DEF RunOnStep
  <1>2. CASE ~(so = <<>> \/ SplitsOn(piece))
    <2>1. RunOnStep(so, piece) = [so EXCEPT ![Len(so)] = more]
      BY <1>2 DEF RunOnStep
    <2>2. Len(so) \in 1..Len(so) /\ last \in PieceType
      BY <1>2
    <2> HIDE DEF last
    <2>3. last.marks \in Seq(MarksType) /\ piece.marks \in Seq(MarksType)
      BY <2>2 DEF PieceType
    <2>4. \A m \in MarksType : Inner(m) \in MarksType
      BY DEF Inner, Marks, MarksType
    <2>5. \A k \in 1..Len(last.marks) : Inner(last.marks[k]) \in MarksType
      BY <2>3, <2>4
    <2>6. inner \in Seq(MarksType)
      <3>1. Len(last.marks) \in Nat /\ DOMAIN last.marks = 1..Len(last.marks)
        BY <2>3
      <3>2. inner \in [1..Len(last.marks) -> MarksType]
        BY <2>5, <3>1
      <3> HIDE DEF inner
      <3> QED
        BY <3>1, <3>2
    <2> HIDE DEF inner
    <2>7. inner \o piece.marks \in Seq(MarksType)
      BY <2>3, <2>6
    <2>8. more \in PieceType
      BY <2>2, <2>7 DEF PieceType
    <2> HIDE DEF more
    <2> QED
      BY <2>1, <2>2, <2>8
  <1> QED
    BY <1>1, <1>2

LEMMA RunOnIs ==
  ASSUME NEW pieces \in Seq(PieceType)
  PROVE  RunOn(pieces) \in Seq(PieceType)
  <1> DEFINE m == Len(pieces)
             D == Seq(PieceType)
             Body(f) == [i \in 0..m |-> IF i = 0 THEN <<>> ELSE RunOnStep(f[i - 1], pieces[i])]
             so == CHOOSE f : f = Body(f)
             step == [p \in D \X (1..m) |-> RunOnStep(p[1], pieces[p[2]])]
  <1>1. m \in Nat /\ <<>> \in D
    OBVIOUS
  <1>2. ASSUME NEW before \in D, NEW i \in 1..m
        PROVE  RunOnStep(before, pieces[i]) \in D
    BY <1>2, RunOnStepIs
  <1> HIDE DEF D
  <1>3. step \in Steps(m, D)
    BY <1>2 DEF Steps
  <1>4. PICK f \in [0..m -> D] : f[0] = <<>> /\ \A i \in 1..m : f[i] = step[<<f[i - 1], i>>]
    <2> HIDE DEF step, m
    <2>1. Runs(m, D, <<>>, step) # {}
      BY <1>1, <1>3, StepsHaveRun
    <2> QED
      BY <2>1 DEF Runs
  <1>5. \A i \in 1..m : i - 1 \in 0..m
    BY <1>1
  <1>6. \A i \in 1..m : step[<<f[i - 1], i>>] = RunOnStep(f[i - 1], pieces[i])
    <2> SUFFICES ASSUME NEW i \in 1..m
                 PROVE  step[<<f[i - 1], i>>] = RunOnStep(f[i - 1], pieces[i])
      OBVIOUS
    <2>1. f[i - 1] \in D
      BY <1>5
    <2> QED
      BY <2>1
  <1>7. \A i \in 1..m : f[i] = RunOnStep(f[i - 1], pieces[i])
    <2> HIDE DEF step
    <2> QED
      BY <1>4, <1>6
  <1>8. f = Body(f)
    <2> HIDE DEF step
    <2> QED
      BY <1>1, <1>4, <1>7
  <1>9. so = Body(so)
    <2> HIDE DEF Body
    <2> QED
      BY <1>8
  <1>10. RunOn(pieces) = so[m]
    BY DEF RunOn
  <1> HIDE DEF so, step
  <1>11. so[0] = <<>> /\ \A i \in 1..m : so[i] = RunOnStep(so[i - 1], pieces[i])
    <2>1. \A i \in 0..m : so[i] = IF i = 0 THEN <<>> ELSE RunOnStep(so[i - 1], pieces[i])
      BY <1>9, Zenon
    <2> QED
      BY <1>1, <2>1
  <1>12. m \in {i \in 0..m : so[i] \in D}
    <2> DEFINE S == {i \in 0..m : so[i] \in D}
    <2>1. 0 \in S
      BY <1>1, <1>11
    <2>2. ASSUME NEW i \in 0..(m - 1), i \in S
          PROVE  i + 1 \in S
      <3>1. i + 1 \in 1..m /\ (i + 1) - 1 = i /\ i + 1 \in 0..m
        BY <1>1
      <3>2. so[i + 1] = RunOnStep(so[i], pieces[i + 1])
        BY <1>11, <3>1
      <3> QED
        BY <1>2, <2>2, <3>1, <3>2
    <2>3. m \in 0..m
      BY <1>1
    <2> HIDE DEF S, m
    <2>4. 0..m \subseteq S
      BY <1>1, <2>1, <2>2, Induct
    <2> QED
      BY <2>3, <2>4 DEF S
  <1> QED
    BY <1>10, <1>12 DEF D

-----------------------------------------------------------------------------
(* The inductive invariant *)

PageStates == {"no_image", "waiting", "sent", "text", "failed"}

UploadType ==
    [file : FileType, stage : {"idle", "parse", "ocr"}, rung : Nat, pages : Seq(PageStates)]

DocumentType ==
    [ file : FileType, parser : {"pypdf_text", "anydoc", "vision_llm_ocr"},
      confidence : [full : Nat, done : Int, of : Nat], spans : Seq(SpanType) ]

QuestionType ==
    {QuestionRow(d, label, asked) : d \in Nat, label \in Labels, asked \in
        [number : NumberType, marks : Nat \cup {NoMarks}, spans : SUBSET Nat]}

EntryType == [question : Nat, document : Nat, marks : Nat \cup {NoMarks}, spans : SUBSET Nat]

StateIn(pages, state) == {p \in 1..Len(pages) : pages[p] = state}

\* While pages are out, those without an image are the ones that were not sent.
UploadInv ==
    /\ shelf \in Seq(FileType)
    /\ uploads \in Nat
    /\ upload \in UploadType
    /\ Cardinality(StateIn(upload.pages, "sent")) <= Concurrency
    /\ upload.stage # "ocr" => upload.pages = <<>>
    /\ upload.stage = "ocr" =>
          /\ Len(upload.pages) = Len(upload.file.pages)
          /\ \A p \in 1..Len(upload.pages) :
                upload.pages[p] = "no_image" <=> upload.file.pages[p].layer # "scan"

\* The bodies of LostPagesShow and of EmptyDocumentExplained.
PageShows(doc, p) ==
    \/ \E s \in DOMAIN doc.spans : doc.spans[s].page \in {p} \cup
          (IF doc.parser = "anydoc" THEN {1} ELSE {})
    \/ doc.file.pages[p].layer = "blank"
    \/ doc.confidence.done < doc.confidence.of
    \/ (doc.parser = "vision_llm_ocr") # (doc.file.pages[p].layer = "scan")

EmptyExplained(doc) ==
    doc.spans = <<>> =>
        /\ doc.parser = "vision_llm_ocr"
        /\ doc.confidence.of - doc.confidence.done = Cardinality(ScansOf(doc.file))

DocumentsInv ==
    /\ documents \in Seq(DocumentType)
    /\ \A d \in 1..Len(documents) :
          /\ \A p \in DOMAIN documents[d].file.pages : PageShows(documents[d], p)
          /\ EmptyExplained(documents[d])

\* A question is what its paper asks under its number, with the label of a request.
OfItsPaper(row, docs) ==
    /\ row.document \in 1..Len(docs)
    /\ \E k \in 1..Len(Parse(docs[row.document].spans)) :
          row = QuestionRow(row.document, row.label, Parse(docs[row.document].spans)[k])

OneRefEach(rows) ==
    \A p, q \in 1..Len(rows) :
        p < q => rows[p].document # rows[q].document \/ rows[p].ref # rows[q].ref

QuestionsInv ==
    /\ questions \in Seq(QuestionType)
    /\ \A q \in 1..Len(questions) : OfItsPaper(questions[q], documents)
    /\ OneRefEach(questions)

EntriesInv ==
    /\ entries \in Seq(EntryType)
    /\ \A e \in 1..Len(entries) :
          /\ entries[e].question \in 1..Len(questions)
          /\ entries[e].document \in 1..Len(documents)
          /\ entries[e].spans \subseteq 1..Len(documents[entries[e].document].spans)

ReportInv ==
    /\ report.status # "none" =>
          report.paper \in 1..Len(documents) /\ report.scheme \in 0..Len(documents)
    /\ PaperLostExplained
    /\ ReportHonest

Inv == UploadInv /\ DocumentsInv /\ QuestionsInv /\ EntriesInv /\ ReportInv

-----------------------------------------------------------------------------
(* Documents *)

LEMMA PageIs ==
  ASSUME NEW file \in FileType
  PROVE  /\ file.pages \in Seq(PageType)
         /\ Len(file.pages) \in Nat /\ DOMAIN file.pages = 1..Len(file.pages)
         /\ \A p \in 1..Len(file.pages) :
               /\ file.pages[p].layer \in {"text", "scan", "blank"}
               /\ file.pages[p].blocks \in Seq(Seq(PieceType))
               /\ file.pages[p].layer = "text" => file.pages[p].blocks # <<>>
  <1>1. file.pages \in Seq(PageType)
    BY DEF FileType
  <1>2. ASSUME NEW page \in PageType
        PROVE  /\ page.layer \in {"text", "scan", "blank"}
               /\ page.blocks \in Seq(Seq(PieceType))
               /\ page.layer = "text" => page.blocks # <<>>
    BY <1>2 DEF PageType
  <1>3. \A p \in 1..Len(file.pages) : file.pages[p] \in PageType
    BY <1>1
  <1> HIDE DEF PageType
  <1> QED
    BY <1>1, <1>2, <1>3

\* Every page with text has a span, on its page or, from anydoc, on the first.
LEMMA TextSpansIs ==
  ASSUME NEW file \in FileType, NEW parser
  PROVE  /\ TextSpans(file, parser) \in Seq(SpanType)
         /\ \A p \in 1..Len(file.pages) :
               file.pages[p].layer = "text" =>
                   \E s \in 1..Len(TextSpans(file, parser)) :
                       TextSpans(file, parser)[s].page = IF parser = "pypdf_text" THEN p ELSE 1
  <1> DEFINE n == Len(file.pages)
             at(p) == IF parser = "pypdf_text" THEN p ELSE 1
             blocks(p) == file.pages[p].blocks
             rows(p) == IF file.pages[p].layer # "text" THEN <<>>
                        ELSE [b \in DOMAIN blocks(p) |-> SpanRow(at(p), blocks(p)[b])]
             seqs == [p \in DOMAIN file.pages |-> rows(p)]
             spans == TextSpans(file, parser)
  <1>1. /\ n \in Nat /\ DOMAIN file.pages = 1..n
        /\ \A p \in 1..n : /\ blocks(p) \in Seq(Seq(PieceType))
                           /\ file.pages[p].layer = "text" => blocks(p) # <<>>
    BY PageIs
  <1>2. spans = FlattenSeq(seqs)
    BY DEF TextSpans
  <1> HIDE DEF n, spans, blocks
  <1>3. ASSUME NEW p \in 1..n
        PROVE  /\ rows(p) \in Seq(SpanType)
               /\ file.pages[p].layer = "text" => 1 \in 1..Len(rows(p)) /\ rows(p)[1].page = at(p)
    <2> DEFINE of == blocks(p)
    <2>1. of \in Seq(Seq(PieceType)) /\ (file.pages[p].layer = "text" => of # <<>>)
      BY <1>1
    <2>2. at(p) \in Nat
      BY <1>1
    <2> HIDE DEF at, of
    <2>3. \A b \in 1..Len(of) : SpanRow(at(p), of[b]) \in SpanType
      BY <2>1, <2>2 DEF SpanRow, SpanType
    <2>4. \A b \in 1..Len(of) : SpanRow(at(p), of[b]).page = at(p)
      BY DEF SpanRow
    <2> HIDE DEF SpanType
    <2>5. CASE file.pages[p].layer # "text"
      BY <2>5
    <2>6. CASE file.pages[p].layer = "text"
      <3>1. rows(p) = [b \in 1..Len(of) |-> SpanRow(at(p), of[b])]
        BY <2>1, <2>6 DEF of
      <3>2. Len(of) \in Nat /\ 1 \in 1..Len(of)
        BY <2>1, <2>6
      <3> HIDE DEF rows
      <3> QED
        BY <2>3, <2>4, <3>1, <3>2
    <2> QED
      BY <2>5, <2>6
  <1> HIDE DEF rows
  <1>4. seqs \in Seq(Seq(SpanType)) /\ Len(seqs) = n /\ \A p \in 1..n : seqs[p] = rows(p)
    BY <1>1, <1>3
  <1> HIDE DEF seqs
  <1>5. /\ spans \in Seq(SpanType)
        /\ \A p \in 1..Len(seqs) : \A k \in 1..Len(seqs[p]) :
              \E s \in 1..Len(spans) : spans[s] = seqs[p][k]
    <2>1. seqs \in Seq(Seq(SpanType))
      BY <1>4
    <2> HIDE DEF SpanType
    <2>2. FlattenSeq(seqs) \in Seq(SpanType)
      BY <2>1, Flattened
    <2>3. \A i \in 1..Len(seqs) : \A k \in 1..Len(seqs[i]) :
             \E j \in 1..Len(FlattenSeq(seqs)) : FlattenSeq(seqs)[j] = seqs[i][k]
      BY <2>1, Flattened
    <2> QED
      BY <1>2, <2>2, <2>3
  <1>6. ASSUME NEW p \in 1..n, file.pages[p].layer = "text"
        PROVE  \E s \in 1..Len(spans) : spans[s].page = at(p)
    <2>1. 1 \in 1..Len(seqs[p]) /\ seqs[p][1].page = at(p)
      BY <1>3, <1>4, <1>6
    <2>2. PICK s \in 1..Len(spans) : spans[s] = seqs[p][1]
      BY <1>4, <1>5, <2>1
    <2> HIDE DEF at
    <2> QED
      BY <2>1, <2>2
  <1> QED
    BY <1>5, <1>6 DEF n, spans

\* Every page that was transcribed has a span on its page.
LEMMA OcrSpansIs ==
  ASSUME upload \in UploadType, Len(upload.pages) = Len(upload.file.pages)
  PROVE  /\ OcrSpans \in Seq(SpanType)
         /\ \A p \in 1..Len(upload.pages) :
               upload.pages[p] = "text" => \E s \in 1..Len(OcrSpans) : OcrSpans[s].page = p
  <1> DEFINE n == Len(upload.pages)
             blocks(p) == upload.file.pages[p].blocks
             rows(p) == IF upload.pages[p] # "text" THEN <<>>
                        ELSE <<SpanRow(p, RunOn(FlattenSeq(blocks(p))))>>
             seqs == [p \in DOMAIN upload.pages |-> rows(p)]
             spans == OcrSpans
  <1>1. upload.file \in FileType /\ upload.pages \in Seq(PageStates)
    BY DEF UploadType
  <1>2. n \in Nat /\ DOMAIN upload.pages = 1..n
    BY <1>1
  <1>3. \A p \in 1..n : blocks(p) \in Seq(Seq(PieceType))
    BY <1>1, PageIs
  <1>4. spans = FlattenSeq(seqs)
    BY DEF OcrSpans
  <1> HIDE DEF n, spans, blocks
  <1>5. ASSUME NEW p \in 1..n
        PROVE  /\ rows(p) \in Seq(SpanType)
               /\ upload.pages[p] = "text" => 1 \in 1..Len(rows(p)) /\ rows(p)[1].page = p
    <2> DEFINE text == RunOn(FlattenSeq(blocks(p)))
               row == SpanRow(p, text)
    <2>1. FlattenSeq(blocks(p)) \in Seq(PieceType)
      BY <1>3, Flattened
    <2>2. text \in Seq(PieceType)
      BY <2>1, RunOnIs
    <2> HIDE DEF text
    <2>3. row \in SpanType /\ row.page = p
      BY <1>2, <2>2 DEF SpanRow, SpanType
    <2>4. rows(p) = IF upload.pages[p] # "text" THEN <<>> ELSE <<row>>
      BY DEF text
    <2> HIDE DEF row, rows
    <2> QED
      BY <2>3, <2>4
  <1> HIDE DEF rows
  <1>6. seqs \in Seq(Seq(SpanType)) /\ Len(seqs) = n /\ \A p \in 1..n : seqs[p] = rows(p)
    BY <1>2, <1>5
  <1> HIDE DEF seqs
  <1>7. /\ spans \in Seq(SpanType)
        /\ \A p \in 1..Len(seqs) : \A k \in 1..Len(seqs[p]) :
              \E s \in 1..Len(spans) : spans[s] = seqs[p][k]
    <2>1. seqs \in Seq(Seq(SpanType))
      BY <1>6
    <2> HIDE DEF SpanType
    <2>2. FlattenSeq(seqs) \in Seq(SpanType)
      BY <2>1, Flattened
    <2>3. \A i \in 1..Len(seqs) : \A k \in 1..Len(seqs[i]) :
             \E j \in 1..Len(FlattenSeq(seqs)) : FlattenSeq(seqs)[j] = seqs[i][k]
      BY <2>1, Flattened
    <2> QED
      BY <1>4, <2>2, <2>3
  <1>8. ASSUME NEW p \in 1..n, upload.pages[p] = "text"
        PROVE  \E s \in 1..Len(spans) : spans[s].page = p
    <2>1. 1 \in 1..Len(seqs[p]) /\ seqs[p][1].page = p
      BY <1>5, <1>6, <1>8
    <2>2. p \in 1..Len(seqs)
      BY <1>6
    <2>3. \E s \in 1..Len(spans) : spans[s] = seqs[p][1]
      BY <1>7, <2>1, <2>2
    <2> QED
      BY <2>1, <2>3
  <1> QED
    BY <1>7, <1>8 DEF n, spans

\* Rows that were there stay where they are.
DocumentsKept ==
    /\ Len(documents) \in Nat /\ Len(documents') \in Nat
    /\ \A d \in 1..Len(documents) : d \in 1..Len(documents') /\ documents'[d] = documents[d]

\* What refers to documents refers to them still when one is added.
LEMMA RowsKept ==
  ASSUME QuestionsInv, EntriesInv, ReportInv, DocumentsKept,
         UNCHANGED <<questions, entries, report>>
  PROVE  QuestionsInv' /\ EntriesInv' /\ ReportInv'
  <1>1. QuestionsInv'
    <2>1. \A q \in 1..Len(questions) : OfItsPaper(questions[q], documents')
      BY DEF QuestionsInv, OfItsPaper, DocumentsKept
    <2> QED
      BY <2>1 DEF QuestionsInv
  <1>2. EntriesInv'
    BY DEF EntriesInv, DocumentsKept
  <1>3. ReportInv'
    <2>1. ASSUME report.status # "none"
          PROVE  /\ report.paper \in 1..Len(documents') /\ report.scheme \in 0..Len(documents')
                 /\ SpansIn(report.paper)' = SpansIn(report.paper)
                 /\ SpansIn(report.scheme)' = SpansIn(report.scheme)
      <3>1. report.paper \in 1..Len(documents) /\ report.scheme \in 0..Len(documents)
        BY <2>1 DEF ReportInv
      <3>2. report.scheme = 0 \/ report.scheme \in 1..Len(documents)
        BY <3>1 DEF DocumentsKept
      <3> QED
        BY <3>1, <3>2 DEF DocumentsKept, SpansIn
    <2>2. PaperLostExplained'
      BY <2>1 DEF ReportInv, PaperLostExplained
    <2>3. ReportHonest'
      BY <2>1 DEF ReportInv, ReportHonest
    <2> QED
      BY <2>1, <2>2, <2>3 DEF ReportInv
  <1> QED
    BY <1>1, <1>2, <1>3

\* A document that accounts for its pages is added.
LEMMA DocumentAdded ==
  ASSUME DocumentsInv, NEW doc \in DocumentType, documents' = Append(documents, doc),
         \A p \in DOMAIN doc.file.pages : PageShows(doc, p), EmptyExplained(doc)
  PROVE  DocumentsInv' /\ DocumentsKept
  <1>1. documents \in Seq(DocumentType)
    BY DEF DocumentsInv
  <1> DEFINE n == Len(documents)
             Good(row) == (\A p \in DOMAIN row.file.pages : PageShows(row, p)) /\ EmptyExplained(row)
  <1>2. /\ documents' \in Seq(DocumentType) /\ n \in Nat /\ Len(documents') = n + 1
        /\ \A d \in 1..n : documents'[d] = documents[d]
        /\ documents'[n + 1] = doc
    <2> HIDE DEF DocumentType
    <2> QED
      BY <1>1
  <1> HIDE DEF n
  <1>3. DocumentsKept
    BY <1>2 DEF DocumentsKept, n
  <1>4. \A d \in 1..Len(documents') : d \in 1..n \/ d = n + 1
    BY <1>2
  <1>5. Good(doc) /\ \A d \in 1..n : Good(documents[d])
    BY DEF DocumentsInv, n
  <1> HIDE DEF Good
  <1>6. \A d \in 1..Len(documents') : Good(documents'[d])
    BY <1>2, <1>4, <1>5
  <1>7. DocumentsInv'
    BY <1>2, <1>6 DEF DocumentsInv, Good
  <1> QED
    BY <1>3, <1>7

\* The two text parsers are the first of the chain.
LEMMA FirstParsers ==
  ASSUME NEW i \in {1, 2}
  PROVE  Ladder[i] \in {"pypdf_text", "anydoc"}
  <1> DEFINE text == <<"pypdf_text", "anydoc">>
             last == IF vision THEN <<"vision_llm_ocr">> ELSE <<>>
             Names == {"pypdf_text", "anydoc", "vision_llm_ocr"}
  <1>1. text \in Seq(Names) /\ Len(text) = 2 /\ i \in 1..2
    OBVIOUS
  <1>2. last \in Seq(Names)
    <2>1. <<>> \in Seq(Names) /\ <<"vision_llm_ocr">> \in Seq(Names)
      OBVIOUS
    <2> HIDE DEF Names
    <2> QED
      BY <2>1, Zenon
  <1>3. (text \o last)[i] = text[i]
    <2>1. ASSUME NEW r \in Seq(Names), NEW s \in Seq(Names), NEW k \in 1..Len(r)
          PROVE  (r \o s)[k] = r[k]
      BY <2>1
    <2>2. i \in 1..Len(text)
      BY <1>1
    <2> HIDE DEF text, last, Names
    <2> QED
      BY <1>1, <1>2, <2>1, <2>2
  <1>4. Ladder[i] = text[i]
    BY <1>3 DEF Ladder
  <1> QED
    BY <1>4

\* No request is out when no page has a state.
LEMMA Unsent ==
  /\ NoUpload \in UploadType
  /\ Cardinality(StateIn(<<>>, "sent")) <= Concurrency
  <1>1. NoUpload \in UploadType
    BY DEF NoUpload, UploadType, FileType
  <1>2. StateIn(<<>>, "sent") = {}
    BY DEF StateIn
  <1>3. Cardinality(StateIn(<<>>, "sent")) = 0
    BY <1>2, FS_EmptySet
  <1> QED
    BY <1>1, <1>3, PapersAssumption

LEMMA NoUploadInv ==
  ASSUME UploadInv, upload' = NoUpload, UNCHANGED <<shelf, uploads>>
  PROVE  UploadInv'
  <1>1. upload'.pages = <<>> /\ upload'.stage = "idle"
    BY DEF NoUpload
  <1> QED
    BY <1>1, Unsent DEF UploadInv

\* What a text parser read accounts for every page of its file.
LEMMA TextParserReadsKeeps ==
  ASSUME Inv, TextParserReads
  PROVE  Inv'
  <1> DEFINE parser == Parser
             spans == TextSpans(upload.file, parser)
             confidence == Confidence(IF parser = "pypdf_text" THEN 80 ELSE 90, 1, 1)
             doc == DocumentRow(upload.file, parser, confidence, spans)
  <1>1. /\ upload' = NoUpload /\ documents' = Append(documents, doc)
        /\ UNCHANGED <<shelf, uploads, questions, entries, report>>
    BY DEF TextParserReads, Store
  <1>2. upload.file \in FileType
    BY DEF Inv, UploadInv, UploadType
  <1>3. parser \in {"pypdf_text", "anydoc"}
    BY FirstParsers DEF TextParserReads, AtTextParser, Parser
  <1>4. PICK t \in 1..Len(upload.file.pages) : upload.file.pages[t].layer = "text"
    BY <1>2, PageIs DEF TextParserReads, Readable, HasText
  <1> HIDE DEF parser
  <1>5. /\ spans \in Seq(SpanType)
        /\ \A p \in 1..Len(upload.file.pages) :
              upload.file.pages[p].layer = "text" =>
                  \E s \in 1..Len(spans) : spans[s].page = IF parser = "pypdf_text" THEN p ELSE 1
    BY <1>2, TextSpansIs
  <1> HIDE DEF spans
  <1>6. DOMAIN spans = 1..Len(spans) /\ spans # <<>>
    <2>1. \E s \in 1..Len(spans) : TRUE
      BY <1>4, <1>5
    <2>2. spans # <<>>
      BY <2>1
    <2> QED
      BY <1>5, <2>2
  <1>7. confidence \in [full : Nat, done : Int, of : Nat]
    BY DEF Confidence
  <1> HIDE DEF confidence
  <1>8. /\ doc \in DocumentType
        /\ doc.file = upload.file /\ doc.parser = parser /\ doc.spans = spans
    BY <1>2, <1>3, <1>5, <1>7 DEF DocumentRow, DocumentType
  <1> HIDE DEF doc
  <1>9. EmptyExplained(doc)
    BY <1>6, <1>8 DEF EmptyExplained
  <1>10. ASSUME NEW p \in DOMAIN doc.file.pages
         PROVE  PageShows(doc, p)
    <2>1. p \in 1..Len(upload.file.pages) /\ upload.file.pages[p].layer \in {"text", "scan", "blank"}
      BY <1>2, <1>8, PageIs
    <2>2. CASE upload.file.pages[p].layer = "text"
      <3>1. PICK s \in 1..Len(spans) : spans[s].page = IF parser = "pypdf_text" THEN p ELSE 1
        BY <1>5, <2>1, <2>2
      <3> QED
        BY <1>3, <1>6, <1>8, <3>1 DEF PageShows
    <2>3. CASE upload.file.pages[p].layer # "text"
      BY <1>3, <1>8, <2>1, <2>3 DEF PageShows
    <2> QED
      BY <2>2, <2>3
  <1>11. DocumentsInv' /\ DocumentsKept
    BY <1>1, <1>8, <1>9, <1>10, DocumentAdded DEF Inv
  <1>12. QuestionsInv' /\ EntriesInv' /\ ReportInv'
    BY <1>1, <1>11, RowsKept DEF Inv
  <1>13. UploadInv'
    BY <1>1, NoUploadInv DEF Inv
  <1> QED
    BY <1>11, <1>12, <1>13 DEF Inv

-----------------------------------------------------------------------------
(* Uploads *)

\* A step of an upload that stores nothing leaves every row as it was.
LEMMA RowsUnmoved ==
  ASSUME Inv, UNCHANGED <<documents, questions, entries, report>>
  PROVE  DocumentsInv' /\ QuestionsInv' /\ EntriesInv' /\ ReportInv'
  <1>1. DocumentsInv'
    BY DEF Inv, DocumentsInv
  <1>2. DocumentsKept
    BY DEF Inv, DocumentsInv, DocumentsKept
  <1>3. QuestionsInv' /\ EntriesInv' /\ ReportInv'
    BY <1>2, RowsKept DEF Inv
  <1> QED
    BY <1>1, <1>3

LEMMA PagesThatIs ==
  ASSUME upload \in UploadType, NEW state
  PROVE  /\ PagesThat(state) = StateIn(upload.pages, state)
         /\ DOMAIN upload.pages = 1..Len(upload.pages) /\ Len(upload.pages) \in Nat
         /\ upload.pages \in Seq(PageStates)
         /\ IsFiniteSet(StateIn(upload.pages, state))
         /\ Cardinality(StateIn(upload.pages, state)) \in Nat
         /\ Cardinality(StateIn(upload.pages, state)) <= Len(upload.pages)
  <1> DEFINE n == Len(upload.pages)
             S == StateIn(upload.pages, state)
  <1>1. upload.pages \in Seq(PageStates)
    BY DEF UploadType
  <1>2. DOMAIN upload.pages = 1..n /\ n \in Nat
    BY <1>1
  <1>3. PagesThat(state) = S
    BY <1>2 DEF PagesThat, StateIn
  <1>4. S \in SUBSET (1..n)
    BY DEF StateIn
  <1> HIDE DEF S, n
  <1>5. IsFiniteSet(1..n) /\ Cardinality(1..n) = n
    <2>1. 1 \in Int /\ n \in Int
      BY <1>2
    <2>2. IsFiniteSet(1..n) /\ Cardinality(1..n) = IF 1 > n THEN 0 ELSE n - 1 + 1
      BY <2>1, FS_Interval
    <2> QED
      BY <1>2, <2>2
  <1>6. IsFiniteSet(S) /\ Cardinality(S) <= n
    BY <1>4, <1>5, FS_Subset
  <1>7. Cardinality(S) \in Nat
    BY <1>6, FS_CardinalityType
  <1> QED
    BY <1>1, <1>2, <1>3, <1>6, <1>7 DEF n, S

LEMMA UploadKeeps ==
  ASSUME Inv, Upload
  PROVE  Inv'
  <1>1. /\ uploads \in Nat /\ uploads < Len(shelf) /\ shelf \in Seq(FileType)
        /\ uploads' = uploads + 1
        /\ upload' = [NoUpload EXCEPT !.file = shelf[uploads'], !.stage = "parse", !.rung = 1]
        /\ UNCHANGED <<shelf, documents, questions, entries, report>>
    BY DEF Inv, UploadInv, Upload
  <1>2. shelf[uploads'] \in FileType
    <2> HIDE DEF FileType
    <2> QED
      BY <1>1
  <1>3. upload' \in UploadType /\ upload'.pages = <<>> /\ upload'.stage = "parse"
    <2> DEFINE file == shelf[uploads']
               next == [file |-> file, stage |-> "parse", rung |-> 1, pages |-> <<>>]
    <2>1. upload' = next
      BY <1>1 DEF NoUpload
    <2>2. <<>> \in Seq(PageStates) /\ "parse" \in {"idle", "parse", "ocr"} /\ 1 \in Nat
      OBVIOUS
    <2>3. next \in UploadType
      <3> HIDE DEF file
      <3> QED
        BY <1>2, <2>2 DEF UploadType, file
    <2> QED
      BY <2>1, <2>3
  <1>4. UploadInv'
    BY <1>1, <1>3, Unsent DEF UploadInv
  <1> QED
    BY <1>1, <1>4, RowsUnmoved DEF Inv

LEMMA ParserRaisesKeeps ==
  ASSUME Inv, ParserRaises
  PROVE  Inv'
  <1>1. /\ UploadInv /\ upload.stage = "parse" /\ upload' = [upload EXCEPT !.rung = @ + 1]
        /\ UNCHANGED <<shelf, uploads, documents, questions, entries, report>>
    BY DEF Inv, ParserRaises
  <1>2. upload' \in UploadType /\ upload'.pages = upload.pages /\ upload'.stage = "parse"
    BY <1>1 DEF UploadInv, UploadType
  <1>3. UploadInv'
    BY <1>1, <1>2 DEF UploadInv
  <1> QED
    BY <1>1, <1>3, RowsUnmoved DEF Inv

LEMMA AbandonedKeeps ==
  ASSUME Inv, Abandoned
  PROVE  Inv'
  <1>1. upload' = NoUpload /\ UNCHANGED <<shelf, uploads, documents, questions, entries, report>>
    BY DEF Abandoned
  <1> QED
    BY <1>1, NoUploadInv, RowsUnmoved DEF Inv

LEMMA StartOcrKeeps ==
  ASSUME Inv, StartOcr
  PROVE  Inv'
  <1> DEFINE first(p) == IF upload.file.pages[p].layer = "scan" THEN "waiting" ELSE "no_image"
             pages == [p \in DOMAIN upload.file.pages |-> first(p)]
             n == Len(upload.file.pages)
  <1>1. /\ UploadInv
        /\ upload' = [upload EXCEPT !.stage = "ocr", !.pages = pages]
        /\ UNCHANGED <<shelf, uploads, documents, questions, entries, report>>
    BY DEF Inv, StartOcr
  <1>2. upload \in UploadType /\ upload.file \in FileType
    BY <1>1 DEF UploadInv, UploadType
  <1>3. n \in Nat /\ DOMAIN upload.file.pages = 1..n
    BY <1>2, PageIs
  <1> HIDE DEF n
  <1>4. \A p \in 1..n : pages[p] = first(p)
    BY <1>3
  <1>5. pages \in Seq(PageStates) /\ Len(pages) = n
    BY <1>3 DEF PageStates
  <1> HIDE DEF pages
  <1>6. upload' \in UploadType /\ upload'.pages = pages /\ upload'.file = upload.file
    BY <1>1, <1>2, <1>5 DEF UploadType
  <1>7. StateIn(pages, "sent") = {}
    BY <1>4, <1>5 DEF StateIn
  <1>8. Cardinality(StateIn(pages, "sent")) <= Concurrency
    BY <1>7, FS_EmptySet, PapersAssumption
  <1>9. \A p \in 1..n : pages[p] = "no_image" <=> upload.file.pages[p].layer # "scan"
    BY <1>4
  <1>10. UploadInv'
    BY <1>1, <1>5, <1>6, <1>8, <1>9 DEF UploadInv, n
  <1> QED
    BY <1>1, <1>10, RowsUnmoved DEF Inv

\* A page that had an image takes another state than "no_image".
LEMMA SetPageKeeps ==
  ASSUME Inv, upload.stage = "ocr", NEW p \in 1..Len(upload.pages), upload.pages[p] # "no_image",
         NEW state \in PageStates \ {"no_image"}, SetPage(p, state),
         state = "sent" => Cardinality(StateIn(upload.pages, "sent")) < Concurrency
  PROVE  Inv'
  <1> DEFINE pages == upload.pages
             next == [upload.pages EXCEPT ![p] = state]
             Sent(s) == StateIn(s, "sent")
  <1>1. /\ UploadInv
        /\ upload' = [upload EXCEPT !.pages[p] = state]
        /\ UNCHANGED <<shelf, uploads, documents, questions, entries, report>>
    BY DEF Inv, SetPage
  <1>2. upload \in UploadType /\ pages \in Seq(PageStates) /\ Len(pages) \in Nat
    BY <1>1 DEF UploadInv, UploadType
  <1>3. /\ next \in Seq(PageStates) /\ Len(next) = Len(pages)
        /\ next[p] = state /\ \A q \in 1..Len(pages) : q # p => next[q] = pages[q]
    BY <1>2
  <1>4. upload' = [upload EXCEPT !.pages = next]
    BY <1>1
  <1> HIDE DEF next
  <1>5. upload' \in UploadType /\ upload'.pages = next /\ upload'.file = upload.file /\ upload'.stage = "ocr"
    BY <1>2, <1>3, <1>4 DEF UploadType
  <1>6. IsFiniteSet(Sent(pages)) /\ Cardinality(Sent(pages)) \in Nat
    BY <1>2, PagesThatIs
  <1>7. Cardinality(Sent(next)) <= Concurrency
    <2>1. CASE state = "sent"
      <3>1. Sent(next) \in SUBSET (Sent(pages) \cup {p})
        BY <1>3 DEF StateIn
      <3>2. /\ IsFiniteSet(Sent(pages) \cup {p})
            /\ Cardinality(Sent(pages) \cup {p}) <= Cardinality(Sent(pages)) + 1
            /\ Cardinality(Sent(pages) \cup {p}) \in Nat
        <4> HIDE DEF Sent
        <4>1. IsFiniteSet(Sent(pages) \cup {p})
              /\ Cardinality(Sent(pages) \cup {p}) =
                    IF p \in Sent(pages) THEN Cardinality(Sent(pages)) ELSE Cardinality(Sent(pages)) + 1
          BY <1>6, FS_AddElement
        <4> QED
          BY <1>6, <4>1
      <3>3. Cardinality(Sent(pages)) < Concurrency
        BY <2>1
      <3> HIDE DEF Sent
      <3>4. /\ IsFiniteSet(Sent(next))
            /\ Cardinality(Sent(next)) <= Cardinality(Sent(pages) \cup {p})
        BY <3>1, <3>2, FS_Subset
      <3>5. Cardinality(Sent(next)) \in Nat
        BY <3>4, FS_CardinalityType
      <3> QED
        BY <1>6, <3>2, <3>3, <3>4, <3>5, PapersAssumption
    <2>2. CASE state # "sent"
      <3>1. Sent(next) \in SUBSET Sent(pages)
        BY <1>3, <2>2 DEF StateIn
      <3>2. Cardinality(Sent(pages)) <= Concurrency
        BY <1>1 DEF UploadInv
      <3> HIDE DEF Sent
      <3>3. IsFiniteSet(Sent(next)) /\ Cardinality(Sent(next)) <= Cardinality(Sent(pages))
        BY <1>6, <3>1, FS_Subset
      <3>4. Cardinality(Sent(next)) \in Nat
        BY <3>3, FS_CardinalityType
      <3> QED
        BY <1>6, <3>2, <3>3, <3>4, PapersAssumption
    <2> QED
      BY <2>1, <2>2
  <1>8. /\ Len(next) = Len(upload.file.pages)
        /\ \A q \in 1..Len(next) : next[q] = "no_image" <=> upload.file.pages[q].layer # "scan"
    <2>1. /\ Len(pages) = Len(upload.file.pages)
          /\ \A q \in 1..Len(pages) : pages[q] = "no_image" <=> upload.file.pages[q].layer # "scan"
      BY <1>1 DEF UploadInv
    <2> QED
      BY <1>3, <2>1
  <1>9. UploadInv'
    BY <1>1, <1>5, <1>7, <1>8 DEF UploadInv
  <1> QED
    BY <1>1, <1>9, RowsUnmoved DEF Inv

LEMMA SendPageKeeps ==
  ASSUME Inv, SendPage
  PROVE  Inv'
  <1> DEFINE waiting == StateIn(upload.pages, "waiting")
  <1>1. /\ upload \in UploadType /\ upload.stage = "ocr"
        /\ waiting # {} /\ SetPage(Min(waiting), "sent")
        /\ Cardinality(StateIn(upload.pages, "sent")) < Concurrency
    <2>1. upload \in UploadType
      BY DEF Inv, UploadInv
    <2>2. PagesThat("waiting") = waiting /\ PagesThat("sent") = StateIn(upload.pages, "sent")
      BY <2>1, PagesThatIs
    <2> HIDE DEF waiting
    <2> QED
      BY <2>1, <2>2 DEF SendPage, HoldingSlot
  <1>2. waiting \in SUBSET (1..Len(upload.pages)) /\ waiting \in SUBSET Nat
    BY DEF StateIn
  <1>3. Min(waiting) \in waiting
    <2> HIDE DEF waiting
    <2> QED
      BY <1>1, <1>2, MinIsFirst
  <1>4. Min(waiting) \in 1..Len(upload.pages) /\ upload.pages[Min(waiting)] # "no_image"
    BY <1>3 DEF StateIn
  <1>5. "sent" \in PageStates \ {"no_image"}
    BY DEF PageStates
  <1> HIDE DEF waiting
  <1> QED
    BY <1>1, <1>4, <1>5, SetPageKeeps

\* A request that is answered, or fails, gives its place back.
LEMMA PageAnsweredKeeps ==
  ASSUME Inv, PageTranscribed \/ PageFails
  PROVE  Inv'
  <1>1. PICK p \in PagesThat("sent"), state \in {"text", "failed"} : SetPage(p, state)
    BY DEF PageTranscribed, PageFails
  <1>2. PagesThat("sent") = StateIn(upload.pages, "sent")
    BY PagesThatIs DEF Inv, UploadInv
  <1>3. p \in 1..Len(upload.pages) /\ upload.pages[p] # "no_image" /\ upload.stage = "ocr"
    <2>1. p \in 1..Len(upload.pages) /\ upload.pages[p] = "sent"
      BY <1>1, <1>2 DEF StateIn
    <2>2. upload.pages # <<>>
      BY <2>1
    <2> QED
      BY <2>1, <2>2 DEF Inv, UploadInv
  <1>4. state \in PageStates \ {"no_image"} /\ state # "sent"
    BY DEF PageStates
  <1> QED
    BY <1>1, <1>3, <1>4, SetPageKeeps

\* What OCR made of the pages accounts for every one of them.
LEMMA FinishOcrKeeps ==
  ASSUME Inv, FinishOcr
  PROVE  Inv'
  <1> DEFINE n == Len(upload.pages)
             failed == StateIn(upload.pages, "failed")
             spans == OcrSpans
             confidence == OcrConfidence
             doc == DocumentRow(upload.file, "vision_llm_ocr", confidence, spans)
  <1>1. /\ upload' = NoUpload /\ documents' = Append(documents, doc)
        /\ UNCHANGED <<shelf, uploads, questions, entries, report>>
        /\ upload.stage = "ocr"
    BY DEF FinishOcr, Store
  <1>2. /\ upload \in UploadType /\ upload.file \in FileType
        /\ n = Len(upload.file.pages)
        /\ \A p \in 1..n : upload.pages[p] = "no_image" <=> upload.file.pages[p].layer # "scan"
    BY <1>1 DEF Inv, UploadInv, UploadType
  <1>3. /\ upload.pages \in Seq(PageStates) /\ n \in Nat
        /\ IsFiniteSet(failed) /\ Cardinality(failed) \in Nat /\ Cardinality(failed) <= n
        /\ PagesThat("failed") = failed
        /\ PagesThat("waiting") = StateIn(upload.pages, "waiting")
        /\ PagesThat("sent") = StateIn(upload.pages, "sent")
    BY <1>2, PagesThatIs
  <1>4. confidence = [full |-> 50, done |-> n - Cardinality(failed), of |-> n]
    BY <1>2, <1>3 DEF OcrConfidence, Confidence
  <1>5. /\ spans \in Seq(SpanType)
        /\ \A p \in 1..n :
              upload.pages[p] = "text" => \E s \in 1..Len(spans) : spans[s].page = p
    BY <1>2, OcrSpansIs
  <1>6. \A p \in 1..n : upload.file.pages[p].layer = "scan" => upload.pages[p] \in {"text", "failed"}
    <2>1. \A p \in 1..n : upload.pages[p] \in PageStates
      BY <1>3
    <2>2. \A p \in 1..n : upload.pages[p] \notin {"waiting", "sent"}
      BY <1>3 DEF FinishOcr, StateIn
    <2> QED
      BY <1>2, <2>1, <2>2 DEF PageStates
  <1>7. \A p \in 1..n : upload.pages[p] = "failed" => confidence.done < confidence.of
    <2> SUFFICES ASSUME NEW p \in 1..n, upload.pages[p] = "failed"
                 PROVE  confidence.done < confidence.of
      OBVIOUS
    <2>1. failed # {}
      BY DEF StateIn
    <2> HIDE DEF failed
    <2>2. Cardinality(failed) # 0
      BY <1>3, <2>1, FS_EmptySet
    <2> HIDE DEF confidence, n
    <2> QED
      BY <1>3, <1>4, <2>2
  <1>8. DOMAIN upload.file.pages = 1..n
        /\ \A p \in 1..n : upload.file.pages[p].layer \in {"text", "scan", "blank"}
    BY <1>2, PageIs
  <1> HIDE DEF spans, n
  <1>9. DOMAIN spans = 1..Len(spans)
    BY <1>5
  <1>10. confidence \in [full : Nat, done : Int, of : Nat]
    <2> HIDE DEF confidence, failed
    <2> QED
      BY <1>3, <1>4
  <1> HIDE DEF confidence
  <1>11. /\ doc \in DocumentType /\ doc.file = upload.file /\ doc.parser = "vision_llm_ocr"
         /\ doc.spans = spans /\ doc.confidence = confidence
    BY <1>2, <1>5, <1>10 DEF DocumentRow, DocumentType
  <1> HIDE DEF doc
  <1>12. ASSUME NEW p \in DOMAIN doc.file.pages
         PROVE  PageShows(doc, p)
    <2>1. p \in 1..n /\ upload.file.pages[p].layer \in {"text", "scan", "blank"}
      BY <1>8, <1>11
    <2>2. CASE upload.file.pages[p].layer # "scan"
      BY <1>11, <2>1, <2>2 DEF PageShows
    <2>3. CASE upload.pages[p] = "text"
      <3>1. PICK s \in 1..Len(spans) : spans[s].page = p
        BY <1>5, <2>1, <2>3
      <3> QED
        BY <1>9, <1>11, <3>1 DEF PageShows
    <2>4. CASE upload.pages[p] = "failed"
      BY <1>7, <1>11, <2>1, <2>4 DEF PageShows
    <2> QED
      BY <1>6, <2>1, <2>2, <2>3, <2>4
  <1>13. EmptyExplained(doc)
    <2> SUFFICES ASSUME spans = <<>>
                 PROVE  n - (n - Cardinality(failed)) = Cardinality(ScansOf(upload.file))
      BY <1>4, <1>11 DEF EmptyExplained
    <2>1. 1..Len(spans) = {}
      OBVIOUS
    <2>2. \A p \in 1..n : upload.pages[p] = "failed" <=> upload.file.pages[p].layer = "scan"
      BY <1>2, <1>5, <1>6, <2>1
    <2>3. failed = ScansOf(upload.file)
      BY <1>8, <2>2 DEF StateIn, ScansOf, n
    <2> HIDE DEF failed
    <2> QED
      BY <1>3, <2>3
  <1>14. DocumentsInv' /\ DocumentsKept
    BY <1>1, <1>11, <1>12, <1>13, DocumentAdded DEF Inv
  <1>15. QuestionsInv' /\ EntriesInv' /\ ReportInv'
    BY <1>1, <1>14, RowsKept DEF Inv
  <1>16. UploadInv'
    BY <1>1, NoUploadInv DEF Inv
  <1> QED
    BY <1>14, <1>15, <1>16 DEF Inv

-----------------------------------------------------------------------------
(* Questions *)

\* Two numbers of one label have different refs.
LEMMA RefTellsNumber ==
  ASSUME NEW S, NEW year, NEW paper \in Seq(S), NEW a, NEW b,
         FullRef(year, paper, a) = FullRef(year, paper, b)
  PROVE  a = b
  <1> DEFINE known == Known(year) \o paper
             D == S \cup {year, a, b}
  <1>1. Known(year) \in Seq(D) /\ paper \in Seq(D) /\ a \in D /\ b \in D
    <2>1. Known(year) \in Seq({year})
      <3>1. <<>> \in Seq({year}) /\ <<year>> \in Seq({year})
        OBVIOUS
      <3> QED
        BY <3>1, Zenon DEF Known
    <2>2. {year} \subseteq D /\ S \subseteq D
      OBVIOUS
    <2> HIDE DEF D
    <2>3. Known(year) \in Seq(D) /\ paper \in Seq(D)
      BY <2>1, <2>2
    <2> QED
      BY <2>3 DEF D
  <1>2. known \in Seq(D) /\ a \in D /\ b \in D
    <2> HIDE DEF D
    <2> QED
      BY <1>1
  <1>3. known \o <<a>> = known \o <<b>>
    BY DEF FullRef, Canonical
  <1> HIDE DEF known, D
  <1>4. (known \o <<a>>)[Len(known) + 1] = a /\ (known \o <<b>>)[Len(known) + 1] = b
    BY <1>2
  <1> QED
    BY <1>3, <1>4

LEMMA QuestionRowIs ==
  ASSUME NEW d, NEW label, NEW asked
  PROVE  /\ QuestionRow(d, label, asked).document = d
         /\ QuestionRow(d, label, asked).label = label
         /\ QuestionRow(d, label, asked).number = asked.number
         /\ QuestionRow(d, label, asked).ref = FullRef(label.year, label.paperRef, asked.number)
         /\ QuestionRow(d, label, asked).marks = asked.marks
         /\ QuestionRow(d, label, asked).spans = asked.spans
  BY DEF QuestionRow

\* What a stored question has in common with its paper.
LEMMA QuestionIs ==
  ASSUME DocumentsInv, NEW row, OfItsPaper(row, documents)
  PROVE  LET spans == documents[row.document].spans
         IN  /\ row.document \in DOMAIN documents
             /\ row.spans \subseteq DOMAIN spans /\ row.spans # {}
             /\ WellFiled(Prepared(spans), row.number, row.spans)
             /\ WellMarked(Prepared(spans), row.number, row.marks)
  <1> DEFINE d == row.document
             spans == documents[d].spans
  <1>1. documents \in Seq(DocumentType) /\ d \in 1..Len(documents)
    BY DEF DocumentsInv, OfItsPaper
  <1>2. documents[d] \in DocumentType /\ d \in DOMAIN documents
    BY <1>1
  <1>3. spans \in Seq(SpanType)
    BY <1>2 DEF DocumentType
  <1>4. PICK k \in 1..Len(Parse(spans)) : row = QuestionRow(d, row.label, Parse(spans)[k])
    BY DEF OfItsPaper
  <1> HIDE DEF spans, d
  <1>5. Parse(spans) \in Seq(AskedType(Len(spans))) /\ WellAsked(spans, Parse(spans))
    BY <1>3, ParseIs
  <1> DEFINE asked == Parse(spans)[k]
  <1>6. asked \in AskedType(Len(spans))
    BY <1>5
  <1>7. /\ asked.spans # {} /\ WellFiled(Prepared(spans), asked.number, asked.spans)
        /\ WellMarked(Prepared(spans), asked.number, asked.marks)
    BY <1>5 DEF WellAsked
  <1> HIDE DEF asked
  <1>8. row.number = asked.number /\ row.marks = asked.marks /\ row.spans = asked.spans
    BY <1>4, QuestionRowIs DEF asked
  <1>9. asked.spans \subseteq 1..Len(spans) /\ DOMAIN spans = 1..Len(spans)
    BY <1>3, <1>6 DEF AskedType
  <1> QED
    BY <1>2, <1>7, <1>8, <1>9 DEF spans, d

\* A question finds an entry of its own number, or none.
LEMMA EntryForIs ==
  ASSUME NEW m \in Nat, NEW n \in Nat, NEW asked \in Seq(AskedType(m)), NEW scheme \in Seq(AskedType(n)),
         NEW q \in 1..Len(asked)
  PROVE  LET entry == EntryFor(asked, scheme, q)
         IN  \/ entry = 0
             \/ entry \in 1..Len(scheme) /\ scheme[entry].number = asked[q].number
  <1> DEFINE key == JoinKey(asked[q].number)
             hit == {e \in Joinable(scheme) : JoinKey(scheme[e].number) = key}
             entry == EntryFor(asked, scheme, q)
  <1>1. entry = IF hit = {} \/ \E p \in 1..(q - 1) : JoinKey(asked[p].number) = key THEN 0 ELSE Max(hit)
    BY DEF EntryFor
  <1>2. DOMAIN scheme = 1..Len(scheme) /\ Len(scheme) \in Nat
    OBVIOUS
  <1>3. hit \in SUBSET (1..Len(scheme)) /\ \A e \in hit : scheme[e].number = asked[q].number
    BY <1>2 DEF Joinable, JoinKey, Canonical
  <1> HIDE DEF hit, entry, key
  <1>4. CASE entry = 0
    BY <1>4 DEF entry
  <1>5. CASE entry # 0
    <2>1. hit # {} /\ entry = Max(hit)
      BY <1>1, <1>5
    <2>2. Max(hit) \in hit
      BY <1>2, <1>3, <2>1, MaxIsLast
    <2> QED
      BY <1>3, <2>1, <2>2 DEF entry
  <1> QED
    BY <1>4, <1>5

LEMMA SpansInIs ==
  ASSUME DocumentsInv, NEW d \in 0..Len(documents)
  PROVE  /\ SpansIn(d) \in Seq(SpanType)
         /\ Parse(SpansIn(d)) \in Seq(AskedType(Len(SpansIn(d))))
         /\ WellAsked(SpansIn(d), Parse(SpansIn(d)))
         /\ d = 0 => Len(Parse(SpansIn(d))) = 0
  <1> DEFINE spans == SpansIn(d)
             asked == Parse(spans)
  <1>1. documents \in Seq(DocumentType)
    BY DEF DocumentsInv
  <1>2. spans \in Seq(SpanType)
    <2>1. CASE d = 0
      BY <2>1 DEF SpansIn
    <2>2. CASE d # 0
      <3>1. documents[d] \in DocumentType
        BY <1>1, <2>2
      <3>2. documents[d].spans \in Seq(SpanType)
        BY <3>1 DEF DocumentType
      <3> QED
        BY <2>2, <3>2 DEF SpansIn
    <2> QED
      BY <2>1, <2>2
  <1>3. d = 0 => Len(spans) = 0
    BY DEF SpansIn
  <1> HIDE DEF spans
  <1>4. asked \in Seq(AskedType(Len(spans))) /\ WellAsked(spans, asked)
    BY <1>2, ParseIs
  <1> HIDE DEF asked
  <1>5. ASSUME d = 0
        PROVE  Len(asked) = 0
    <2> SUFFICES ASSUME NEW k \in 1..Len(asked)
                 PROVE  FALSE
      <3>1. Len(asked) \in Nat
        BY <1>4
      <3> QED
        BY <3>1
    <2>1. asked[k] \in AskedType(Len(spans)) /\ asked[k].spans # {}
      BY <1>4 DEF WellAsked
    <2>2. 1..Len(spans) = {}
      BY <1>3, <1>5
    <2> QED
      BY <2>1, <2>2 DEF AskedType
  <1> QED
    BY <1>2, <1>4, <1>5 DEF asked, spans

\* The lines a request would write, and what it names instead.
WellRead(r, base, asked, scheme) ==
    /\ \A e \in 1..Len(r.lines) : \E q \in 1..Len(asked) : \E k \in 1..Len(scheme) :
          r.lines[e] = EntryRow(base + q, r.scheme, scheme[k])
    /\ \A q \in 1..Len(asked) :
          \/ asked[q].number \in r.unmatched
          \/ \E e \in 1..Len(r.lines) : r.lines[e].question = base + q
    /\ \A k \in 1..Len(scheme) :
          \/ scheme[k].number \in r.orphans
          \/ \E e \in 1..Len(r.lines) : \E q \in 1..Len(asked) :
                r.lines[e] = EntryRow(base + q, r.scheme, scheme[k]) /\ asked[q].number = scheme[k].number

LEMMA EntryRowIs ==
  ASSUME NEW question, NEW s, NEW asked
  PROVE  /\ EntryRow(question, s, asked).question = question
         /\ EntryRow(question, s, asked).document = s
         /\ EntryRow(question, s, asked).marks = asked.marks
         /\ EntryRow(question, s, asked).spans = asked.spans
  BY DEF EntryRow

\* Lines and names tell of every question and of every entry.
LEMMA LinesAreRead ==
  ASSUME DocumentsInv, NEW d \in 1..Len(documents), NEW s \in 0..Len(documents), NEW label \in Labels,
         Len(questions) \in Nat
  PROVE  /\ Reading(d, s, label).lines \in Seq(EntryType)
         /\ WellRead(Reading(d, s, label), Len(questions), Parse(SpansIn(d)), Parse(SpansIn(s)))
  <1> DEFINE asked  == Parse(SpansIn(d))
             scheme == Parse(SpansIn(s))
             base   == Len(questions)
             r      == Reading(d, s, label)
             entry  == [q \in DOMAIN asked |-> EntryFor(asked, scheme, q)]
             line(q) == IF entry[q] = 0 THEN <<>> ELSE <<EntryRow(base + q, s, scheme[entry[q]])>>
             seqs   == [q \in DOMAIN asked |-> line(q)]
             m      == Len(SpansIn(d))
             n      == Len(SpansIn(s))
  <1>1. /\ r.lines = FlattenSeq(seqs)
        /\ r.scheme = s
        /\ r.unmatched = {asked[q].number : q \in {x \in DOMAIN asked : entry[x] = 0}}
        /\ r.orphans = {scheme[e].number : e \in Orphans(asked, scheme)}
    BY DEF Reading
  <1>2. d \in 0..Len(documents) /\ documents \in Seq(DocumentType)
    BY DEF DocumentsInv
  <1>3. /\ asked \in Seq(AskedType(m)) /\ scheme \in Seq(AskedType(n))
        /\ WellAsked(SpansIn(s), scheme) /\ m \in Nat /\ n \in Nat
    BY <1>2, SpansInIs
  <1> HIDE DEF asked, scheme, r, m, n, base
  <1>4. /\ DOMAIN asked = 1..Len(asked) /\ Len(asked) \in Nat
        /\ DOMAIN scheme = 1..Len(scheme) /\ Len(scheme) \in Nat
    BY <1>3
  <1>5. ASSUME NEW q \in 1..Len(asked)
        PROVE  /\ entry[q] = EntryFor(asked, scheme, q)
               /\ entry[q] = 0 \/ (entry[q] \in 1..Len(scheme) /\ scheme[entry[q]].number = asked[q].number)
    <2>1. entry[q] = EntryFor(asked, scheme, q)
      BY <1>4
    <2>2. LET e == EntryFor(asked, scheme, q)
          IN  e = 0 \/ (e \in 1..Len(scheme) /\ scheme[e].number = asked[q].number)
      BY <1>3, EntryForIs
    <2> HIDE DEF entry
    <2> QED
      BY <2>1, <2>2
  <1> HIDE DEF entry
  <1>6. ASSUME NEW q \in 1..Len(asked), entry[q] # 0
        PROVE  /\ EntryRow(base + q, s, scheme[entry[q]]) \in EntryType
               /\ line(q) = <<EntryRow(base + q, s, scheme[entry[q]])>>
    <2>1. scheme[entry[q]] \in AskedType(n)
      BY <1>3, <1>5, <1>6
    <2>2. base + q \in Nat /\ s \in Nat
      <3>1. base \in Nat
        BY DEF base
      <3> QED
        BY <3>1, <1>2, <1>4
    <2>3. scheme[entry[q]].marks \in Nat \cup {NoMarks} /\ scheme[entry[q]].spans \in SUBSET Nat
      <3>1. ASSUME NEW x \in AskedType(n)
            PROVE  x.marks \in Nat \cup {NoMarks} /\ x.spans \in SUBSET Nat
        BY <1>3, <3>1 DEF AskedType
      <3> QED
        BY <2>1, <3>1
    <2> QED
      BY <1>6, <2>2, <2>3 DEF EntryRow, EntryType
  <1>7. \A q \in 1..Len(asked) : line(q) \in Seq(EntryType)
    <2> SUFFICES ASSUME NEW q \in 1..Len(asked)
                 PROVE  line(q) \in Seq(EntryType)
      OBVIOUS
    <2>1. CASE entry[q] = 0
      BY <2>1
    <2>2. CASE entry[q] # 0
      <3> DEFINE row == EntryRow(base + q, s, scheme[entry[q]])
      <3>1. row \in EntryType /\ line(q) = <<row>>
        BY <1>6, <2>2
      <3> HIDE DEF EntryType, row, line
      <3> QED
        BY <3>1
    <2> QED
      BY <2>1, <2>2
  <1> HIDE DEF line
  <1>8. /\ seqs \in Seq(Seq(EntryType)) /\ Len(seqs) = Len(asked)
        /\ \A q \in 1..Len(asked) : seqs[q] = line(q)
    BY <1>4, <1>7
  <1> HIDE DEF seqs
  <1> DEFINE lines == FlattenSeq(seqs)
  <1>9. /\ lines \in Seq(EntryType)
        /\ \A j \in 1..Len(lines) : \E i \in 1..Len(seqs) : \E k \in 1..Len(seqs[i]) : lines[j] = seqs[i][k]
    <2> HIDE DEF EntryType
    <2> QED
      BY <1>8, Flattened
  <1>10. \A i \in 1..Len(seqs) : \A k \in 1..Len(seqs[i]) : \E j \in 1..Len(lines) : lines[j] = seqs[i][k]
    <2> HIDE DEF EntryType
    <2> QED
      BY <1>8, Flattened
  <1> HIDE DEF lines
  <1>11. ASSUME NEW q \in 1..Len(asked), entry[q] # 0
         PROVE  \E e \in 1..Len(lines) : lines[e] = EntryRow(base + q, s, scheme[entry[q]])
    <2>1. seqs[q] = <<EntryRow(base + q, s, scheme[entry[q]])>>
      BY <1>6, <1>8, <1>11
    <2>2. 1 \in 1..Len(seqs[q]) /\ seqs[q][1] = EntryRow(base + q, s, scheme[entry[q]]) /\ q \in 1..Len(seqs)
      BY <1>8, <2>1
    <2> QED
      BY <1>10, <2>2
  <1>12. ASSUME NEW e \in 1..Len(lines)
         PROVE  \E q \in 1..Len(asked) : \E k \in 1..Len(scheme) : lines[e] = EntryRow(base + q, s, scheme[k])
    <2>1. PICK q \in 1..Len(seqs) : \E k \in 1..Len(seqs[q]) : lines[e] = seqs[q][k]
      BY <1>9
    <2>2. q \in 1..Len(asked) /\ seqs[q] = line(q)
      BY <1>8
    <2>3. CASE entry[q] = 0
      <3>1. seqs[q] = <<>>
        BY <2>2, <2>3 DEF line
      <3>2. 1..Len(<<>>) = {}
        OBVIOUS
      <3> QED
        BY <2>1, <3>1, <3>2
    <2>4. CASE entry[q] # 0
      <3> DEFINE row == EntryRow(base + q, s, scheme[entry[q]])
      <3>1. seqs[q] = <<row>>
        BY <1>6, <2>2, <2>4
      <3> HIDE DEF row
      <3>2. lines[e] = row
        BY <2>1, <3>1
      <3>3. entry[q] \in 1..Len(scheme)
        BY <1>5, <2>2, <2>4
      <3> QED
        BY <2>2, <3>2, <3>3 DEF row
    <2> QED
      BY <2>3, <2>4
  <1>13. ASSUME NEW q \in 1..Len(asked)
         PROVE  \/ asked[q].number \in r.unmatched
                \/ \E e \in 1..Len(lines) : lines[e].question = base + q
    <2>1. CASE entry[q] = 0
      BY <1>1, <1>4, <2>1
    <2>2. CASE entry[q] # 0
      <3>1. PICK e \in 1..Len(lines) : lines[e] = EntryRow(base + q, s, scheme[entry[q]])
        BY <1>11, <2>2
      <3>2. lines[e].question = base + q
        BY <3>1, EntryRowIs
      <3> QED
        BY <3>2
    <2> QED
      BY <2>1, <2>2
  <1>14. ASSUME NEW k \in 1..Len(scheme)
         PROVE  \/ scheme[k].number \in r.orphans
                \/ \E e \in 1..Len(lines) : \E q \in 1..Len(asked) :
                      /\ lines[e] = EntryRow(base + q, s, scheme[k])
                      /\ asked[q].number = scheme[k].number
    <2>1. CASE \E q \in 1..Len(asked) : entry[q] = k
      <3>1. PICK q \in 1..Len(asked) : entry[q] = k
        BY <2>1
      <3>2. entry[q] # 0 /\ asked[q].number = scheme[k].number
        BY <1>4, <1>5, <3>1
      <3> QED
        BY <1>11, <3>1, <3>2
    <2>2. CASE \A q \in 1..Len(asked) : entry[q] # k
      <3>1. k \in Joinable(scheme)
        <4>1. \A f \in 1..Len(scheme) : scheme[f].number = scheme[k].number => f = k
          BY <1>3 DEF WellAsked
        <4>2. \A f \in 1..Len(scheme) : f > k => f # k
          BY <1>4
        <4> QED
          BY <1>4, <4>1, <4>2 DEF Joinable, JoinKey, Canonical
      <3>2. k \in Orphans(asked, scheme)
        BY <1>4, <1>5, <2>2, <3>1 DEF Orphans
      <3> QED
        BY <1>1, <3>2
    <2> QED
      BY <2>1, <2>2
  <1>15. WellRead(r, base, asked, scheme)
    <2>1. r.lines = lines /\ r.scheme = s
      BY <1>1 DEF lines
    <2>2. \A e \in 1..Len(r.lines) : \E q \in 1..Len(asked) : \E k \in 1..Len(scheme) :
             r.lines[e] = EntryRow(base + q, r.scheme, scheme[k])
      BY <1>12, <2>1
    <2>3. \A q \in 1..Len(asked) :
             \/ asked[q].number \in r.unmatched
             \/ \E e \in 1..Len(r.lines) : r.lines[e].question = base + q
      BY <1>13, <2>1
    <2>4. \A k \in 1..Len(scheme) :
             \/ scheme[k].number \in r.orphans
             \/ \E e \in 1..Len(r.lines) : \E q \in 1..Len(asked) :
                   r.lines[e] = EntryRow(base + q, r.scheme, scheme[k]) /\ asked[q].number = scheme[k].number
      BY <1>14, <2>1
    <2> QED
      BY <2>2, <2>3, <2>4 DEF WellRead
  <1> QED
    BY <1>1, <1>9, <1>15 DEF r, base, asked, scheme, lines

LEMMA RowsAreRead ==
  ASSUME DocumentsInv, NEW d \in 1..Len(documents), NEW s \in 0..Len(documents), NEW label \in Labels
  PROVE  LET r     == Reading(d, s, label)
             asked == Parse(SpansIn(d))
         IN  /\ r.paper = d /\ r.scheme = s /\ r.label = label
             /\ r.rows \in Seq(QuestionType) /\ Len(r.rows) = Len(asked) /\ Len(asked) \in Nat
             /\ \A q \in 1..Len(asked) : r.rows[q] = QuestionRow(d, label, asked[q])
  <1> DEFINE asked == Parse(SpansIn(d))
             rows  == [q \in DOMAIN asked |-> QuestionRow(d, label, asked[q])]
             m     == Len(SpansIn(d))
  <1>1. d \in 0..Len(documents) /\ d \in Nat
    <2>1. documents \in Seq(DocumentType)
      BY DEF DocumentsInv
    <2> QED
      BY <2>1
  <1>2. SpansIn(d) \in Seq(SpanType) /\ asked \in Seq(AskedType(m))
    BY <1>1, SpansInIs
  <1>3. m \in Nat
    BY <1>2
  <1> HIDE DEF asked, m
  <1>4. DOMAIN asked = 1..Len(asked) /\ Len(asked) \in Nat
    BY <1>2
  <1>5. \A q \in 1..Len(asked) : QuestionRow(d, label, asked[q]) \in QuestionType
    <2>1. ASSUME NEW x \in AskedType(m)
          PROVE  x \in [number : NumberType, marks : Nat \cup {NoMarks}, spans : SUBSET Nat]
      BY <1>3, <2>1 DEF AskedType
    <2>2. \A q \in 1..Len(asked) : asked[q] \in [number : NumberType, marks : Nat \cup {NoMarks}, spans : SUBSET Nat]
      BY <1>2, <2>1
    <2> QED
      BY <1>1, <2>2 DEF QuestionType
  <1>6. /\ rows \in Seq(QuestionType) /\ Len(rows) = Len(asked)
        /\ \A q \in 1..Len(asked) : rows[q] = QuestionRow(d, label, asked[q])
    <2> HIDE DEF QuestionType
    <2> QED
      BY <1>4, <1>5
  <1>7. /\ Reading(d, s, label).rows = rows
        /\ Reading(d, s, label).paper = d
        /\ Reading(d, s, label).scheme = s
        /\ Reading(d, s, label).label = label
    BY DEF Reading, asked
  <1> HIDE DEF rows
  <1> QED
    BY <1>4, <1>6, <1>7 DEF asked

\* A request that stores its rows finds none with its paper and its label.
LEMMA FirstOfItsLabel ==
  ASSUME DocumentsInv, QuestionsInv, NEW d \in 1..Len(documents), NEW s \in 0..Len(documents),
         NEW label \in Labels, ~Violates(Reading(d, s, label).rows),
         NEW q \in 1..Len(questions), questions[q].document = d, questions[q].label = label
  PROVE  FALSE
  <1> DEFINE asked == Parse(SpansIn(d))
             rows  == Reading(d, s, label).rows
  <1>1. /\ rows \in Seq(QuestionType) /\ Len(rows) = Len(asked)
        /\ \A k \in 1..Len(asked) : rows[k] = QuestionRow(d, label, asked[k])
    BY RowsAreRead
  <1>2. SpansIn(d) = documents[d].spans
    BY DEF SpansIn
  <1>3. PICK k \in 1..Len(asked) : questions[q] = QuestionRow(d, label, asked[k])
    BY <1>2 DEF QuestionsInv, OfItsPaper
  <1> HIDE DEF rows, asked
  <1>4. k \in DOMAIN rows /\ q \in DOMAIN questions /\ rows[k] = questions[q]
    <2>1. DOMAIN rows = 1..Len(rows) /\ DOMAIN questions = 1..Len(questions)
      BY <1>1 DEF QuestionsInv
    <2> QED
      BY <1>1, <1>3, <2>1
  <1> QED
    BY <1>4 DEF Violates, rows

\* The questions of a request that stores them.
LEMMA StoredQuestions ==
  ASSUME DocumentsInv, QuestionsInv, NEW d \in 1..Len(documents), NEW s \in 0..Len(documents),
         NEW label \in Labels, UNCHANGED documents, ~Violates(Reading(d, s, label).rows),
         questions' = questions \o Reading(d, s, label).rows
  PROVE  QuestionsInv'
  <1> DEFINE asked == Parse(SpansIn(d))
             rows  == Reading(d, s, label).rows
             n     == Len(questions)
  <1>1. /\ rows \in Seq(QuestionType) /\ Len(rows) = Len(asked)
        /\ \A k \in 1..Len(asked) : rows[k] = QuestionRow(d, label, asked[k])
    BY RowsAreRead
  <1>2. SpansIn(d) = documents[d].spans
    BY DEF SpansIn
  <1>3. questions \in Seq(QuestionType)
    BY DEF QuestionsInv
  <1>4. questions' = questions \o rows
    OBVIOUS
  <1> HIDE DEF rows
  <1>5. /\ questions' \in Seq(QuestionType)
        /\ n \in Nat /\ Len(rows) \in Nat /\ Len(questions') = n + Len(rows)
        /\ \A i \in 1..n : questions'[i] = questions[i]
        /\ \A i \in 1..Len(rows) : questions'[n + i] = rows[i]
        /\ \A i \in 1..Len(questions') : i \in 1..n \/ \E k \in 1..Len(rows) : i = n + k
    <2> DEFINE all == questions \o rows
    <2> HIDE DEF QuestionType
    <2>1. rows \in Seq(QuestionType)
      BY <1>1
    <2>2. /\ all \in Seq(QuestionType)
          /\ n \in Nat /\ Len(rows) \in Nat /\ Len(all) = n + Len(rows)
          /\ \A i \in 1..n : all[i] = questions[i]
          /\ \A i \in 1..Len(rows) : all[n + i] = rows[i]
      BY <1>3, <2>1, RowsBehind
    <2>3. \A i \in 1..Len(all) : i \in 1..n \/ \E k \in 1..Len(rows) : i = n + k
      BY <1>3, <2>1, RowsBehind
    <2> HIDE DEF all, n
    <2>4. questions' = all
      BY <1>4 DEF all
    <2> QED
      BY <2>2, <2>3, <2>4
  <1>6. \A k \in 1..Len(rows) : OfItsPaper(rows[k], documents)
    <2> SUFFICES ASSUME NEW k \in 1..Len(rows)
                 PROVE  OfItsPaper(rows[k], documents)
      OBVIOUS
    <2>1. rows[k] = QuestionRow(d, label, asked[k]) /\ k \in 1..Len(asked)
      BY <1>1
    <2>2. rows[k].document = d /\ rows[k].label = label
      BY <2>1, QuestionRowIs
    <2> QED
      BY <1>2, <2>1, <2>2 DEF OfItsPaper
  <1>7. \A i \in 1..Len(questions') : OfItsPaper(questions'[i], documents)
    BY <1>5, <1>6 DEF QuestionsInv
  <1>8. OneRefEach(questions')
    <2> SUFFICES ASSUME NEW p \in 1..Len(questions'), NEW q \in 1..Len(questions'), p < q,
                        questions'[p].document = questions'[q].document,
                        questions'[p].ref = questions'[q].ref
                 PROVE  FALSE
      BY DEF OneRefEach
    <2>1. DOMAIN rows = 1..Len(rows) /\ DOMAIN questions = 1..n
      BY <1>1, <1>3
    <2>2. CASE p \in 1..n /\ q \in 1..n
      BY <1>5, <2>2 DEF QuestionsInv, OneRefEach
    <2>3. ASSUME NEW i \in 1..n, NEW k \in 1..Len(rows)
          PROVE  ~(questions[i].document = rows[k].document /\ questions[i].ref = rows[k].ref)
      BY <2>1 DEF Violates, rows
    <2>4. ASSUME NEW i \in 1..Len(rows), NEW k \in 1..Len(rows), i < k
          PROVE  rows[i].ref # rows[k].ref
      BY <2>1, <2>4 DEF Violates, rows
    <2> HIDE DEF n
    <2>5. CASE p \in 1..n /\ q \notin 1..n
      <3>1. PICK k \in 1..Len(rows) : q = n + k
        BY <1>5, <2>5
      <3>2. questions'[p] = questions[p] /\ questions'[q] = rows[k]
        BY <1>5, <2>5, <3>1
      <3> QED
        BY <2>3, <2>5, <3>2
    <2>6. CASE p \notin 1..n
      <3>1. PICK i \in 1..Len(rows) : p = n + i
        BY <1>5, <2>6
      <3>2. q \notin 1..n
        BY <1>5, <3>1
      <3>3. PICK k \in 1..Len(rows) : q = n + k
        BY <1>5, <3>2
      <3>4. i < k
        BY <1>5, <3>1, <3>3
      <3>5. rows[i].ref = rows[k].ref
        BY <1>5, <3>1, <3>3
      <3> QED
        BY <2>4, <3>4, <3>5
    <2> QED
      BY <2>2, <2>5, <2>6
  <1> QED
    BY <1>5, <1>7, <1>8 DEF QuestionsInv

\* The mark scheme lines of a request that stores them.
LEMMA StoredEntries ==
  ASSUME DocumentsInv, QuestionsInv, EntriesInv, NEW d \in 1..Len(documents),
         NEW s \in 0..Len(documents), NEW label \in Labels, UNCHANGED documents,
         questions' = questions \o Reading(d, s, label).rows,
         entries' = entries \o Reading(d, s, label).lines
  PROVE  EntriesInv'
  <1> DEFINE asked  == Parse(SpansIn(d))
             scheme == Parse(SpansIn(s))
             rows   == Reading(d, s, label).rows
             lines  == Reading(d, s, label).lines
             n      == Len(questions)
             m      == Len(entries)
             Fits(e, count) == /\ e.question \in 1..count
                               /\ e.document \in 1..Len(documents)
                               /\ e.spans \subseteq 1..Len(documents[e.document].spans)
  <1>1. questions \in Seq(QuestionType) /\ entries \in Seq(EntryType) /\ n \in Nat
    BY DEF QuestionsInv, EntriesInv
  <1>2. rows \in Seq(QuestionType) /\ Len(rows) = Len(asked) /\ Len(asked) \in Nat
    BY RowsAreRead
  <1>3. lines \in Seq(EntryType)
    BY <1>1, LinesAreRead
  <1>4. \A e \in 1..Len(lines) : \E q \in 1..Len(asked) : \E k \in 1..Len(scheme) :
           lines[e] = EntryRow(n + q, s, scheme[k])
    <2>1. WellRead(Reading(d, s, label), n, asked, scheme)
      BY <1>1, LinesAreRead
    <2>2. Reading(d, s, label).scheme = s
      BY RowsAreRead
    <2> QED
      BY <2>1, <2>2 DEF WellRead
  <1>5. /\ scheme \in Seq(AskedType(Len(SpansIn(s)))) /\ SpansIn(s) \in Seq(SpanType)
        /\ s = 0 => Len(scheme) = 0
    BY SpansInIs
  <1>6. /\ Len(questions') = n + Len(rows)
        /\ entries' \in Seq(EntryType)
        /\ m \in Nat /\ Len(lines) \in Nat /\ Len(entries') = m + Len(lines)
        /\ \A e \in 1..m : entries'[e] = entries[e]
        /\ \A e \in 1..Len(lines) : entries'[m + e] = lines[e]
        /\ \A e \in 1..Len(entries') : e \in 1..m \/ \E k \in 1..Len(lines) : e = m + k
    <2> DEFINE all == questions \o rows
               more == entries \o lines
    <2> HIDE DEF QuestionType, EntryType, rows, lines
    <2>1. Len(all) = n + Len(rows)
      BY <1>1, <1>2, RowsBehind
    <2>2. /\ more \in Seq(EntryType)
          /\ m \in Nat /\ Len(lines) \in Nat /\ Len(more) = m + Len(lines)
          /\ \A e \in 1..m : more[e] = entries[e]
          /\ \A e \in 1..Len(lines) : more[m + e] = lines[e]
      BY <1>1, <1>3, RowsBehind
    <2>3. \A e \in 1..Len(more) : e \in 1..m \/ \E k \in 1..Len(lines) : e = m + k
      BY <1>1, <1>3, RowsBehind
    <2>4. questions' = all /\ entries' = more
      BY DEF rows, lines
    <2> HIDE DEF all, more, n, m
    <2> QED
      BY <2>1, <2>2, <2>3, <2>4
  <1> HIDE DEF asked, scheme, rows, lines
  <1>7. \A e \in 1..Len(lines) : Fits(lines[e], Len(questions'))
    <2> SUFFICES ASSUME NEW e \in 1..Len(lines)
                 PROVE  Fits(lines[e], Len(questions'))
      OBVIOUS
    <2>1. PICK q \in 1..Len(asked) : \E k \in 1..Len(scheme) : lines[e] = EntryRow(n + q, s, scheme[k])
      BY <1>4
    <2>2. PICK k \in 1..Len(scheme) : lines[e] = EntryRow(n + q, s, scheme[k])
      BY <2>1
    <2>3. /\ lines[e].question = n + q /\ lines[e].document = s
          /\ lines[e].spans = scheme[k].spans
      BY <2>2, EntryRowIs
    <2>4. n + q \in 1..(n + Len(rows))
      BY <1>1, <1>2
    <2>5. s \in 1..Len(documents)
      <3>1. s # 0
        BY <1>5
      <3>2. Len(documents) \in Nat
        BY DEF DocumentsInv
      <3> QED
        BY <3>1, <3>2
    <2>6. scheme[k] \in AskedType(Len(SpansIn(s)))
      BY <1>5
    <2>7. scheme[k].spans \subseteq 1..Len(documents[s].spans)
      <3>1. SpansIn(s) = documents[s].spans
        BY <2>5 DEF SpansIn
      <3> QED
        BY <2>6, <3>1 DEF AskedType
    <2> QED
      BY <1>6, <2>3, <2>4, <2>5, <2>7
  <1>8. \A e \in 1..m : Fits(entries[e], Len(questions'))
    <2>1. \A e \in 1..m : Fits(entries[e], n)
      BY DEF EntriesInv
    <2>2. \A i \in 1..n : i \in 1..(n + Len(rows))
      BY <1>1, <1>2
    <2> QED
      BY <1>6, <2>1, <2>2
  <1> HIDE DEF Fits, m
  <1>9. \A e \in 1..Len(entries') : Fits(entries'[e], Len(questions'))
    BY <1>6, <1>7, <1>8
  <1> QED
    BY <1>6, <1>9 DEF EntriesInv, Fits

\* A request is answered with what it stored.
LEMMA StoredReport ==
  ASSUME DocumentsInv, QuestionsInv, EntriesInv, NEW d \in 1..Len(documents),
         NEW s \in 0..Len(documents), NEW label \in Labels, UNCHANGED documents,
         Stored(Reading(d, s, label))
  PROVE  ReportInv'
  <1> DEFINE r      == Reading(d, s, label)
             asked  == Parse(SpansIn(d))
             scheme == Parse(SpansIn(s))
             rows   == r.rows
             lines  == r.lines
             n      == Len(questions)
             m      == Len(entries)
             mine   == {q \in DOMAIN questions' : questions'[q].document = d /\ questions'[q].label = label}
             given  == {e \in DOMAIN entries' : entries'[e].question \in mine}
  <1>1. /\ ~Violates(rows) /\ questions' = questions \o rows /\ entries' = entries \o lines
        /\ report' = Report("stored", r)
    BY DEF Stored
  <1>2. /\ questions \in Seq(QuestionType) /\ entries \in Seq(EntryType)
        /\ n \in Nat /\ m \in Nat
        /\ \A e \in 1..m : entries[e].question \in 1..n
    BY DEF QuestionsInv, EntriesInv
  <1>3. /\ r.paper = d /\ r.scheme = s /\ r.label = label
        /\ rows \in Seq(QuestionType) /\ Len(rows) = Len(asked)
        /\ \A q \in 1..Len(asked) : rows[q] = QuestionRow(d, label, asked[q])
    BY RowsAreRead
  <1>4. lines \in Seq(EntryType) /\ WellRead(r, n, asked, scheme)
    BY <1>2, LinesAreRead
  <1>5. SpansIn(s)' = SpansIn(s) /\ scheme \in Seq(AskedType(Len(SpansIn(s))))
    BY SpansInIs DEF SpansIn
  <1>6. ASSUME NEW q \in 1..n
        PROVE  ~(questions[q].document = d /\ questions[q].label = label)
    BY <1>1, FirstOfItsLabel
  <1> HIDE DEF r, asked, scheme, rows, lines
  <1>7. /\ report'.status = "stored" /\ report'.paper = d /\ report'.scheme = s /\ report'.label = label
        /\ report'.created = Len(rows) /\ report'.entries = Len(lines)
        /\ report'.unmatched = r.unmatched /\ report'.orphans = r.orphans
    BY <1>1, <1>3 DEF Report, rows, lines
  <1>8. /\ DOMAIN questions' = 1..(n + Len(rows)) /\ Len(rows) \in Nat
        /\ \A i \in 1..n : questions'[i] = questions[i]
        /\ \A i \in 1..Len(rows) : questions'[n + i] = rows[i]
        /\ \A i \in 1..(n + Len(rows)) : i \in 1..n \/ \E k \in 1..Len(rows) : i = n + k
    <2> DEFINE all == questions \o rows
    <2> HIDE DEF QuestionType
    <2>1. questions \in Seq(QuestionType) /\ rows \in Seq(QuestionType)
      BY <1>2, <1>3
    <2>2. /\ all \in Seq(QuestionType) /\ Len(rows) \in Nat /\ Len(all) = n + Len(rows)
          /\ \A i \in 1..n : all[i] = questions[i]
          /\ \A i \in 1..Len(rows) : all[n + i] = rows[i]
      BY <2>1, RowsBehind
    <2>3. \A i \in 1..Len(all) : i \in 1..n \/ \E k \in 1..Len(rows) : i = n + k
      BY <2>1, RowsBehind
    <2> HIDE DEF all, n
    <2>4. questions' = all
      BY <1>1 DEF all
    <2> QED
      BY <2>2, <2>3, <2>4
  <1>9. /\ DOMAIN entries' = 1..(m + Len(lines)) /\ Len(lines) \in Nat
        /\ \A i \in 1..m : entries'[i] = entries[i]
        /\ \A i \in 1..Len(lines) : entries'[m + i] = lines[i]
        /\ \A i \in 1..(m + Len(lines)) : i \in 1..m \/ \E k \in 1..Len(lines) : i = m + k
    <2> DEFINE all == entries \o lines
    <2> HIDE DEF EntryType
    <2>1. entries \in Seq(EntryType) /\ lines \in Seq(EntryType)
      BY <1>2, <1>4
    <2>2. /\ all \in Seq(EntryType) /\ Len(lines) \in Nat /\ Len(all) = m + Len(lines)
          /\ \A i \in 1..m : all[i] = entries[i]
          /\ \A i \in 1..Len(lines) : all[m + i] = lines[i]
      BY <2>1, RowsBehind
    <2>3. \A i \in 1..Len(all) : i \in 1..m \/ \E k \in 1..Len(lines) : i = m + k
      BY <2>1, RowsBehind
    <2> HIDE DEF all, m
    <2>4. entries' = all
      BY <1>1 DEF all
    <2> QED
      BY <2>2, <2>3, <2>4
  <1> HIDE DEF n, m
  <1>10. mine = (n + 1)..(n + Len(rows))
    <2>1. ASSUME NEW q \in mine
          PROVE  q \in (n + 1)..(n + Len(rows))
      <3>1. q \in 1..(n + Len(rows)) /\ questions'[q].document = d /\ questions'[q].label = label
        BY <1>8
      <3>2. q \notin 1..n
        BY <1>6, <1>8, <3>1
      <3> QED
        BY <1>2, <1>8, <3>1, <3>2
    <2>2. ASSUME NEW q \in (n + 1)..(n + Len(rows))
          PROVE  q \in mine
      <3>1. q \in 1..(n + Len(rows)) /\ q \notin 1..n
        BY <1>2, <1>8
      <3>2. PICK k \in 1..Len(rows) : q = n + k
        BY <1>8, <3>1
      <3>3. questions'[q] = QuestionRow(d, label, asked[k])
        BY <1>3, <1>8, <3>2
      <3>4. questions'[q].document = d /\ questions'[q].label = label
        BY <3>3, QuestionRowIs
      <3> QED
        BY <1>8, <3>1, <3>4
    <2> HIDE DEF mine
    <2> QED
      BY <2>1, <2>2
  <1> HIDE DEF mine
  <1>11. \A e \in 1..Len(lines) : lines[e].question \in mine
    <2> SUFFICES ASSUME NEW e \in 1..Len(lines)
                 PROVE  lines[e].question \in mine
      OBVIOUS
    <2>1. PICK q \in 1..Len(asked) : \E k \in 1..Len(scheme) : lines[e] = EntryRow(n + q, r.scheme, scheme[k])
      BY <1>4 DEF WellRead, lines
    <2>2. lines[e].question = n + q
      BY <2>1, EntryRowIs
    <2> QED
      BY <1>2, <1>3, <1>8, <1>10, <2>2
  <1>12. given = (m + 1)..(m + Len(lines))
    <2>1. ASSUME NEW e \in given
          PROVE  e \in (m + 1)..(m + Len(lines))
      <3>1. e \in 1..(m + Len(lines)) /\ entries'[e].question \in mine
        BY <1>9
      <3>2. ASSUME e \in 1..m
            PROVE  FALSE
        <4>1. entries'[e].question \in 1..n
          BY <1>2, <1>9, <3>2
        <4>2. entries'[e].question \in (n + 1)..(n + Len(rows))
          BY <1>10, <3>1
        <4> QED
          BY <1>2, <1>8, <4>1, <4>2
      <3> QED
        BY <1>2, <1>9, <3>1, <3>2
    <2>2. ASSUME NEW e \in (m + 1)..(m + Len(lines))
          PROVE  e \in given
      <3>1. e \in 1..(m + Len(lines)) /\ e \notin 1..m
        BY <1>2, <1>9
      <3>2. PICK k \in 1..Len(lines) : e = m + k
        BY <1>9, <3>1
      <3> QED
        BY <1>9, <1>11, <3>1, <3>2
    <2> HIDE DEF given
    <2> QED
      BY <2>1, <2>2
  <1> HIDE DEF given
  <1>13. Cardinality(mine) = Len(rows) /\ Cardinality(given) = Len(lines)
    BY <1>2, <1>8, <1>9, <1>10, <1>12, PositionsBehind
  <1>14. ASSUME NEW q \in mine
         PROVE  \/ questions'[q].number \in r.unmatched
                \/ \E e \in given : entries'[e].question = q
    <2>1. PICK k \in 1..Len(rows) : q = n + k
      <3>1. q \in 1..(n + Len(rows)) /\ q \notin 1..n
        BY <1>2, <1>8, <1>10
      <3> QED
        BY <1>8, <3>1
    <2>2. questions'[q].number = asked[k].number /\ k \in 1..Len(asked)
      BY <1>3, <1>8, <2>1, QuestionRowIs
    <2>3. CASE asked[k].number \in r.unmatched
      BY <2>2, <2>3
    <2>4. CASE asked[k].number \notin r.unmatched
      <3>1. PICK e \in 1..Len(lines) : lines[e].question = n + k
        BY <1>4, <2>2, <2>4 DEF WellRead, lines
      <3>2. m + e \in given /\ entries'[m + e].question = q
        BY <1>2, <1>9, <1>12, <2>1, <3>1
      <3> QED
        BY <3>2
    <2> QED
      BY <2>3, <2>4
  <1>15. ASSUME NEW k \in 1..Len(scheme)
         PROVE  \/ scheme[k].number \in r.orphans
                \/ \E e \in given : /\ entries'[e].spans = scheme[k].spans
                                    /\ questions'[entries'[e].question].number = scheme[k].number
    <2>1. CASE scheme[k].number \in r.orphans
      BY <2>1
    <2>2. CASE scheme[k].number \notin r.orphans
      <3>1. PICK e \in 1..Len(lines) : \E q \in 1..Len(asked) :
               lines[e] = EntryRow(n + q, r.scheme, scheme[k]) /\ asked[q].number = scheme[k].number
        BY <1>4, <2>2 DEF WellRead, lines
      <3>2. PICK q \in 1..Len(asked) :
               lines[e] = EntryRow(n + q, r.scheme, scheme[k]) /\ asked[q].number = scheme[k].number
        BY <3>1
      <3>3. /\ m + e \in given /\ entries'[m + e].question = n + q
            /\ entries'[m + e].spans = scheme[k].spans
        <4>1. lines[e].question = n + q /\ lines[e].spans = scheme[k].spans
          BY <3>2, EntryRowIs
        <4>2. m + e \in (m + 1)..(m + Len(lines)) /\ entries'[m + e] = lines[e]
          BY <1>2, <1>9
        <4> QED
          BY <1>12, <4>1, <4>2
      <3>4. questions'[n + q].number = scheme[k].number
        BY <1>3, <1>8, <3>2, QuestionRowIs
      <3> QED
        BY <3>3, <3>4
    <2> QED
      BY <2>1, <2>2
  <1>16. DOMAIN scheme = 1..Len(scheme)
    BY <1>5
  <1>17. ReportHonest'
    <2>1. Cardinality(mine) = report'.created /\ Cardinality(given) = report'.entries
      BY <1>7, <1>13
    <2>2. \A q \in mine :
             \/ questions'[q].number \in report'.unmatched
             \/ \E e \in given : entries'[e].question = q
      BY <1>7, <1>14
    <2>3. \A k \in DOMAIN scheme :
             \/ scheme[k].number \in report'.orphans
             \/ \E e \in given : /\ entries'[e].spans = scheme[k].spans
                                 /\ questions'[entries'[e].question].number = scheme[k].number
      BY <1>7, <1>15, <1>16
    <2>4. mine = {q \in DOMAIN questions' :
                    questions'[q].document = report'.paper /\ questions'[q].label = report'.label}
      BY <1>7 DEF mine
    <2>5. given = {e \in DOMAIN entries' : entries'[e].question \in mine}
      BY DEF given
    <2>6. scheme = Parse(SpansIn(report.scheme))'
      BY <1>5, <1>7 DEF scheme
    <2> HIDE DEF mine, given, scheme
    <2> QED
      BY <2>1, <2>2, <2>3, <2>4, <2>5, <2>6 DEF ReportHonest
  <1>18. PaperLostExplained'
    BY <1>7 DEF PaperLostExplained
  <1> QED
    BY <1>7, <1>17, <1>18 DEF ReportInv

\* A request is refused for a question that was stored before: its own rows do
\* not meet, since no number is asked twice and one label gives different refs.
LEMMA RefusedReport ==
  ASSUME DocumentsInv, QuestionsInv, NEW d \in 1..Len(documents),
         NEW s \in 0..Len(documents), NEW label \in Labels, UNCHANGED documents,
         Refused(Reading(d, s, label))
  PROVE  ReportInv'
  <1> DEFINE r     == Reading(d, s, label)
             asked == Parse(SpansIn(d))
             rows  == r.rows
  <1>1. Violates(rows) /\ report' = Report("conflict", r) /\ UNCHANGED questions
    BY DEF Refused
  <1>2. /\ r.paper = d /\ r.scheme = s /\ r.label = label
        /\ rows \in Seq(QuestionType) /\ Len(rows) = Len(asked)
        /\ \A q \in 1..Len(asked) : rows[q] = QuestionRow(d, label, asked[q])
    BY RowsAreRead
  <1>3. WellAsked(SpansIn(d), asked) /\ SpansIn(d)' = SpansIn(d)
        /\ asked \in Seq(AskedType(Len(SpansIn(d))))
    <2>1. d \in 0..Len(documents)
      BY DEF DocumentsInv
    <2> QED
      BY <2>1, SpansInIs DEF SpansIn
  <1> HIDE DEF r, asked, rows
  <1>4. /\ report'.status = "conflict" /\ report'.paper = d /\ report'.scheme = s /\ report'.label = label
    BY <1>1, <1>2 DEF Report
  <1>5. DOMAIN rows = 1..Len(rows) /\ DOMAIN asked = 1..Len(asked) /\ Len(rows) \in Nat
    BY <1>2, <1>3
  <1>6. \A i \in 1..Len(asked) :
           rows[i].document = d /\ rows[i].ref = FullRef(label.year, label.paperRef, asked[i].number)
    BY <1>2, QuestionRowIs
  <1>7. ASSUME NEW i \in DOMAIN rows, NEW j \in DOMAIN rows, i < j, rows[i].ref = rows[j].ref
        PROVE  FALSE
    <2>1. FullRef(label.year, label.paperRef, asked[i].number) =
              FullRef(label.year, label.paperRef, asked[j].number)
      BY <1>2, <1>5, <1>6, <1>7
    <2>2. asked[i].number = asked[j].number
      BY <2>1, RefTellsNumber, PapersAssumption
    <2>3. i = j
      BY <1>2, <1>3, <1>5, <2>2 DEF WellAsked
    <2> QED
      BY <1>5, <1>7, <2>3
  <1>8. PICK i \in DOMAIN rows, q \in DOMAIN questions :
           questions[q].document = rows[i].document /\ questions[q].ref = rows[i].ref
    BY <1>1, <1>7 DEF Violates
  <1>9. /\ questions[q].document = d /\ i \in DOMAIN asked
        /\ questions[q].ref = FullRef(label.year, label.paperRef, asked[i].number)
    BY <1>2, <1>5, <1>6, <1>8
  <1>10. PaperLostExplained'
    BY <1>1, <1>3, <1>4, <1>8, <1>9 DEF PaperLostExplained, asked
  <1>11. ReportHonest'
    BY <1>4 DEF ReportHonest
  <1> QED
    BY <1>4, <1>10, <1>11 DEF ReportInv

LEMMA IngestQuestionsKeeps ==
  ASSUME Inv, IngestQuestions
  PROVE  Inv'
  <1>1. UNCHANGED <<shelf, uploads, upload, documents>> /\ documents \in Seq(DocumentType)
    BY DEF Inv, DocumentsInv, IngestQuestions
  <1>2. PICK d \in DOMAIN documents, s \in {0} \cup DOMAIN documents, label \in Labels :
           Stored(Reading(d, s, label)) \/ Refused(Reading(d, s, label))
    BY DEF IngestQuestions
  <1>3. d \in 1..Len(documents) /\ s \in 0..Len(documents)
    <2>1. DOMAIN documents = 1..Len(documents) /\ Len(documents) \in Nat
      BY <1>1
    <2> QED
      BY <1>2, <2>1
  <1>4. UploadInv' /\ DocumentsInv'
    BY <1>1 DEF Inv, UploadInv, DocumentsInv
  <1>5. CASE Stored(Reading(d, s, label))
    <2>1. QuestionsInv'
      BY <1>1, <1>3, <1>5, StoredQuestions DEF Inv, Stored
    <2>2. EntriesInv'
      BY <1>1, <1>3, <1>5, StoredEntries DEF Inv, Stored
    <2>3. ReportInv'
      BY <1>1, <1>3, <1>5, StoredReport DEF Inv
    <2> QED
      BY <1>4, <2>1, <2>2, <2>3 DEF Inv
  <1>6. CASE Refused(Reading(d, s, label))
    <2>1. UNCHANGED <<questions, entries>>
      BY <1>6 DEF Refused
    <2>2. QuestionsInv' /\ EntriesInv'
      BY <1>1, <2>1 DEF Inv, QuestionsInv, EntriesInv
    <2>3. ReportInv'
      BY <1>1, <1>3, <1>6, RefusedReport DEF Inv
    <2> QED
      BY <1>4, <2>2, <2>3 DEF Inv
  <1> QED
    BY <1>2, <1>5, <1>6

-----------------------------------------------------------------------------
(* The theorems *)

LEMMA InitInv == Init => Inv
  <1> SUFFICES ASSUME Init
               PROVE  Inv
    OBVIOUS
  <1>1. shelf \in Seq(FileType) /\ uploads \in Nat
    BY PapersAssumption DEF Init
  <1>2. UploadInv
    <2>1. upload.pages = <<>> /\ upload.stage = "idle"
      BY DEF Init, NoUpload
    <2> QED
      BY <1>1, <2>1, Unsent DEF Init, UploadInv
  <1>3. documents = <<>> /\ questions = <<>> /\ entries = <<>> /\ report.status = "none"
    BY DEF Init, NoReport
  <1>4. 1..Len(<<>>) = {}
    OBVIOUS
  <1>5. DocumentsInv /\ QuestionsInv /\ EntriesInv
    BY <1>3, <1>4 DEF DocumentsInv, QuestionsInv, OneRefEach, EntriesInv
  <1>6. ReportInv
    BY <1>3 DEF ReportInv, PaperLostExplained, ReportHonest
  <1> QED
    BY <1>2, <1>5, <1>6 DEF Inv

LEMMA NextInv == Inv /\ [Next]_vars => Inv'
  <1> SUFFICES ASSUME Inv, [Next]_vars
               PROVE  Inv'
    OBVIOUS
  <1>1. CASE Upload
    BY <1>1, UploadKeeps
  <1>2. CASE TextParserReads
    BY <1>2, TextParserReadsKeeps
  <1>3. CASE ParserRaises
    BY <1>3, ParserRaisesKeeps
  <1>4. CASE ParserEscapes \/ ChainExhausted \/ PageEscapes
    BY <1>4, AbandonedKeeps DEF ParserEscapes, ChainExhausted, PageEscapes
  <1>5. CASE StartOcr
    BY <1>5, StartOcrKeeps
  <1>6. CASE SendPage
    BY <1>6, SendPageKeeps
  <1>7. CASE PageTranscribed \/ PageFails
    BY <1>7, PageAnsweredKeeps
  <1>8. CASE FinishOcr
    BY <1>8, FinishOcrKeeps
  <1>9. CASE IngestQuestions
    BY <1>9, IngestQuestionsKeeps
  <1>10. CASE UNCHANGED vars
    <2>1. UploadInv'
      BY <1>10 DEF vars, Inv, UploadInv
    <2>2. UNCHANGED <<documents, questions, entries, report>>
      BY <1>10 DEF vars
    <2> QED
      BY <2>1, <2>2, RowsUnmoved DEF Inv
  <1> QED
    BY <1>1, <1>2, <1>3, <1>4, <1>5, <1>6, <1>7, <1>8, <1>9, <1>10 DEF Next, UploadStep

\* The invariant holds whatever is uploaded and asked for, with any number of
\* files, pages, requests and OCR requests at a time.
THEOREM Invariance == Spec => []Inv
  BY InitInv, NextInv, PTL DEF Spec

\* Every row refers to rows that exist, OCR keeps to its limit of requests, and
\* no two questions of a document have one ref.
THEOREM TypeCorrect == Spec => []TypeOK
  <1>1. Inv => TypeOK
    <2> SUFFICES ASSUME Inv
                 PROVE  TypeOK
      OBVIOUS
    <2>1. /\ upload \in UploadType /\ documents \in Seq(DocumentType)
          /\ questions \in Seq(QuestionType) /\ entries \in Seq(EntryType)
      BY DEF Inv, UploadInv, DocumentsInv, QuestionsInv, EntriesInv
    <2>2. /\ DOMAIN questions = 1..Len(questions) /\ DOMAIN entries = 1..Len(entries)
          /\ DOMAIN documents = 1..Len(documents)
      BY <2>1
    <2>3. /\ upload.stage \in {"idle", "parse", "ocr"}
          /\ \A p \in DOMAIN upload.pages :
                upload.pages[p] \in {"no_image", "waiting", "sent", "text", "failed"}
          /\ Cardinality(PagesThat("sent")) <= Concurrency
      <3>1. upload.pages \in Seq(PageStates) /\ upload.stage \in {"idle", "parse", "ocr"}
        BY <2>1 DEF UploadType
      <3>2. Cardinality(PagesThat("sent")) <= Concurrency
        BY <2>1, PagesThatIs DEF Inv, UploadInv
      <3>3. \A p \in DOMAIN upload.pages : upload.pages[p] \in PageStates
        BY <3>1
      <3> QED
        BY <3>1, <3>2, <3>3 DEF PageStates
    <2>4. ASSUME NEW q \in DOMAIN questions
          PROVE  /\ questions[q].document \in DOMAIN documents
                 /\ questions[q].spans \subseteq DOMAIN documents[questions[q].document].spans
                 /\ questions[q].spans # {}
      <3>1. OfItsPaper(questions[q], documents) /\ DocumentsInv
        BY <2>2 DEF Inv, QuestionsInv
      <3> QED
        BY <3>1, QuestionIs
    <2>5. ASSUME NEW e \in DOMAIN entries
          PROVE  /\ entries[e].question \in DOMAIN questions
                 /\ entries[e].spans \subseteq DOMAIN documents[entries[e].document].spans
      <3>1. /\ entries[e].question \in 1..Len(questions) /\ entries[e].document \in 1..Len(documents)
            /\ entries[e].spans \subseteq 1..Len(documents[entries[e].document].spans)
        BY <2>2 DEF Inv, EntriesInv
      <3>2. documents[entries[e].document] \in DocumentType
        BY <2>1, <3>1
      <3>3. DOMAIN documents[entries[e].document].spans = 1..Len(documents[entries[e].document].spans)
        BY <3>2 DEF DocumentType
      <3> QED
        BY <2>2, <3>1, <3>3
    <2>6. OneRefEach(questions)
      BY DEF Inv, QuestionsInv
    <2> QED
      BY <2>2, <2>3, <2>4, <2>5, <2>6 DEF TypeOK, OneRefEach
  <1> QED
    BY <1>1, Invariance, PTL

\* A question cites what stands under its number, and nothing that does is left
\* out, but after a number announced a second time (_accumulate).
THEOREM QuestionsAreFiled == Spec => []MisfiledExplained
  <1>1. Inv => MisfiledExplained
    <2> SUFFICES ASSUME Inv, NEW q \in DOMAIN questions
                 PROVE  WellFiled(Prepared(documents[questions[q].document].spans),
                                  questions[q].number, questions[q].spans)
      BY DEF MisfiledExplained, WellFiled
    <2>1. questions \in Seq(QuestionType) /\ DocumentsInv
      BY DEF Inv, QuestionsInv
    <2>2. OfItsPaper(questions[q], documents)
      BY <2>1 DEF Inv, QuestionsInv
    <2> QED
      BY <2>1, <2>2, QuestionIs
  <1> QED
    BY <1>1, Invariance, PTL

\* The marks of a question are an allocation that stands under its number or
\* went to it for want of a marker, never the total of a section (extract_marks).
THEOREM MarksAreOwn == Spec => []MarksOwn
  <1>1. Inv => MarksOwn
    <2> SUFFICES ASSUME Inv, NEW q \in DOMAIN questions
                 PROVE  WellMarked(Prepared(documents[questions[q].document].spans),
                                   questions[q].number, questions[q].marks)
      BY DEF MarksOwn, WellMarked
    <2>1. questions \in Seq(QuestionType) /\ DocumentsInv
      BY DEF Inv, QuestionsInv
    <2>2. OfItsPaper(questions[q], documents)
      BY <2>1 DEF Inv, QuestionsInv
    <2> QED
      BY <2>1, <2>2, QuestionIs
  <1> QED
    BY <1>1, Invariance, PTL

\* A paper is refused only where a question of it is stored already, never for
\* a number that it repeats (ingest_questions).
THEOREM RefusalsAreExplained == Spec => []PaperLostExplained
  <1>1. Inv => PaperLostExplained
    BY DEF Inv, ReportInv
  <1> QED
    BY <1>1, Invariance, PTL

\* The answer to a request agrees with the tables: every question has its entry
\* or is named, every number of the mark scheme has a stored entry or is named
\* (link_questions_to_mark_scheme).
THEOREM ReportsAreHonest == Spec => []ReportHonest
  <1>1. Inv => ReportHonest
    BY DEF Inv, ReportInv
  <1> QED
    BY <1>1, Invariance, PTL

\* A page without a span lowers the confidence of its document, but for the two
\* ways around it (pypdf_provider.py, vision_llm_provider.py).
THEOREM LostPagesAreShown == Spec => []LostPagesShow
  <1>1. Inv => LostPagesShow
    <2> SUFFICES ASSUME Inv
                 PROVE  LostPagesShow
      OBVIOUS
    <2>1. DOMAIN documents = 1..Len(documents)
      BY DEF Inv, DocumentsInv
    <2> QED
      BY <2>1 DEF Inv, DocumentsInv, LostPagesShow, PageShows
  <1> QED
    BY <1>1, Invariance, PTL

\* A document without spans is OCR's, and its confidence counts every scanned
\* page of the file as lost: it is full only where no page is a scan.
THEOREM EmptyDocumentsAreExplained == Spec => []EmptyDocumentExplained
  <1>1. Inv => EmptyDocumentExplained
    <2> SUFFICES ASSUME Inv
                 PROVE  EmptyDocumentExplained
      OBVIOUS
    <2>1. DOMAIN documents = 1..Len(documents)
      BY DEF Inv, DocumentsInv
    <2> QED
      BY <2>1 DEF Inv, DocumentsInv, EmptyDocumentExplained, EmptyExplained
  <1> QED
    BY <1>1, Invariance, PTL

-----------------------------------------------------------------------------
(* The length of an upload *)

\* The steps an upload can still take: a turn for each parser, and for each page
\* that is sent its request and the answer to it.
StepsLeft ==
    CASE upload.stage = "parse" -> 2 * Len(upload.file.pages) + 6 - upload.rung
      [] upload.stage = "ocr"   ->
             2 * Cardinality(StateIn(upload.pages, "waiting"))
                + Cardinality(StateIn(upload.pages, "sent")) + 1
      [] OTHER                  -> 0

\* A step of an upload uses up one of them.
UsesUpStep ==
    /\ upload.stage # "idle" => StepsLeft \in Nat \ {0} /\ StepsLeft' < StepsLeft
    /\ upload.stage = "idle" /\ upload'.stage # "idle"
          => StepsLeft' = 2 * Len(upload'.file.pages) + 5

\* There are three parsers at most.
LEMMA LadderIsShort == Len(Ladder) \in 2..3
  <1> DEFINE text == <<"pypdf_text", "anydoc">>
             last == IF vision THEN <<"vision_llm_ocr">> ELSE <<>>
             Names == {"pypdf_text", "anydoc", "vision_llm_ocr"}
  <1>1. text \in Seq(Names) /\ Len(text) = 2
    OBVIOUS
  <1>2. last \in Seq(Names) /\ Len(last) \in 0..1
    <2>1. <<>> \in Seq(Names) /\ <<"vision_llm_ocr">> \in Seq(Names)
      OBVIOUS
    <2>2. Len(<<>>) \in 0..1 /\ Len(<<"vision_llm_ocr">>) \in 0..1
      OBVIOUS
    <2> HIDE DEF Names
    <2> QED
      BY <2>1, <2>2, Zenon
  <1>3. ASSUME NEW r \in Seq(Names), NEW s \in Seq(Names)
        PROVE  Len(r \o s) = Len(r) + Len(s)
    BY <1>3
  <1>4. Len(text \o last) = 2 + Len(last)
    <2> HIDE DEF text, last, Names
    <2> QED
      BY <1>1, <1>2, <1>3
  <1>5. Len(Ladder) = 2 + Len(last)
    BY <1>4 DEF Ladder
  <1>6. \A k \in 0..1 : 2 + k \in 2..3
    OBVIOUS
  <1> HIDE DEF text, last, Names
  <1> QED
    BY <1>2, <1>5, <1>6

\* The chain is at one of them, or through.
RungOK == upload.stage = "parse" => upload.rung \in 1..4

LEMMA RungStep ==
  ASSUME Inv, RungOK, [Next]_vars
  PROVE  RungOK'
  <1>1. upload \in UploadType
    BY DEF Inv, UploadInv
  <1>2. CASE ParserRaises
    <2>1. /\ upload' = [upload EXCEPT !.rung = @ + 1] /\ upload.rung \in 1..Len(Ladder)
          /\ upload.rung \in Nat
      BY <1>1, <1>2 DEF ParserRaises, UploadType, Ladder
    <2>2. upload'.rung = upload.rung + 1
      BY <1>1, <2>1 DEF UploadType
    <2>3. \A k \in 2..3 : \A r \in 1..k : r + 1 \in 1..4
      OBVIOUS
    <2>4. upload.rung + 1 \in 1..4
      BY <2>1, <2>3, LadderIsShort
    <2> QED
      BY <2>2, <2>4 DEF RungOK
  <1>3. CASE Upload
    <2>1. upload'.rung = 1
      BY <1>3 DEF Upload, NoUpload
    <2> QED
      BY <2>1 DEF RungOK
  <1>4. CASE StartOcr
    <2>1. upload'.stage = "ocr"
      BY <1>1, <1>4 DEF StartOcr, UploadType
    <2> QED
      BY <2>1 DEF RungOK
  <1>5. CASE TextParserReads \/ ParserEscapes \/ ChainExhausted \/ PageEscapes \/ FinishOcr
    <2>1. upload' = NoUpload
      BY <1>5 DEF TextParserReads, ParserEscapes, ChainExhausted, PageEscapes, FinishOcr, Abandoned, Store
    <2> QED
      BY <2>1 DEF RungOK, NoUpload
  <1>6. CASE SendPage \/ PageTranscribed \/ PageFails
    <2>1. PICK p, state : SetPage(p, state)
      BY <1>6 DEF SendPage, PageTranscribed, PageFails
    <2>2. upload'.stage = upload.stage /\ upload'.rung = upload.rung
      BY <1>1, <2>1 DEF SetPage, UploadType
    <2> QED
      BY <2>2 DEF RungOK
  <1>7. CASE IngestQuestions \/ UNCHANGED vars
    BY <1>7 DEF IngestQuestions, vars, RungOK
  <1> QED
    BY <1>2, <1>3, <1>4, <1>5, <1>6, <1>7 DEF Next, UploadStep

\* A page that goes from one state to another leaves the rest as they are.
LEMMA PageMoves ==
  ASSUME Inv, NEW p \in 1..Len(upload.pages), NEW state \in PageStates, SetPage(p, state)
  PROVE  LET pages == upload.pages
             next  == upload'.pages
         IN  /\ upload'.stage = upload.stage
             /\ \A s : IF s = state THEN StateIn(next, s) = StateIn(pages, s) \cup {p}
                       ELSE StateIn(next, s) = StateIn(pages, s) \ {p}
  <1>1. upload \in UploadType /\ upload' = [upload EXCEPT !.pages[p] = state]
    BY DEF Inv, UploadInv, SetPage
  <1>2. upload.pages \in Seq(PageStates)
    BY <1>1 DEF UploadType
  <1>3. upload'.stage = upload.stage /\ upload'.pages = [upload.pages EXCEPT ![p] = state]
    BY <1>1 DEF UploadType
  <1>4. /\ Len(upload'.pages) = Len(upload.pages) /\ upload'.pages[p] = state
        /\ \A q \in 1..Len(upload.pages) : q # p => upload'.pages[q] = upload.pages[q]
    BY <1>2, <1>3
  <1> QED
    BY <1>3, <1>4 DEF StateIn

\* Sending a page and answering for it are a step each.
LEMMA PagesGoOn ==
  ASSUME Inv, SendPage \/ PageTranscribed \/ PageFails
  PROVE  upload.stage = "ocr" /\ StepsLeft \in Nat \ {0} /\ StepsLeft' < StepsLeft
  <1> DEFINE Waiting(u) == StateIn(u.pages, "waiting")
             Sent(u) == StateIn(u.pages, "sent")
             w == Cardinality(Waiting(upload))
             t == Cardinality(Sent(upload))
  <1>1. /\ IsFiniteSet(Waiting(upload)) /\ w \in Nat
        /\ IsFiniteSet(Sent(upload)) /\ t \in Nat
        /\ PagesThat("waiting") = Waiting(upload) /\ PagesThat("sent") = Sent(upload)
    BY PagesThatIs DEF Inv, UploadInv
  <1>2. /\ Waiting(upload) \in SUBSET (1..Len(upload.pages))
        /\ Waiting(upload) \cap Sent(upload) = {}
        /\ Sent(upload) \in SUBSET (1..Len(upload.pages))
    BY DEF StateIn
  <1>3. upload.stage = "ocr"
    <2>1. CASE SendPage
      BY <2>1 DEF SendPage
    <2>2. CASE PageTranscribed \/ PageFails
      <3>1. Sent(upload) # {}
        BY <1>1, <2>2 DEF PageTranscribed, PageFails
      <3>2. upload.pages # <<>>
        BY <3>1 DEF StateIn
      <3> QED
        BY <3>2 DEF Inv, UploadInv
    <2> QED
      BY <2>1, <2>2
  <1>4. StepsLeft = 2 * w + t + 1
    BY <1>3 DEF StepsLeft
  <1>5. CASE SendPage
    <2> DEFINE p == Min(Waiting(upload))
    <2>1. Waiting(upload) # {} /\ SetPage(p, "sent")
      BY <1>1, <1>5 DEF SendPage
    <2>2. p \in Waiting(upload)
      <3>1. Waiting(upload) \in SUBSET Nat
        BY <1>2
      <3> HIDE DEF Waiting
      <3> QED
        BY <2>1, <3>1, MinIsFirst
    <2>3. "sent" \in PageStates /\ p \in 1..Len(upload.pages) /\ p \notin Sent(upload)
      BY <1>2, <2>2 DEF PageStates
    <2> HIDE DEF p
    <2>4. /\ upload'.stage = "ocr"
          /\ Sent(upload') = Sent(upload) \cup {p}
          /\ Waiting(upload') = Waiting(upload) \ {p}
      BY <1>3, <2>1, <2>3, PageMoves
    <2>5. StepsLeft' = 2 * Cardinality(Waiting(upload')) + Cardinality(Sent(upload')) + 1
      BY <2>4 DEF StepsLeft
    <2> HIDE DEF Waiting, Sent
    <2>6. Cardinality(Sent(upload')) = t + 1
      BY <1>1, <2>3, <2>4, FS_AddElement
    <2>7. Cardinality(Waiting(upload')) = w - 1
      BY <1>1, <2>2, <2>4, FS_RemoveElement
    <2> HIDE DEF w, t
    <2> QED
      BY <1>1, <1>3, <1>4, <2>5, <2>6, <2>7
  <1>6. CASE PageTranscribed \/ PageFails
    <2>1. PICK p \in Sent(upload), state \in {"text", "failed"} : SetPage(p, state)
      BY <1>1, <1>6 DEF PageTranscribed, PageFails
    <2>2. state \in PageStates /\ p \in 1..Len(upload.pages) /\ p \notin Waiting(upload)
      BY <1>2 DEF PageStates
    <2>3. /\ upload'.stage = "ocr"
          /\ Sent(upload') = Sent(upload) \ {p}
          /\ Waiting(upload') = Waiting(upload) \ {p}
      BY <1>3, <2>1, <2>2, PageMoves
    <2>4. StepsLeft' = 2 * Cardinality(Waiting(upload')) + Cardinality(Sent(upload')) + 1
      BY <2>3 DEF StepsLeft
    <2>5. Waiting(upload') = Waiting(upload)
      BY <2>2, <2>3
    <2> HIDE DEF Waiting, Sent
    <2>6. Cardinality(Sent(upload')) = t - 1
      BY <1>1, <2>1, <2>3, FS_RemoveElement
    <2>7. Cardinality(Waiting(upload')) = w
      BY <2>5
    <2> HIDE DEF w, t
    <2> QED
      BY <1>1, <1>3, <1>4, <2>4, <2>6, <2>7
  <1> QED
    BY <1>5, <1>6

\* Every step of an upload goes on to the next parser, the next page or the end.
LEMMA UploadGoesOn ==
  ASSUME Inv, RungOK, Next
  PROVE  UsesUpStep
  <1> DEFINE n == Len(upload.file.pages)
  <1>1. upload \in UploadType /\ upload.file \in FileType
    BY DEF Inv, UploadInv, UploadType
  <1>2. n \in Nat
    BY <1>1, PageIs
  <1>3. upload.stage = "parse" => StepsLeft = 2 * n + 6 - upload.rung /\ upload.rung \in 1..4
    BY DEF StepsLeft, RungOK
  <1>4. upload.stage = "ocr" => StepsLeft \in Nat \ {0}
    <2>1. /\ Cardinality(StateIn(upload.pages, "waiting")) \in Nat
          /\ Cardinality(StateIn(upload.pages, "sent")) \in Nat
      BY <1>1, PagesThatIs
    <2>2. upload.stage = "ocr" =>
             StepsLeft = 2 * Cardinality(StateIn(upload.pages, "waiting"))
                            + Cardinality(StateIn(upload.pages, "sent")) + 1
      BY DEF StepsLeft
    <2> QED
      BY <2>1, <2>2
  <1> HIDE DEF n
  <1>5. upload.stage # "idle" => StepsLeft \in Nat \ {0}
    <2>1. upload.stage \in {"idle", "parse", "ocr"}
      BY <1>1 DEF UploadType
    <2> QED
      BY <1>2, <1>3, <1>4, <2>1
  <1>6. CASE TextParserReads \/ ParserEscapes \/ ChainExhausted \/ PageEscapes \/ FinishOcr
    <2>1. upload' = NoUpload
      BY <1>6 DEF TextParserReads, ParserEscapes, ChainExhausted, PageEscapes, FinishOcr, Abandoned, Store
    <2>2. upload'.stage = "idle"
      BY <2>1 DEF NoUpload
    <2>3. StepsLeft' = 0
      BY <2>2 DEF StepsLeft
    <2> QED
      BY <1>5, <2>2, <2>3 DEF UsesUpStep
  <1>7. CASE ParserRaises
    <2>1. /\ upload.stage = "parse" /\ upload'.stage = "parse" /\ upload'.file = upload.file
          /\ upload'.rung = upload.rung + 1
      BY <1>1, <1>7 DEF ParserRaises, UploadType
    <2>2. StepsLeft' = 2 * n + 6 - (upload.rung + 1)
      BY <2>1 DEF StepsLeft, n
    <2>3. StepsLeft' < StepsLeft
      BY <1>2, <1>3, <2>1, <2>2
    <2> QED
      BY <1>5, <2>1, <2>3 DEF UsesUpStep
  <1>8. CASE StartOcr
    <2>1. upload.stage = "parse" /\ upload.rung = 3 /\ upload'.stage = "ocr"
      BY <1>1, <1>8 DEF StartOcr, UploadType
    <2>2. UploadInv'
      BY <1>8, StartOcrKeeps DEF Inv
    <2>3. /\ Len(upload'.pages) = n /\ upload'.pages \in Seq(PageStates)
          /\ \A p \in 1..n : upload'.pages[p] \in {"waiting", "no_image"}
      <3>1. upload'.pages = [p \in DOMAIN upload.file.pages |->
               IF upload.file.pages[p].layer = "scan" THEN "waiting" ELSE "no_image"]
        BY <1>1, <1>8 DEF StartOcr, UploadType
      <3>2. DOMAIN upload.file.pages = 1..n
        BY <1>1, PageIs DEF n
      <3> QED
        BY <1>2, <3>1, <3>2 DEF PageStates
    <2>4. StateIn(upload'.pages, "sent") = {}
      BY <2>3 DEF StateIn
    <2>5. Cardinality(StateIn(upload'.pages, "sent")) = 0
      BY <2>4, FS_EmptySet
    <2>6. /\ Cardinality(StateIn(upload'.pages, "waiting")) \in Nat
          /\ Cardinality(StateIn(upload'.pages, "waiting")) <= n
      <3>1. StateIn(upload'.pages, "waiting") \in SUBSET (1..n)
        BY <2>3 DEF StateIn
      <3>2. IsFiniteSet(1..n) /\ Cardinality(1..n) = IF 1 > n THEN 0 ELSE n - 1 + 1
        BY <1>2, FS_Interval
      <3>3. Cardinality(1..n) = n
        BY <1>2, <3>2
      <3> QED
        BY <3>1, <3>2, <3>3, FS_Subset, FS_CardinalityType
    <2>7. StepsLeft' = 2 * Cardinality(StateIn(upload'.pages, "waiting"))
                          + Cardinality(StateIn(upload'.pages, "sent")) + 1
      BY <2>1 DEF StepsLeft
    <2>8. StepsLeft' < StepsLeft
      BY <1>2, <1>3, <2>1, <2>5, <2>6, <2>7
    <2> QED
      BY <1>5, <2>1, <2>8 DEF UsesUpStep
  <1>9. CASE SendPage \/ PageTranscribed \/ PageFails
    BY <1>9, PagesGoOn DEF UsesUpStep
  <1>10. CASE Upload
    <2>1. upload.stage = "idle" /\ upload'.stage = "parse" /\ upload'.rung = 1
      BY <1>10 DEF Upload, NoUpload
    <2>2. upload' \in UploadType /\ upload'.file \in FileType
      BY <1>10, UploadKeeps DEF Inv, UploadInv, UploadType
    <2>3. Len(upload'.file.pages) \in Nat
      BY <2>2, PageIs
    <2>4. StepsLeft' = 2 * Len(upload'.file.pages) + 6 - 1
      BY <2>1 DEF StepsLeft
    <2> QED
      BY <2>1, <2>3, <2>4 DEF UsesUpStep
  <1>11. CASE IngestQuestions
    BY <1>11 DEF IngestQuestions, UsesUpStep
  <1> QED
    BY <1>6, <1>7, <1>8, <1>9, <1>10, <1>11 DEF Next, UploadStep

\* An upload of n pages takes at most 2 n + 5 steps, whatever its parsers and its
\* pages do: no parser is tried twice, and no page is sent twice (parse,
\* _transcribe_one).
THEOREM UploadIsBounded == Spec => [][UsesUpStep]_vars
  <1>1. Init => RungOK
    BY DEF Init, NoUpload, RungOK
  <1>2. Inv /\ RungOK /\ [Next]_vars => RungOK'
    BY RungStep
  <1>3. Inv /\ RungOK /\ [Next]_vars => [UsesUpStep]_vars
    BY UploadGoesOn
  <1> QED
    BY Invariance, <1>1, <1>2, <1>3, PTL DEF Spec

=============================================================================
