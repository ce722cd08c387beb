------------------------------ MODULE EinkctlProofs ------------------------------
(***************************************************************************)
(* Theorems of Einkctl, for every input, width and page height.               *)
(*                                                                         *)
(* The text: what has been read of the input has become at most four times    *)
(* as much (FitsBuffer); what is before the cursor is on the lines, but for   *)
(* blanks (Covered); and each line is behind the one before it (Ordered).     *)
(* A line is full when it is split, and stays so (FullInv).                    *)
(* The GPIO lines: Accounted, LinesInv.                                      *)
(* The panel: what it has done at each step of the run (PanelInv).            *)
(***************************************************************************)
EXTENDS Einkctl, FiniteSetTheorems, SequenceTheorems, WellFoundedInduction, TLAPS

Symbols == {"x", " ", "\n"}
Stretches == [first : Nat, length : Nat]

TextInv ==
  /\ phase \in {"none", "sanitize", "wrap", "laid"}
  /\ input \in Seq(Bytes) /\ text \in Seq(Symbols) /\ source \in 0 .. Len(input)
  /\ cursor \in Nat /\ rows \in Seq(Stretches)
  /\ phase \in {"none", "sanitize"} => cursor = 0 /\ rows = <<>>
  /\ phase = "laid" => cursor >= Len(text)
  /\ phase = "none" => source = 0 /\ text = <<>> /\ input = <<>>

Blank(i) == At(i) \in {" ", "\n"}
Covered == \A i \in 0 .. Len(text) - 1 :
  i < cursor /\ ~Blank(i) => \E k \in 1 .. Len(rows) : Has(rows[k], i)
End(k) == rows[k].first + rows[k].length
Ordered ==
  /\ \A k \in 1 .. Len(rows) : End(k) <= cursor /\ End(k) <= Len(text) /\ rows[k].length <= Columns
  /\ \A j, k \in 1 .. Len(rows) : j < k => End(j) <= rows[k].first
LayoutInv == TextInv /\ FitsBuffer /\ Covered /\ Ordered
-----------------------------------------------------------------------------
LEMMA MinOfNats ==
  ASSUME NEW S \in SUBSET Nat, S # {}
  PROVE  Min(S) \in S /\ \A y \in S : Min(S) <= y
<1>1. PICK m \in S : \A y \in S : ~(<<y, m>> \in OpToRel(<, Nat))
  BY WFMin, NatLessThanWellFounded
<1>2. ASSUME NEW y \in S, y < m PROVE FALSE
  <2>1. <<y, m>> \in OpToRel(<, Nat)
    BY <1>2 DEF OpToRel
  <2> QED BY <1>1, <2>1
<1>3. \A y \in S : m <= y
  BY <1>2
<1> QED BY <1>3 DEF Min

LEMMA MaxOfNats ==
  ASSUME NEW n \in Nat, NEW S \in SUBSET (0 .. n), S # {}
  PROVE  Max(S) \in S /\ \A y \in S : y <= Max(S)
<1> DEFINE T == {n - s : s \in S}
<1>1. T \in SUBSET Nat /\ T # {}
  <2>1. \A s \in S : n - s \in Nat
    OBVIOUS
  <2> QED BY <2>1
<1>2. Min(T) \in T /\ \A y \in T : Min(T) <= y
  BY <1>1, MinOfNats
<1>3. PICK s \in S : Min(T) = n - s
  BY <1>2
<1>4. \A y \in S : n - s <= n - y
  BY <1>2, <1>3
<1>5. \A y \in S : s >= y
  BY <1>4
<1> QED BY <1>5 DEF Max
-----------------------------------------------------------------------------
\* A round of sanitize_text that takes n bytes and gives at most four for each of them.
LEMMA RoundSafe ==
  ASSUME LayoutInv, phase = "sanitize",
         NEW n \in Nat, NEW out \in Seq(Symbols), Len(out) <= 4 * n, source + n <= Len(input),
         source' = source + n, text' = text \o out, UNCHANGED <<phase, input, cursor, rows>>
  PROVE  LayoutInv'
<1>1. text' \in Seq(Symbols) /\ Len(text') = Len(text) + Len(out)
  BY DEF LayoutInv, TextInv
<1>2. Len(input) \in Nat /\ Len(text) \in Nat /\ Len(out) \in Nat /\ source \in Nat
  BY DEF LayoutInv, TextInv
<1>3. TextInv'
  BY <1>1, <1>2 DEF LayoutInv, TextInv
<1>4. FitsBuffer'
  BY <1>1, <1>2 DEF LayoutInv, FitsBuffer
<1>5. cursor' = 0 /\ Len(rows') = 0
  BY DEF LayoutInv, TextInv
<1>6. Covered'
  <2> SUFFICES ASSUME NEW i \in 0 .. Len(text') - 1, i < cursor' PROVE FALSE
    BY DEF Covered
  <2> QED BY <1>1, <1>2, <1>5
<1>7. Ordered'
  BY <1>5 DEF Ordered
<1> QED BY <1>3, <1>4, <1>6, <1>7 DEF LayoutInv

LEMMA BlanksWidth ==
  ASSUME NEW m \in Nat PROVE Blanks(m) \in Seq(Symbols) /\ Len(Blanks(m)) = m
BY DEF Blanks, Symbols

LEMMA TabWidth == ASSUME LayoutInv PROVE Tab \in Seq(Symbols) /\ Len(Tab) <= 4
<1> DEFINE n == 4 - (Len(text) % 4)
<1>1. n \in Nat /\ n <= 4
  BY DEF LayoutInv, TextInv
<1>2. Tab = Blanks(n)
  BY DEF Tab
<1> HIDE DEF n
<1> QED BY <1>1, <1>2, BlanksWidth

LEMMA SanitizeSafe == ASSUME LayoutInv, Sanitize PROVE LayoutInv'
<1> DEFINE Round(n, out) == source' = source + n /\ text' = text \o out
<1>1. /\ phase = "sanitize" /\ source < Len(input) /\ source \in Nat /\ Len(input) \in Nat
      /\ UNCHANGED <<phase, input, cursor, rows>>
  BY DEF Sanitize, LayoutInv, TextInv
<1>2. <<>> \in Seq(Symbols) /\ <<" ">> \in Seq(Symbols) /\ <<"\n">> \in Seq(Symbols) /\ <<"x">> \in Seq(Symbols)
  BY DEF Symbols
<1>3. CASE InEscape
  <2>1. Round(1, <<>>) \/ (Round(2, <<>>) /\ Follows("\\"))
    BY <1>3 DEF InEscape, Consume
  <2>2. \E n \in {1, 2} : Round(n, <<>>) /\ source + n <= Len(input)
    BY <1>1, <2>1 DEF Follows
  <2>3. PICK n \in {1, 2} : Round(n, <<>>) /\ source + n <= Len(input)
    BY <2>2
  <2>4. n \in Nat /\ Len(<<>>) <= 4 * n
    OBVIOUS
  <2> QED BY <1>1, <1>2, <2>3, <2>4, RoundSafe
<1>4. CASE Plain
  <2>1. CASE Round(1, <<>>)
    <3>1. 1 \in Nat /\ source + 1 <= Len(input) /\ Len(<<>>) <= 4 * 1
      BY <1>1
    <3> QED BY <1>1, <1>2, <2>1, <3>1, RoundSafe
  <2>2. ASSUME NEW c \in Symbols, Round(1, <<c>>) PROVE LayoutInv'
    <3>1. /\ 1 \in Nat /\ source + 1 <= Len(input)
          /\ <<c>> \in Seq(Symbols) /\ Len(<<c>>) <= 4 * 1
      BY <1>1
    <3> QED BY <1>1, <2>2, <3>1, RoundSafe
  <2>3. CASE Round(1, Tab)
    <3>1. 1 \in Nat /\ source + 1 <= Len(input) /\ Len(Tab) <= 4 * 1
      BY <1>1, TabWidth
    <3> QED BY <1>1, <2>3, <3>1, TabWidth, RoundSafe
  <2>4. CASE Byte \in {"lead", "continuation"}
    <3> DEFINE others == {i \in source + 2 .. Len(input) : input[i] # "continuation"}
               after == Min(others \cup {Len(input) + 1})
    <3>1. after \in others \cup {Len(input) + 1}
      <4>1. others \cup {Len(input) + 1} \in SUBSET Nat
        BY <1>1
      <4> QED BY <4>1, MinOfNats
    <3>2. after \in source + 2 .. Len(input) + 1
      BY <1>1, <3>1
    <3>3. Round(after - source - 1, <<"x">>)
      BY <1>4, <2>4 DEF Plain, Consume, Printable
    <3>4. after - source - 1 \in Nat /\ source + (after - source - 1) <= Len(input)
          /\ Len(<<"x">>) <= 4 * (after - source - 1)
      BY <1>1, <3>2
    <3> HIDE DEF after
    <3> QED BY <1>1, <1>2, <3>3, <3>4, RoundSafe
  <2> QED BY <1>4, <2>1, <2>2, <2>3, <2>4 DEF Plain, Consume, Printable, Symbols
<1> QED BY <1>3, <1>4 DEF Sanitize

-----------------------------------------------------------------------------
LEMMA FirstOf ==
  ASSUME NEW a \in Nat, NEW b \in Nat, a <= b, NEW T \in SUBSET (a .. b - 1)
  PROVE  /\ Min(T \cup {b}) \in a .. b /\ Min(T \cup {b}) \in T \cup {b}
         /\ \A i \in T : Min(T \cup {b}) <= i
<1>1. T \cup {b} \in SUBSET Nat
  OBVIOUS
<1>2. T \cup {b} # {}
  OBVIOUS
<1>3. Min(T \cup {b}) \in T \cup {b} /\ \A y \in T \cup {b} : Min(T \cup {b}) <= y
  BY <1>1, <1>2, MinOfNats
<1>4. \A i \in T : Min(T \cup {b}) <= i
  BY <1>3
<1>5. T \cup {b} \in SUBSET (a .. b)
  OBVIOUS
<1> QED BY <1>3, <1>4, <1>5

\* Where wrap_text ends the physical line, where it splits it, and where it goes on.
LEMMA EndOfLine ==
  ASSUME LayoutInv, phase = "wrap", cursor < Len(text)
  PROVE  PhysicalEnd \in cursor .. Len(text) /\ (PhysicalEnd < Len(text) => At(PhysicalEnd) = "\n")
<1> DEFINE T == {i \in cursor .. Len(text) - 1 : At(i) = "\n"}
<1>1. cursor \in Nat /\ Len(text) \in Nat
  BY DEF LayoutInv, TextInv
<1>2. T \in SUBSET (cursor .. Len(text) - 1)
  OBVIOUS
<1>3. PhysicalEnd = Min(T \cup {Len(text)})
  BY DEF PhysicalEnd
<1>4. \A i \in T : At(i) = "\n"
  OBVIOUS
<1> HIDE DEF T
<1>5. PhysicalEnd \in cursor .. Len(text) /\ PhysicalEnd \in T \cup {Len(text)}
  <2>1. cursor <= Len(text)
    BY <1>1
  <2> QED BY ONLY <1>1, <1>2, <1>3, <2>1, FirstOf
<1> QED BY <1>1, <1>4, <1>5

LEMMA SplitFits ==
  ASSUME LayoutInv, phase = "wrap", cursor < Len(text)
  PROVE  Split \in 0 .. Columns /\ cursor + Split <= PhysicalEnd
<1>1. cursor \in Nat /\ Len(text) \in Nat /\ Columns \in Nat /\ PhysicalEnd \in Nat /\ cursor <= PhysicalEnd
  BY EndOfLine, LayoutAssumption DEF LayoutInv, TextInv
<1>2. CASE PhysicalEnd - cursor <= Columns
  BY <1>1, <1>2 DEF Split
<1>3. CASE ~(PhysicalEnd - cursor <= Columns)
  <2> DEFINE T == {i \in 1 .. Columns : At(cursor + i) = " "}
             last == Max(T \cup {0})
  <2>1. T \in SUBSET (1 .. Columns)
    OBVIOUS
  <2>2. Split = IF last < Columns \div 3 THEN Columns ELSE last
    BY <1>3 DEF Split, SplitAt
  <2> HIDE DEF T
  <2>3. T \cup {0} \in SUBSET (0 .. Columns)
    BY <1>1, <2>1
  <2>4. last \in T \cup {0}
    BY <1>1, <2>3, MaxOfNats
  <2>5. last \in 0 .. Columns
    BY <2>3, <2>4
  <2> HIDE DEF last
  <2>6. Split \in 0 .. Columns
    BY <1>1, <2>2, <2>5
  <2> QED BY <1>1, <1>3, <2>6
<1> QED BY <1>2, <1>3

LEMMA OnlyBlanksSkipped ==
  ASSUME LayoutInv, phase = "wrap", cursor < Len(text), NEW from \in cursor .. PhysicalEnd
  PROVE  /\ NextCursor(from) \in Nat /\ from <= NextCursor(from)
         /\ \A i \in from .. Len(text) - 1 : i < NextCursor(from) => Blank(i)
<1> DEFINE T == {i \in from .. PhysicalEnd - 1 : At(i) # " "}
           next == Min(T \cup {PhysicalEnd})
<1>1. cursor \in Nat /\ Len(text) \in Nat /\ PhysicalEnd \in Nat /\ from \in Nat /\ from <= PhysicalEnd
      /\ PhysicalEnd <= Len(text)
  BY EndOfLine DEF LayoutInv, TextInv
<1>2. T \in SUBSET (from .. PhysicalEnd - 1)
  OBVIOUS
<1>3. \A i \in from .. PhysicalEnd - 1 : i \notin T => At(i) = " "
  OBVIOUS
<1>4. NextCursor(from) = IF next = PhysicalEnd THEN next + 1 ELSE next
  BY DEF NextCursor
<1> HIDE DEF T
<1>5. next \in from .. PhysicalEnd /\ \A i \in T : next <= i
  BY <1>1, <1>2, FirstOf
<1> HIDE DEF next
<1>6. PhysicalEnd < Len(text) => At(PhysicalEnd) = "\n"
  BY EndOfLine
<1>7. ASSUME NEW i \in from .. Len(text) - 1, i < NextCursor(from) PROVE Blank(i)
  <2>1. CASE i < next
    <3>1. i \in from .. PhysicalEnd - 1 /\ i \notin T
      BY <1>1, <1>5, <2>1
    <3> QED BY <1>3, <3>1 DEF Blank
  <2>2. CASE ~(i < next)
    <3>1. i = PhysicalEnd /\ i < Len(text)
      BY <1>1, <1>4, <1>5, <1>7, <2>2
    <3> QED BY <1>6, <3>1 DEF Blank
  <2> QED BY <2>1, <2>2
<1>8. NextCursor(from) \in Nat /\ from <= NextCursor(from)
  BY <1>1, <1>4, <1>5
<1> QED BY <1>7, <1>8

\* A line behind all others, at the cursor or behind it, after which only blanks are skipped.
Behind(start, width, next) ==
  /\ width <= Columns /\ start + width <= Len(text) /\ cursor <= next /\ start + width <= next
  /\ \A k \in 1 .. Len(rows) : End(k) <= start
  /\ \A i \in 0 .. Len(text) - 1 : cursor <= i /\ i < next /\ ~Blank(i) =>
       start <= i /\ i < start + width
PushStep(start, width, next) ==
  /\ UNCHANGED <<input, source, text>> /\ rows' = Pushed(start, width) /\ cursor' = next
  /\ phase' \in {"wrap", "laid"} /\ (phase' = "laid" => cursor' >= Len(text))

LEMMA PushSafe ==
  ASSUME LayoutInv, NEW start \in Nat, NEW width \in Nat, NEW next \in Nat,
         Behind(start, width, next), PushStep(start, width, next)
  PROVE  LayoutInv'
<1> DEFINE line == [first |-> start, length |-> width]
<1>1. Columns \in Nat /\ width <= Columns /\ Len(text) \in Nat /\ cursor \in Nat
  <2>1. width <= Columns
    BY DEF Behind
  <2> QED BY <2>1, LayoutAssumption DEF LayoutInv, TextInv
<1>2. Min({width, Columns}) = width
  <2>1. {width, Columns} \in SUBSET Nat /\ {width, Columns} # {}
    BY <1>1
  <2>2. Min({width, Columns}) \in {width, Columns} /\ Min({width, Columns}) <= width
    BY <2>1, MinOfNats
  <2> QED BY <1>1, <2>2
<1>3. rows' = Append(rows, line)
  BY <1>2 DEF Pushed, PushStep
<1>4. rows \in Seq(Stretches) /\ line \in Stretches
  BY <1>1 DEF LayoutInv, TextInv, Stretches
<1>5. /\ rows' \in Seq(Stretches) /\ Len(rows') = Len(rows) + 1 /\ Len(rows) \in Nat
      /\ \A k \in 1 .. Len(rows) : rows'[k] = rows[k]
      /\ rows'[Len(rows) + 1] = line
  BY <1>3, <1>4
<1>6. line.first = start /\ line.length = width
  OBVIOUS
<1>7. \A k \in 1 .. Len(rows) : rows[k].first \in Nat /\ rows[k].length \in Nat
  <2>1. \A k \in 1 .. Len(rows) : rows[k] \in Stretches
    BY <1>4
  <2> QED BY <2>1 DEF Stretches
<1> HIDE DEF line
<1>8. TextInv'
  BY <1>1, <1>5 DEF LayoutInv, TextInv, PushStep
<1>9. FitsBuffer'
  BY DEF LayoutInv, FitsBuffer, PushStep
<1>10. Covered'
  <2> SUFFICES ASSUME NEW i \in 0 .. Len(text) - 1, i < next, ~Blank(i)
               PROVE  \E k \in 1 .. Len(rows') : Has(rows'[k], i)
    BY DEF Covered, Blank, At, PushStep
  <2>1. CASE i < cursor
    <3>1. PICK k \in 1 .. Len(rows) : Has(rows[k], i)
      BY <2>1 DEF LayoutInv, Covered
    <3>2. k \in 1 .. Len(rows') /\ rows'[k] = rows[k]
      BY <1>5
    <3> QED BY <3>1, <3>2
  <2>2. CASE cursor <= i
    <3>1. start <= i /\ i < start + width
      BY <2>2 DEF Behind
    <3>2. Has(line, i)
      BY <1>6, <3>1 DEF Has
    <3>3. Len(rows) + 1 \in 1 .. Len(rows') /\ rows'[Len(rows) + 1] = line
      BY <1>5
    <3> QED BY <3>2, <3>3
  <2> QED BY <1>1, <2>1, <2>2
<1>11. Ordered'
  <2>1. ASSUME NEW k \in 1 .. Len(rows') PROVE
          /\ rows'[k].first + rows'[k].length <= next /\ rows'[k].first + rows'[k].length <= Len(text)
          /\ rows'[k].length <= Columns
    <3>1. CASE k \in 1 .. Len(rows)
      BY <1>1, <1>5, <1>7, <3>1 DEF LayoutInv, Ordered, End, Behind
    <3>2. CASE k = Len(rows) + 1
      BY <1>1, <1>5, <1>6, <3>2 DEF Behind
    <3> QED BY <1>5, <3>1, <3>2
  <2>2. ASSUME NEW j \in 1 .. Len(rows'), NEW k \in 1 .. Len(rows'), j < k
        PROVE  rows'[j].first + rows'[j].length <= rows'[k].first
    <3>1. j \in 1 .. Len(rows)
      BY <1>5, <2>2
    <3>2. CASE k \in 1 .. Len(rows)
      BY <1>5, <2>2, <3>1, <3>2 DEF LayoutInv, Ordered, End
    <3>3. CASE k = Len(rows) + 1
      BY <1>5, <1>6, <3>1, <3>3 DEF End, Behind
    <3> QED BY <1>5, <3>2, <3>3
  <2> QED BY <2>1, <2>2 DEF Ordered, End, PushStep
<1> QED BY <1>8, <1>9, <1>10, <1>11 DEF LayoutInv

LEMMA WrapSafe == ASSUME LayoutInv, WrapLine PROVE LayoutInv'
<1>1. /\ phase = "wrap" /\ phase' = "wrap" /\ cursor < Len(text) /\ UNCHANGED <<input, source, text>>
      /\ rows' = Pushed(cursor, Split) /\ cursor' = NextCursor(cursor + Split)
  BY DEF WrapLine
<1>2. cursor \in Nat /\ Len(text) \in Nat /\ \A k \in 1 .. Len(rows) : End(k) <= cursor
  BY DEF LayoutInv, TextInv, Ordered
<1>3. Split \in 0 .. Columns /\ cursor + Split <= PhysicalEnd /\ PhysicalEnd \in cursor .. Len(text)
  BY <1>1, SplitFits, EndOfLine
<1> DEFINE from == cursor + Split
           next == NextCursor(from)
<1>4. Split \in Nat /\ from \in cursor .. PhysicalEnd /\ from <= Len(text)
  BY <1>2, <1>3
<1>5. /\ next \in Nat /\ from <= next
      /\ \A i \in from .. Len(text) - 1 : i < next => Blank(i)
  BY <1>1, <1>4, OnlyBlanksSkipped
<1> HIDE DEF next
<1>6. ASSUME NEW i \in 0 .. Len(text) - 1, cursor <= i, i < next, ~Blank(i)
      PROVE  i < from
  <2>1. CASE i \in from .. Len(text) - 1
    BY <1>5, <1>6, <2>1
  <2> QED BY <1>2, <1>4, <2>1
<1>7. cursor <= next /\ from \in Nat
  <2> HIDE DEF from
  <2> QED BY <1>2, <1>3, <1>4, <1>5
<1>8. cursor' = next
  BY <1>1 DEF next
<1>9. Behind(cursor, Split, next) /\ PushStep(cursor, Split, next)
  BY <1>1, <1>2, <1>3, <1>4, <1>5, <1>6, <1>7, <1>8 DEF Behind, PushStep
<1> QED BY <1>2, <1>4, <1>5, <1>9, PushSafe

LEMMA WrappedSafe == ASSUME LayoutInv, Wrapped PROVE LayoutInv'
<1>1. /\ phase = "wrap" /\ phase' = "laid" /\ cursor >= Len(text) /\ UNCHANGED <<input, source, text, cursor>>
      /\ rows' = rows \/ rows' = Pushed(Len(text), 0)
  BY DEF Wrapped
<1>2. cursor \in Nat /\ Len(text) \in Nat /\ (\A k \in 1 .. Len(rows) : End(k) <= Len(text)) /\ Columns \in Nat
  BY LayoutAssumption DEF LayoutInv, TextInv, Ordered
<1>3. CASE rows' = rows
  <2>1. TextInv'
    BY <1>1, <1>3 DEF LayoutInv, TextInv
  <2>2. FitsBuffer' /\ Covered' /\ Ordered'
    BY <1>1, <1>3 DEF LayoutInv, FitsBuffer, Covered, Ordered, End, Blank, At
  <2> QED BY <2>1, <2>2 DEF LayoutInv
<1>4. CASE rows' = Pushed(Len(text), 0)
  <2>1. 0 \in 0 .. Columns /\ Len(text) + 0 <= Len(text) /\ Len(text) + 0 <= cursor
    BY <1>1, <1>2
  <2>2. ASSUME NEW i \in 0 .. Len(text) - 1, cursor <= i PROVE FALSE
    BY <1>1, <1>2, <2>2
  <2>3. cursor' = cursor /\ cursor <= cursor /\ cursor' >= Len(text)
    BY <1>1, <1>2
  <2>4. Behind(Len(text), 0, cursor) /\ PushStep(Len(text), 0, cursor)
    BY <1>1, <1>2, <1>4, <2>1, <2>2, <2>3 DEF Behind, PushStep
  <2> QED BY <1>2, <2>4, PushSafe
<1> QED BY <1>1, <1>3, <1>4

-----------------------------------------------------------------------------
LEMMA LayoutKept == ASSUME LayoutInv, UNCHANGED layout PROVE LayoutInv'
<1>1. TextInv'
  BY DEF LayoutInv, TextInv, layout
<1>2. FitsBuffer' /\ Covered' /\ Ordered'
  BY DEF LayoutInv, FitsBuffer, Covered, Ordered, End, Blank, At, layout
<1> QED BY <1>1, <1>2 DEF LayoutInv

\* No text, or one none of which has been read.
LEMMA EmptyLayout ==
  ASSUME LayoutInv, text' = <<>>, source' = 0, cursor' = 0, rows' = <<>>, input' \in Seq(Bytes),
         phase' = "sanitize" \/ (phase' = "none" /\ input' = <<>>)
  PROVE  LayoutInv'
<1>1. Len(text') = 0 /\ Len(rows') = 0 /\ Len(input') \in Nat
  OBVIOUS
<1>2. TextInv'
  <2>1. <<>> \in Seq(Symbols) /\ <<>> \in Seq(Stretches)
    OBVIOUS
  <2> QED BY <1>1, <2>1 DEF TextInv
<1>3. FitsBuffer'
  BY <1>1 DEF FitsBuffer
<1>4. Covered'
  <2> SUFFICES ASSUME NEW i \in 0 .. Len(text') - 1, i < cursor' PROVE FALSE
    BY DEF Covered
  <2> QED BY <1>1
<1>5. Ordered'
  BY <1>1 DEF Ordered
<1> QED BY <1>2, <1>3, <1>4, <1>5 DEF LayoutInv

LEMMA SanitizedSafe == ASSUME LayoutInv, Sanitized PROVE LayoutInv'
<1>1. TextInv'
  BY DEF LayoutInv, TextInv, Sanitized
<1>2. FitsBuffer' /\ Covered' /\ Ordered'
  BY DEF LayoutInv, FitsBuffer, Covered, Ordered, End, Blank, At, Sanitized
<1> QED BY <1>1, <1>2 DEF LayoutInv

LEMMA ReadSafe == ASSUME LayoutInv, Idle, NEW bytes \in Readable, Read(bytes) PROVE LayoutInv'
<1>1. CASE UNCHANGED layout
  BY <1>1, LayoutKept
<1>2. CASE BeginLayout(bytes)
  <2>1. bytes \in Seq(Bytes)
    BY InputsAssumption DEF Readable
  <2>2. source = 0 /\ text = <<>> /\ cursor = 0 /\ rows = <<>>
    BY DEF Idle, LayoutInv, TextInv
  <2> QED BY <1>2, <2>1, <2>2, EmptyLayout DEF BeginLayout
<1> QED BY <1>1, <1>2 DEF Read

LEMMA LayoutStep == ASSUME LayoutInv, [EinkctlNext]_<<layout, vars>> PROVE LayoutInv'
<1>1. CASE UNCHANGED layout
  BY <1>1, LayoutKept
<1>2. CASE NoLayout
  <2>1. input' \in Seq(Bytes)
    BY <1>2 DEF NoLayout
  <2> QED BY <1>2, <2>1, EmptyLayout DEF NoLayout
<1>3. CASE LayOut
  BY <1>3, SanitizeSafe, SanitizedSafe, WrapSafe, WrappedSafe DEF LayOut
<1>4. CASE Idle /\ \E bytes \in Readable : Read(bytes)
  BY <1>4, ReadSafe
<1> QED BY <1>1, <1>2, <1>3, <1>4 DEF EinkctlNext, Render, Display, Clear, Refuse, Interrupted

LEMMA LayoutInit == EinkctlInit => LayoutInv
<1> SUFFICES ASSUME EinkctlInit PROVE LayoutInv
  OBVIOUS
<1>1. /\ phase = "none" /\ input = <<>> /\ source = 0 /\ text = <<>> /\ cursor = 0 /\ rows = <<>>
  BY DEF EinkctlInit
<1>2. Len(text) = 0 /\ Len(rows) = 0 /\ Len(input) = 0
  BY <1>1
<1>3. TextInv
  <2>1. <<>> \in Seq(Symbols) /\ <<>> \in Seq(Stretches) /\ <<>> \in Seq(Bytes)
    OBVIOUS
  <2> QED BY <1>1, <1>2, <2>1 DEF TextInv
<1>4. Covered
  <2> SUFFICES ASSUME NEW i \in 0 .. Len(text) - 1, i < cursor PROVE FALSE
    BY DEF Covered
  <2> QED BY <1>1, <1>2
<1> QED BY <1>1, <1>2, <1>3, <1>4 DEF LayoutInv, FitsBuffer, Ordered

THEOREM LayoutInvariant == EinkctlSpec => []LayoutInv
<1>1. LayoutInv /\ [EinkctlNext]_<<layout, vars>> => LayoutInv'
  BY LayoutStep
<1> QED BY <1>1, LayoutInit, PTL DEF EinkctlSpec

\* The text that is sanitized fits in the four bytes for each byte of the input that
\* render_text allocates, so sanitize_text never writes past its buffer.
THEOREM BufferFits == EinkctlSpec => []FitsBuffer
<1>1. LayoutInv => FitsBuffer
  BY DEF LayoutInv
<1> QED BY <1>1, LayoutInvariant, PTL
\* Every turn of the loops of wrap_text goes on behind where it began, so that they end: a line
\* that is empty passes its newline, and no line is split at nothing.
THEOREM WrapGoesOn == EinkctlSpec => [][WrapLine => cursor' > cursor]_<<layout, vars>>
<1>1. ASSUME LayoutInv, WrapLine PROVE cursor' > cursor
  <2>1. /\ phase = "wrap" /\ cursor < Len(text) /\ cursor' = NextCursor(cursor + Split)
        /\ cursor \in Nat /\ Len(text) \in Nat
    BY <1>1 DEF WrapLine, LayoutInv, TextInv
  <2>2. Split \in 0 .. Columns /\ cursor + Split <= PhysicalEnd /\ PhysicalEnd \in cursor .. Len(text)
    BY <1>1, <2>1, SplitFits, EndOfLine
  <2>3. Columns \in Nat /\ 0 < Columns \div 3
    BY LayoutAssumption
  <2> DEFINE from == cursor + Split
  <2>4. from \in cursor .. PhysicalEnd
    BY <2>1, <2>2, <2>3
  <2>5. NextCursor(from) \in Nat /\ from <= NextCursor(from)
    BY <1>1, <2>1, <2>4, OnlyBlanksSkipped
  <2>6. CASE PhysicalEnd = cursor
    <3>1. from = PhysicalEnd
      BY <2>1, <2>4, <2>6
    <3> DEFINE T == {i \in PhysicalEnd .. PhysicalEnd - 1 : At(i) # " "}
    <3>2. T = {}
      <4>1. T \in SUBSET (PhysicalEnd .. PhysicalEnd - 1)
        OBVIOUS
      <4> HIDE DEF T
      <4>2. PhysicalEnd \in Nat
        BY <2>1, <2>6
      <4> QED BY <4>1, <4>2
    <3>3. NextCursor(PhysicalEnd) = IF Min(T \cup {PhysicalEnd}) = PhysicalEnd THEN Min(T \cup {PhysicalEnd}) + 1
                                    ELSE Min(T \cup {PhysicalEnd})
      BY DEF NextCursor
    <3> HIDE DEF T
    <3>4. Min(T \cup {PhysicalEnd}) = PhysicalEnd
      <4>1. T \cup {PhysicalEnd} \in SUBSET Nat /\ T \cup {PhysicalEnd} # {}
        BY <2>1, <2>6, <3>2
      <4> QED BY <3>2, <4>1, MinOfNats
    <3>5. NextCursor(from) = cursor + 1
      BY <2>6, <3>1, <3>3, <3>4
    <3> QED BY <2>1, <3>5
  <2>7. CASE PhysicalEnd # cursor
    <3>1. Split # 0
      <4>1. CASE PhysicalEnd - cursor <= Columns
        BY <2>1, <2>2, <2>3, <2>7, <4>1 DEF Split
      <4>2. CASE ~(PhysicalEnd - cursor <= Columns)
        <5> DEFINE last == Max({i \in 1 .. Columns : At(cursor + i) = " "} \cup {0})
        <5>1. Split = IF last < Columns \div 3 THEN Columns ELSE last
          BY <4>2 DEF Split, SplitAt
        <5> HIDE DEF last
        <5>2. CASE last < Columns \div 3
          BY <2>3, <5>1, <5>2, LayoutAssumption
        <5>3. CASE ~(last < Columns \div 3)
          BY <2>3, <5>1, <5>3
        <5> QED BY <5>2, <5>3
      <4> QED BY <4>1, <4>2
    <3>2. from \in Nat /\ cursor < from
      BY <2>1, <2>2, <2>3, <3>1
    <3> HIDE DEF from
    <3> QED BY <2>1, <2>5, <3>2 DEF from
  <2> QED BY <2>6, <2>7
<1>2. LayoutInv /\ [EinkctlNext]_<<layout, vars>> => [WrapLine => cursor' > cursor]_<<layout, vars>>
  BY <1>1
<1> QED BY <1>2, LayoutInvariant, PTL DEF EinkctlSpec
-----------------------------------------------------------------------------
(* The pages *)

LEMMA DivMod ==
  ASSUME NEW n \in Nat, NEW d \in Nat \ {0}
  PROVE  n \div d \in Nat /\ n % d \in 0 .. d - 1 /\ n = (n \div d) * d + (n % d)
OBVIOUS

LEMMA NextMultiple ==
  ASSUME NEW a \in Nat, NEW b \in Nat, NEW d \in Nat, a < b
  PROVE  a * d \in Nat /\ b * d \in Nat /\ a * d + d <= b * d
<1>1. (a + 1) * d <= b * d
  OBVIOUS
<1> QED BY <1>1

LEMMA PartOfSeq ==
  ASSUME NEW S, NEW s \in Seq(S), NEW q \in Nat, NEW e \in Nat, e <= Len(s)
  PROVE  /\ \A k \in Nat \ {0} : k \in DOMAIN SubSeq(s, q + 1, e) <=> q + k <= e
         /\ \A k \in DOMAIN SubSeq(s, q + 1, e) : SubSeq(s, q + 1, e)[k] = s[q + k]
OBVIOUS

\* The lines of a page.
LEMMA PageLine ==
  ASSUME LayoutInv, NEW page \in Nat, NEW row \in 1 .. Rows
  PROVE  /\ page * Rows \in Nat
         /\ row \in DOMAIN PageRows(page) <=> page * Rows + row <= Len(rows)
         /\ row \in DOMAIN PageRows(page) => PageRows(page)[row] = rows[page * Rows + row]
<1> DEFINE q == page * Rows
           e == Min({q + Rows, Len(rows)})
<1>1. Rows \in Nat /\ rows \in Seq(Stretches) /\ Len(rows) \in Nat
  BY LayoutAssumption DEF LayoutInv, TextInv
<1>2. q \in Nat /\ (page + 1) * Rows = q + Rows
  BY <1>1
<1>3. PageRows(page) = SubSeq(rows, q + 1, e)
  BY <1>2 DEF PageRows
<1> HIDE DEF q
<1>4. e \in {q + Rows, Len(rows)} /\ e <= q + Rows /\ e <= Len(rows)
  <2>1. {q + Rows, Len(rows)} \in SUBSET Nat /\ {q + Rows, Len(rows)} # {}
    BY <1>1, <1>2
  <2> QED BY <2>1, MinOfNats
<1> HIDE DEF e
<1>5. row \in Nat \ {0} /\ e \in Nat
  BY <1>1, <1>2, <1>4
<1>6. /\ row \in DOMAIN PageRows(page) <=> q + row <= e
      /\ row \in DOMAIN PageRows(page) => PageRows(page)[row] = rows[q + row]
  BY <1>1, <1>2, <1>3, <1>4, <1>5, PartOfSeq
<1>7. q + row <= e <=> q + row <= Len(rows)
  BY <1>1, <1>2, <1>4
<1> QED BY <1>2, <1>6, <1>7 DEF q

\* Each line is on a page, and on one page only.
LEMMA LineHasPlace ==
  ASSUME LayoutInv, NEW k \in 1 .. Len(rows)
  PROVE  \E page \in 0 .. Pages - 1, row \in 1 .. Rows : page * Rows + row = k
<1> DEFINE page == (k - 1) \div Rows
           full == (Len(rows) + Rows - 1) \div Rows
<1>1. Rows \in Nat \ {0} /\ Len(rows) \in Nat /\ k - 1 \in Nat /\ Len(rows) + Rows - 1 \in Nat
  BY LayoutAssumption DEF LayoutInv, TextInv
<1>2. page \in Nat /\ (k - 1) % Rows \in 0 .. Rows - 1 /\ k - 1 = page * Rows + ((k - 1) % Rows)
  BY <1>1, DivMod
<1>3. /\ full \in Nat /\ (Len(rows) + Rows - 1) % Rows \in 0 .. Rows - 1
      /\ Len(rows) + Rows - 1 = full * Rows + ((Len(rows) + Rows - 1) % Rows)
  BY <1>1, DivMod
<1>4. Pages \in Nat /\ full <= Pages
  <2>1. {full, 1} \in SUBSET Nat /\ {full, 1} # {} /\ \E n \in Nat : {full, 1} \in SUBSET (0 .. n)
    BY <1>3
  <2>2. Pages = Max({full, 1})
    BY DEF Pages
  <2> HIDE DEF full
  <2>3. Pages \in {full, 1} /\ \A y \in {full, 1} : y <= Pages
    BY <2>1, <2>2, MaxOfNats
  <2> QED BY <1>3, <2>3
<1> DEFINE row == ((k - 1) % Rows) + 1
<1>5. row \in 1 .. Rows /\ page * Rows \in Nat /\ page * Rows + row = k
  BY <1>1, <1>2
<1> HIDE DEF page, full
<1>6. page < full
  <2> SUFFICES ASSUME full <= page PROVE FALSE
    BY <1>2, <1>3
  <2>1. full * Rows \in Nat /\ full * Rows <= page * Rows
    <3>1. CASE full = page
      BY <1>5, <3>1
    <3>2. CASE full < page
      BY <1>1, <1>2, <1>3, <3>2, NextMultiple
    <3> QED BY <1>2, <1>3, <3>1, <3>2
  <2> DEFINE rest == (Len(rows) + Rows - 1) % Rows
  <2>2. rest \in 0 .. Rows - 1 /\ Len(rows) + Rows - 1 = full * Rows + rest
    BY <1>3
  <2> HIDE DEF rest, row
  <2> QED BY <1>1, <1>5, <2>1, <2>2
<1>7. page \in 0 .. Pages - 1
  BY <1>2, <1>3, <1>4, <1>6
<1> QED BY <1>5, <1>7

LEMMA PlaceUnique ==
  ASSUME NEW a \in Nat, NEW b \in Nat, NEW r \in 1 .. Rows, NEW s \in 1 .. Rows,
         a * Rows + r = b * Rows + s
  PROVE  a = b /\ r = s
<1>1. Rows \in Nat
  BY LayoutAssumption
<1>2. a * Rows \in Nat /\ b * Rows \in Nat
  BY <1>1
<1>3. ~(a < b)
  BY <1>1, <1>2, NextMultiple
<1>4. ~(b < a)
  BY <1>1, <1>2, NextMultiple
<1>5. a = b
  BY <1>3, <1>4
<1> QED BY <1>2, <1>5

LEMMA OneLine ==
  ASSUME LayoutInv, NEW i \in Nat, NEW j \in 1 .. Len(rows), NEW k \in 1 .. Len(rows),
         Has(rows[j], i), Has(rows[k], i)
  PROVE  j = k
<1>1. rows \in Seq(Stretches) /\ Len(rows) \in Nat
  BY DEF LayoutInv, TextInv
<1>2. rows[j] \in Stretches /\ rows[k] \in Stretches
  BY <1>1
<1>3. /\ rows[j].first \in Nat /\ rows[j].length \in Nat
      /\ rows[k].first \in Nat /\ rows[k].length \in Nat
  BY <1>2 DEF Stretches
<1>4. /\ rows[j].first <= i /\ i < rows[j].first + rows[j].length
      /\ rows[k].first <= i /\ i < rows[k].first + rows[k].length
  BY <1>3 DEF Has
<1>5. /\ j < k => rows[j].first + rows[j].length <= rows[k].first
      /\ k < j => rows[k].first + rows[k].length <= rows[j].first
  BY DEF LayoutInv, Ordered, End
<1> QED BY <1>1, <1>3, <1>4, <1>5

\* Whoever turns all the pages that render_text makes of a text reads every character that is
\* no blank once, in its order, for every width and height of the page.
THEOREM TextIsOnPages == EinkctlSpec => []EveryCharacterOnce
<1>1. ASSUME LayoutInv PROVE EveryCharacterOnce
  <2> SUFFICES ASSUME phase = "laid" PROVE
        /\ \A i \in 0 .. Len(text) - 1 : At(i) \notin {" ", "\n"} =>
             Cardinality({place \in [page : 0 .. Pages - 1, row : 1 .. Rows] :
               /\ place.row \in DOMAIN PageRows(place.page)
               /\ Has(PageRows(place.page)[place.row], i)}) = 1
        /\ \A k \in 2 .. Len(rows) : rows[k - 1].first + rows[k - 1].length <= rows[k].first
    BY DEF EveryCharacterOnce
  <2>1. Len(text) \in Nat /\ Len(rows) \in Nat /\ cursor >= Len(text) /\ cursor \in Nat
    BY <1>1 DEF LayoutInv, TextInv
  <2>2. ASSUME NEW i \in 0 .. Len(text) - 1, At(i) \notin {" ", "\n"} PROVE
             Cardinality({place \in [page : 0 .. Pages - 1, row : 1 .. Rows] :
               /\ place.row \in DOMAIN PageRows(place.page)
               /\ Has(PageRows(place.page)[place.row], i)}) = 1
    <3> DEFINE Shows(page, row) == row \in DOMAIN PageRows(page) /\ Has(PageRows(page)[row], i)
    <3>1. ~Blank(i) /\ i < cursor /\ i \in Nat
      <4>1. ~Blank(i)
        BY <2>2 DEF Blank
      <4> QED BY <2>1, <4>1
    <3>2. PICK k \in 1 .. Len(rows) : Has(rows[k], i)
      BY <1>1, <3>1 DEF LayoutInv, Covered
    <3>3. PICK p \in 0 .. Pages - 1, r \in 1 .. Rows : p * Rows + r = k
      BY <1>1, LineHasPlace
    <3>4. p \in Nat /\ Shows(p, r)
      BY <1>1, <2>1, <3>2, <3>3, PageLine
    <3>5. ASSUME NEW page \in 0 .. Pages - 1, NEW row \in 1 .. Rows, Shows(page, row)
          PROVE  page = p /\ row = r
      <4>1. page \in Nat
        OBVIOUS
      <4>2. page * Rows \in Nat /\ page * Rows + row <= Len(rows) /\ Has(rows[page * Rows + row], i)
        BY <1>1, <3>5, <4>1, PageLine
      <4>3. page * Rows + row \in 1 .. Len(rows)
        BY <2>1, <4>2, LayoutAssumption
      <4>4. page * Rows + row = p * Rows + r
        BY <1>1, <3>1, <3>2, <3>3, <4>2, <4>3, OneLine
      <4> QED BY <3>4, <4>1, <4>4, PlaceUnique
    <3> HIDE DEF Shows
    <3> DEFINE it == [page |-> p, row |-> r]
               places == {place \in [page : 0 .. Pages - 1, row : 1 .. Rows] : Shows(place.page, place.row)}
    <3>6. it \in places
      BY <3>4
    <3>7. \A place \in places : place = it
      BY <3>5
    <3>8. places = {it}
      BY <3>6, <3>7
    <3>9. Cardinality(places) = 1
      BY <3>8, FS_Singleton
    <3> QED BY <3>9 DEF Shows
  <2>3. ASSUME NEW k \in 2 .. Len(rows) PROVE rows[k - 1].first + rows[k - 1].length <= rows[k].first
    <3>1. k - 1 \in 1 .. Len(rows) /\ k \in 1 .. Len(rows) /\ k - 1 < k
      BY <2>1
    <3> QED BY <1>1, <3>1 DEF LayoutInv, Ordered, End
  <2> QED BY <2>2, <2>3
<1> QED BY <1>1, LayoutInvariant, PTL
-----------------------------------------------------------------------------
(* The lines are full *)

Newline(i) == At(i) = "\n"
Space(i) == At(i) = " "
\* What LinesAreFull says of a line before one that begins at next.
FullBefore(line, next) ==
  (\A i \in line.first .. next - 1 : ~Newline(i)) =>
    /\ WordEnd(next) > line.first + Columns
    /\ InWord(line.first + line.length) => \E i \in line.first .. line.first + Columns \div 3 :
         \A j \in i + 1 .. WordEnd(next) - 1 : InWord(j)
\* The lines are full, the last one if there is more text; when the cursor has passed the end of
\* the text, no newline was there.
FullInv ==
  /\ \A k \in 2 .. Len(rows) : FullBefore(rows[k - 1], rows[k].first)
  /\ phase = "wrap" /\ Len(rows) > 0 /\ cursor <= Len(text) => FullBefore(rows[Len(rows)], cursor)
  /\ cursor > Len(text) => Len(text) > 0 /\ ~Newline(Len(text) - 1)

LEMMA Kinds ==
  /\ \A i : Blank(i) <=> Newline(i) \/ Space(i)
  /\ \A i : InWord(i) <=> i \in 1 .. Len(text) - 1 /\ ~Blank(i - 1) /\ ~Blank(i)
<1>1. \A i : Blank(i) <=> Newline(i) \/ Space(i)
  BY DEF Blank, Newline, Space
<1>2. ASSUME NEW i PROVE {At(i - 1), At(i)} \cap {" ", "\n"} = {} <=> ~Blank(i - 1) /\ ~Blank(i)
  BY Zenon DEF Blank
<1> QED BY <1>1, <1>2, Zenon DEF InWord

LEMMA WordEnds ==
  ASSUME LayoutInv, NEW next \in 0 .. Len(text)
  PROVE  /\ WordEnd(next) \in next .. Len(text)
         /\ \A i \in next .. WordEnd(next) - 1 : ~Blank(i)
         /\ WordEnd(next) < Len(text) => Blank(WordEnd(next))
<1> DEFINE T == {j \in next .. Len(text) - 1 : Blank(j)}
<1>1. next \in Nat /\ Len(text) \in Nat /\ next <= Len(text)
  BY DEF LayoutInv, TextInv
<1>2. T \in SUBSET (next .. Len(text) - 1)
  OBVIOUS
<1>3. WordEnd(next) = Min(T \cup {Len(text)})
  BY DEF WordEnd, Blank
<1>4. \A i \in next .. Len(text) - 1 : Blank(i) <=> i \in T
  OBVIOUS
<1> HIDE DEF T
<1> DEFINE first == Min(T \cup {Len(text)})
<1>5. /\ first \in next .. Len(text) /\ first \in T \cup {Len(text)}
      /\ \A i \in T : first <= i
  BY ONLY <1>1, <1>2, FirstOf
<1>6. WordEnd(next) = first
  BY <1>3
<1> HIDE DEF first
<1>7. first \in Nat
  BY <1>1, <1>5
<1>8. first < Len(text) => Blank(first)
  BY <1>1, <1>4, <1>5, <1>7
<1>9. \A i \in next .. first - 1 : ~Blank(i)
  BY <1>1, <1>4, <1>5, <1>7
<1> QED BY <1>5, <1>6, <1>8, <1>9

LEMMA PhysicalLine ==
  ASSUME LayoutInv, phase = "wrap", cursor < Len(text)
  PROVE  /\ PhysicalEnd \in cursor .. Len(text) /\ PhysicalEnd < Len(text) => Newline(PhysicalEnd)
         /\ \A i \in cursor .. PhysicalEnd - 1 : ~Newline(i)
<1> DEFINE T == {i \in cursor .. Len(text) - 1 : Newline(i)}
<1>1. cursor \in Nat /\ Len(text) \in Nat /\ cursor <= Len(text)
  BY DEF LayoutInv, TextInv
<1>2. T \in SUBSET (cursor .. Len(text) - 1)
  OBVIOUS
<1>3. PhysicalEnd = Min(T \cup {Len(text)})
  BY DEF PhysicalEnd, Newline
<1>4. \A i \in cursor .. Len(text) - 1 : Newline(i) <=> i \in T
  OBVIOUS
<1> HIDE DEF T
<1>5. /\ PhysicalEnd \in cursor .. Len(text) /\ PhysicalEnd \in T \cup {Len(text)}
      /\ \A i \in T : PhysicalEnd <= i
  BY ONLY <1>1, <1>2, <1>3, FirstOf
<1> QED BY <1>1, <1>4, <1>5

\* Where the next line begins: at a character, or behind the end of the physical line.
LEMMA NextLine ==
  ASSUME LayoutInv, phase = "wrap", cursor < Len(text), NEW from \in cursor .. PhysicalEnd
  PROVE  \/ NextCursor(from) = PhysicalEnd + 1
         \/ NextCursor(from) \in from .. PhysicalEnd - 1 /\ ~Space(NextCursor(from))
<1> DEFINE T == {i \in from .. PhysicalEnd - 1 : ~Space(i)}
           next == Min(T \cup {PhysicalEnd})
<1>1. cursor \in Nat /\ Len(text) \in Nat /\ PhysicalEnd \in Nat /\ from \in Nat /\ from <= PhysicalEnd
  BY EndOfLine DEF LayoutInv, TextInv
<1>2. T \in SUBSET (from .. PhysicalEnd - 1)
  OBVIOUS
<1>3. NextCursor(from) = IF next = PhysicalEnd THEN next + 1 ELSE next
  BY DEF NextCursor, Space
<1>4. \A i \in T : i \in from .. PhysicalEnd - 1 /\ ~Space(i)
  OBVIOUS
<1> HIDE DEF T
<1>5. next \in T \cup {PhysicalEnd}
  BY ONLY <1>1, <1>2, FirstOf
<1> HIDE DEF next
<1> QED BY <1>3, <1>4, <1>5

\* Where a line that is too long is split: after a stretch without blanks that is no less than two
\* thirds of it, or at its last blank.
LEMMA WhereSplit ==
  ASSUME LayoutInv, phase = "wrap", cursor < Len(text), PhysicalEnd - cursor > Columns
  PROVE  \E last \in 0 .. Columns :
           /\ \A i \in last + 1 .. Columns : ~Space(cursor + i)
           /\ \/ last < Columns \div 3 /\ Split = Columns
              \/ last > 0 /\ Space(cursor + last) /\ Split = last
<1> DEFINE T == {i \in 1 .. Columns : Space(cursor + i)}
           last == Max(T \cup {0})
<1>1. cursor \in Nat /\ PhysicalEnd \in Nat /\ Columns \in Nat /\ Columns >= 3
  BY EndOfLine, LayoutAssumption DEF LayoutInv, TextInv
<1>2. Split = IF last < Columns \div 3 THEN Columns ELSE last
  <2>1. ~(PhysicalEnd - cursor <= Columns)
    BY <1>1
  <2> QED BY <2>1 DEF Split, SplitAt, Space
<1>3. \A i \in 1 .. Columns : Space(cursor + i) <=> i \in T
  OBVIOUS
<1>4. T \in SUBSET (1 .. Columns)
  OBVIOUS
<1> HIDE DEF T
<1>5. T \cup {0} \in SUBSET (0 .. Columns) /\ T \cup {0} # {}
  BY <1>1, <1>4
<1>6. last \in T \cup {0} /\ \A i \in T \cup {0} : i <= last
  BY <1>1, <1>5, MaxOfNats
<1> HIDE DEF last
<1>7. last \in 0 .. Columns
  BY <1>5, <1>6
<1>8. \A i \in last + 1 .. Columns : ~Space(cursor + i)
  <2> SUFFICES ASSUME NEW i \in last + 1 .. Columns, Space(cursor + i) PROVE FALSE
    OBVIOUS
  <2>1. i \in 1 .. Columns /\ i > last
    BY <1>1, <1>7
  <2> QED BY <1>3, <1>6, <1>7, <2>1
<1>9. \/ last < Columns \div 3 /\ Split = Columns
      \/ last > 0 /\ Space(cursor + last) /\ Split = last
  <2>1. 0 < Columns \div 3
    BY <1>1
  <2>2. last > 0 => Space(cursor + last)
    BY <1>3, <1>4, <1>6
  <2> QED BY <1>1, <1>2, <1>7, <2>1, <2>2
<1> QED BY <1>7, <1>8, <1>9

\* A line that wrap_text splits is full.
LEMMA LineFull ==
  ASSUME LayoutInv, phase = "wrap", cursor < Len(text), NEW next \in Nat,
         next = NextCursor(cursor + Split), next <= Len(text)
  PROVE  FullBefore([first |-> cursor, length |-> Split], next)
<1> DEFINE end == cursor + Split
<1>1. /\ cursor \in Nat /\ Len(text) \in Nat /\ PhysicalEnd \in Nat /\ PhysicalEnd <= Len(text)
      /\ cursor <= PhysicalEnd /\ Columns \in Nat /\ Columns >= 3
      /\ Split \in 0 .. Columns /\ end <= PhysicalEnd
  BY EndOfLine, SplitFits, LayoutAssumption DEF LayoutInv, TextInv
<1>2. end \in cursor .. PhysicalEnd
  BY <1>1
<1> SUFFICES ASSUME \A i \in cursor .. next - 1 : ~Newline(i)
             PROVE  /\ WordEnd(next) > cursor + Columns
                    /\ InWord(end) => \E i \in cursor .. cursor + Columns \div 3 :
                         \A j \in i + 1 .. WordEnd(next) - 1 : InWord(j)
  BY DEF FullBefore
<1>3. next # PhysicalEnd + 1
  BY <1>1, PhysicalLine
<1>4. next \in end .. PhysicalEnd - 1 /\ ~Space(next)
  BY <1>2, <1>3, NextLine
<1>5. next \in cursor .. PhysicalEnd - 1
  BY <1>1, <1>4
<1>6. ~Newline(next) /\ ~Blank(next)
  BY <1>4, <1>5, PhysicalLine, Kinds
<1>7. PhysicalEnd - cursor > Columns
  <2> SUFFICES ASSUME PhysicalEnd - cursor <= Columns PROVE FALSE
    BY <1>1
  <2>1. end = PhysicalEnd
    BY <1>1 DEF Split
  <2> QED BY <1>1, <1>4, <2>1
<1>8. PICK last \in 0 .. Columns :
        /\ \A i \in last + 1 .. Columns : ~Space(cursor + i)
        /\ \/ last < Columns \div 3 /\ Split = Columns
           \/ last > 0 /\ Space(cursor + last) /\ Split = last
  BY <1>7, WhereSplit
<1>9. \A i \in cursor + last + 1 .. cursor + Columns : ~Blank(i)
  <2> SUFFICES ASSUME NEW i \in cursor + last + 1 .. cursor + Columns PROVE ~Blank(i)
    OBVIOUS
  <2>1. i - cursor \in last + 1 .. Columns /\ cursor + (i - cursor) = i /\ i \in cursor .. PhysicalEnd - 1
    BY <1>1, <1>7
  <2>2. ~Space(i)
    BY <1>8, <2>1
  <2> QED BY <2>1, <2>2, PhysicalLine, Kinds
<1>10. /\ WordEnd(next) \in next .. Len(text) /\ \A i \in next .. WordEnd(next) - 1 : ~Blank(i)
       /\ WordEnd(next) < Len(text) => Blank(WordEnd(next))
  BY <1>1, <1>4, WordEnds
<1> HIDE DEF end
<1>11. next >= cursor + last + 1 \/ (last < Columns \div 3 /\ Split = Columns)
  <2>1. CASE Space(cursor + last) /\ Split = last
    BY <1>1, <1>4, <2>1 DEF end
  <2> QED BY <1>8, <2>1
<1>12. next >= cursor + last + 1
  BY <1>1, <1>4, <1>8, <1>11 DEF end
<1>13. WordEnd(next) > cursor + Columns
  <2> SUFFICES ASSUME WordEnd(next) <= cursor + Columns PROVE FALSE
    BY <1>1, <1>10
  <2>1. WordEnd(next) < Len(text)
    BY <1>1, <1>7, <1>10
  <2>2. WordEnd(next) \in cursor + last + 1 .. cursor + Columns
    BY <1>1, <1>4, <1>10, <1>12
  <2> QED BY <1>9, <1>10, <2>1, <2>2
<1>14. ASSUME InWord(end) PROVE \E i \in cursor .. cursor + Columns \div 3 :
         \A j \in i + 1 .. WordEnd(next) - 1 : InWord(j)
  <2>1. ~Blank(end)
    BY <1>14, Kinds
  <2>2. last < Columns \div 3 /\ Split = Columns
    BY <1>8, <2>1, Kinds DEF end
  <2>3. end = cursor + Columns
    BY <2>2 DEF end
  <2>7. next = end
    <3>1. end \in end .. Len(text) - 1 /\ end \in cursor .. PhysicalEnd
      BY <1>1, <1>2, <1>7, <2>3
    <3>2. ~(end < next)
      BY <2>1, <3>1, OnlyBlanksSkipped DEF end
    <3> QED BY <1>1, <1>4, <2>3, <3>2
  <2> DEFINE i == cursor + last + 1
  <2>4. i \in cursor .. cursor + Columns \div 3
    BY <1>1, <2>2
  <2>5. \A j \in i .. WordEnd(next) - 1 : ~Blank(j)
    <3> SUFFICES ASSUME NEW j \in i .. WordEnd(next) - 1 PROVE ~Blank(j)
      OBVIOUS
    <3>1. CASE j <= cursor + Columns
      BY <1>1, <1>9, <3>1
    <3>2. CASE j > cursor + Columns
      BY <1>1, <1>10, <2>3, <2>7, <3>2
    <3> QED BY <1>1, <1>10, <3>1, <3>2
  <2>6. \A j \in i + 1 .. WordEnd(next) - 1 : InWord(j)
    <3> SUFFICES ASSUME NEW j \in i + 1 .. WordEnd(next) - 1 PROVE InWord(j)
      OBVIOUS
    <3>1. j - 1 \in i .. WordEnd(next) - 1 /\ j \in i .. WordEnd(next) - 1 /\ j \in 1 .. Len(text) - 1
      BY <1>1, <1>10
    <3> QED BY <2>5, <3>1, Kinds
  <2> HIDE DEF i
  <2> QED BY <2>4, <2>6
<1> QED BY <1>13, <1>14 DEF end

\* What is known of the lines does not change as long as the text does not.
LEMMA FullKept == ASSUME UNCHANGED text PROVE \A l, n : FullBefore(l, n)' <=> FullBefore(l, n)
BY DEF FullBefore, Newline, InWord, WordEnd, At

\* No lines yet.
LEMMA FullEmpty ==
  ASSUME Len(rows') = 0, cursor' = 0, Len(text') \in Nat PROVE FullInv'
BY DEF FullInv

\* A step of wrap_text that pushes at most one line.
LEMMA FullPush ==
  ASSUME LayoutInv, FullInv, phase = "wrap", cursor <= Len(text), UNCHANGED text,
         cursor' \in Nat, NEW width \in Nat, rows' = Pushed(cursor, width), Min({width, Columns}) = width,
         \/ phase' = "laid" /\ cursor' <= Len(text)
         \/ /\ cursor' <= Len(text) => FullBefore([first |-> cursor, length |-> width], cursor')
            /\ cursor' > Len(text) => Len(text) > 0 /\ ~Newline(Len(text) - 1)
  PROVE  FullInv'
<1> DEFINE line == [first |-> cursor, length |-> width]
<1>1. rows \in Seq(Stretches) /\ Len(rows) \in Nat /\ cursor \in Nat /\ Len(text) \in Nat /\ line \in Stretches
  BY DEF LayoutInv, TextInv, Stretches
<1>2. rows' = Append(rows, line)
  BY DEF Pushed
<1>3. line.first = cursor
  OBVIOUS
<1> HIDE DEF line
<1>4. /\ Len(rows') = Len(rows) + 1 /\ rows'[Len(rows) + 1] = line
      /\ \A k \in 1 .. Len(rows) : rows'[k] = rows[k]
  BY <1>1, <1>2
<1>5. \A k \in 2 .. Len(rows') : FullBefore(rows'[k - 1], rows'[k].first)
  <2> SUFFICES ASSUME NEW k \in 2 .. Len(rows') PROVE FullBefore(rows'[k - 1], rows'[k].first)
    OBVIOUS
  <2>1. CASE k \in 2 .. Len(rows)
    <3>1. rows'[k - 1] = rows[k - 1] /\ rows'[k] = rows[k]
      BY <1>1, <1>4, <2>1
    <3> QED BY <2>1, <3>1 DEF FullInv
  <2>2. CASE k = Len(rows) + 1
    <3>1. rows'[k - 1] = rows[Len(rows)] /\ rows'[k].first = cursor /\ Len(rows) > 0
      BY <1>1, <1>3, <1>4, <2>2
    <3> QED BY <3>1 DEF FullInv
  <2> QED BY <1>1, <1>4, <2>1, <2>2
<1>6. phase' = "wrap" /\ Len(rows') > 0 /\ cursor' <= Len(text) => FullBefore(rows'[Len(rows')], cursor')
  BY <1>1, <1>4 DEF line
<1>7. cursor' > Len(text) => Len(text) > 0 /\ ~Newline(Len(text) - 1)
  BY <1>1
<1>8. \A i : Newline(i)' <=> Newline(i)
  BY DEF Newline, At
<1> QED BY <1>5, <1>6, <1>7, <1>8, FullKept DEF FullInv

LEMMA WrapFull == ASSUME LayoutInv, FullInv, WrapLine PROVE FullInv'
<1>1. /\ phase = "wrap" /\ phase' = "wrap" /\ cursor < Len(text) /\ UNCHANGED text
      /\ rows' = Pushed(cursor, Split) /\ cursor' = NextCursor(cursor + Split)
      /\ cursor \in Nat /\ Len(text) \in Nat /\ Columns \in Nat
  BY LayoutAssumption DEF WrapLine, LayoutInv, TextInv
<1>2. Split \in 0 .. Columns /\ cursor + Split <= PhysicalEnd /\ PhysicalEnd \in cursor .. Len(text)
  BY <1>1, SplitFits, EndOfLine
<1>3. cursor + Split \in cursor .. PhysicalEnd /\ Split \in Nat /\ cursor <= Len(text)
  BY <1>1, <1>2
<1>4. cursor' \in Nat
  BY <1>1, <1>3, OnlyBlanksSkipped
<1>5. Min({Split, Columns}) = Split
  <2>1. {Split, Columns} \in SUBSET Nat /\ {Split, Columns} # {}
    BY <1>1, <1>3
  <2>2. Min({Split, Columns}) \in {Split, Columns} /\ Min({Split, Columns}) <= Split
    BY <2>1, MinOfNats
  <2> QED BY <1>1, <1>2, <2>2
<1>6. cursor' <= Len(text) => FullBefore([first |-> cursor, length |-> Split], cursor')
  BY <1>1, <1>4, LineFull
<1>7. ASSUME cursor' > Len(text) PROVE Len(text) > 0 /\ ~Newline(Len(text) - 1)
  <2>1. cursor' = PhysicalEnd + 1
    <3>1. \/ cursor' = PhysicalEnd + 1 \/ cursor' \in cursor + Split .. PhysicalEnd - 1
      BY <1>1, <1>3, NextLine
    <3> QED BY <1>1, <1>2, <1>4, <1>7, <3>1
  <2>2. Len(text) - 1 \in cursor .. PhysicalEnd - 1
    BY <1>1, <1>2, <1>7, <2>1
  <2> QED BY <1>1, <2>2, PhysicalLine
<1> QED BY <1>1, <1>3, <1>4, <1>5, <1>6, <1>7, FullPush

LEMMA WrappedFull == ASSUME LayoutInv, FullInv, Wrapped PROVE FullInv'
<1>1. /\ phase = "wrap" /\ phase' = "laid" /\ cursor >= Len(text) /\ UNCHANGED <<text, cursor>>
      /\ cursor \in Nat /\ Len(text) \in Nat /\ Columns \in Nat /\ text \in Seq(Symbols)
  BY LayoutAssumption DEF Wrapped, LayoutInv, TextInv
<1>2. \A i : Newline(i)' <=> Newline(i)
  BY <1>1 DEF Newline, At
<1>3. CASE rows' = rows
  BY <1>1, <1>2, <1>3, FullKept DEF FullInv
<1>4. CASE rows' = Pushed(Len(text), 0) /\ (text = <<>> \/ Newline(Len(text) - 1))
  <2>1. ~(cursor > Len(text))
    <3>1. text = <<>> => ~(Len(text) > 0)
      OBVIOUS
    <3> QED BY <1>4, <3>1 DEF FullInv
  <2>2. cursor = Len(text) /\ 0 \in Nat /\ cursor' \in Nat
    BY <1>1, <2>1
  <2>3. Min({0, Columns}) = 0
    <3>1. {0, Columns} \in SUBSET Nat /\ {0, Columns} # {}
      BY <1>1
    <3>2. Min({0, Columns}) \in {0, Columns} /\ Min({0, Columns}) <= 0
      BY <3>1, MinOfNats
    <3> QED BY <1>1, <3>2
  <2> QED BY <1>1, <1>4, <2>2, <2>3, FullPush
<1> QED BY <1>3, <1>4 DEF Wrapped, Newline

LEMMA FullStep == ASSUME LayoutInv, LayoutInv', FullInv, [EinkctlNext]_<<layout, vars>> PROVE FullInv'
<1>1. Len(text') \in Nat
  BY DEF LayoutInv, TextInv
<1>2. CASE UNCHANGED layout
  <2>1. UNCHANGED <<phase, text, cursor, rows>>
    BY <1>2 DEF layout
  <2>2. \A i : Newline(i)' <=> Newline(i)
    BY <2>1 DEF Newline, At
  <2> QED BY <2>1, <2>2, FullKept DEF FullInv
<1>3. CASE NoLayout
  BY <1>1, <1>3, FullEmpty DEF NoLayout
<1>4. CASE phase \in {"none", "sanitize"} /\ UNCHANGED <<rows, cursor>>
  BY <1>1, <1>4, FullEmpty DEF LayoutInv, TextInv
<1>5. CASE LayOut
  BY <1>4, <1>5, WrapFull, WrappedFull DEF LayOut, Sanitize, Sanitized
<1>6. CASE Idle /\ \E bytes \in Readable : Read(bytes)
  BY <1>2, <1>4, <1>6 DEF Idle, Read, BeginLayout
<1> QED BY <1>2, <1>3, <1>5, <1>6 DEF EinkctlNext, Render, Display, Clear, Refuse, Interrupted

\* A line that wrap_text ends within a physical line is as long as its words allow: the first
\* word of the next line would not fit, and a word is split only if it begins in the first third
\* of a line it overruns.
THEOREM LinesFilled == EinkctlSpec => []LinesAreFull
<1>1. EinkctlInit => FullInv
  <2> SUFFICES ASSUME EinkctlInit PROVE FullInv
    OBVIOUS
  <2>1. Len(rows) = 0 /\ cursor = 0 /\ Len(text) = 0
    BY DEF EinkctlInit
  <2> QED BY <2>1 DEF FullInv
<1>2. LayoutInv /\ LayoutInv' /\ FullInv /\ [EinkctlNext]_<<layout, vars>> => FullInv'
  BY FullStep
<1>3. FullInv => LinesAreFull
  BY DEF FullInv, LinesAreFull, FullBefore, Newline
<1> QED BY <1>1, <1>2, <1>3, LayoutInvariant, PTL DEF EinkctlSpec
-----------------------------------------------------------------------------
(* The lines of the GPIO *)

\* During a run the lines that are exported are those it found so and those it exported;
\* its result is open until it fails or closes.
Accounted ==
  /\ pc # NoRun => mine \cap found = {} /\ exported = found \cup mine
  /\ phase # "none" => pc = NoRun /\ exported = found
  /\ pc \notin {NoRun, Failed, Closing} => result = "none"
  /\ LinesReturned

\* A step of the run that is at neither of its ends.
LEMMA Distinct ==
  /\ NoRun # Failed /\ NoRun # Closing /\ Failed # Closing
  /\ \A line : <<"export", line>> \notin {NoRun, Failed, Closing}
  /\ \A line : <<"configure", line>> \notin {NoRun, Failed, Closing}
  /\ \A what : <<"open", what>> \notin {NoRun, Failed, Closing}
  /\ \A what : <<"panel", what>> \notin {NoRun, Failed, Closing}
  /\ \A what : <<"transfer", what>> \notin {NoRun, Failed, Closing}
  /\ \A what : <<"command", what>> \notin {NoRun, Failed, Closing}
  /\ \A what : <<"wait", what>> \notin {NoRun, Failed, Closing}
BY DEF NoRun, Failed, Closing

\* A step that touches no line goes on, and then leaves the result open; or it fails.
LEMMA MiddleStep ==
  ASSUME Accounted, NEW step, step \notin {NoRun, Failed, Closing}, UNCHANGED <<lines, run, layout>>,
         (Pass(step) /\ UNCHANGED result) \/ OpenFails(step) \/ DisplayFails(step)
  PROVE  Accounted'
<1>1. /\ pc = step /\ pc \notin {NoRun, Failed, Closing} /\ UNCHANGED <<mine, exported, found, phase>>
      /\ result' = "none" \/ pc' \in {Closing, Failed}
  BY DEF Pass, OpenFails, DisplayFails, lines, run, layout, Accounted
<1>2. phase = "none" /\ mine \cap found = {} /\ exported = found \cup mine
  BY <1>1 DEF Accounted
<1> QED BY <1>1, <1>2, Distinct DEF Accounted, LinesReturned

LEMMA ExportSafe == ASSUME Accounted, NEW line, Export(line), UNCHANGED layout PROVE Accounted'
<1>1. pc = <<"export", line>> /\ UNCHANGED <<found, phase>>
  BY DEF Export, Pass, OpenFails, run, layout
<1>2. pc \notin {NoRun, Failed, Closing}
  BY <1>1, Distinct
<1>3. phase = "none" /\ mine \cap found = {} /\ exported = found \cup mine /\ result = "none"
  BY <1>2 DEF Accounted
<1>4. result' = "none" \/ pc' = Closing
  BY <1>3 DEF Export, OpenFails
<1>5. mine' \cap found = {} /\ exported' = found \cup mine'
  <2>1. CASE exported' = exported \cup {line} /\ mine' = mine \cup Owned(line)
    BY <1>3, <2>1 DEF Owned
  <2> QED BY <1>3, <2>1 DEF Export
<1> QED BY <1>1, <1>3, <1>4, <1>5, Distinct DEF Accounted, LinesReturned

LEMMA CloseSafe == ASSUME Accounted, Close, UNCHANGED layout PROVE Accounted'
<1>1. pc # NoRun /\ pc' = NoRun /\ exported' = exported \ mine /\ UNCHANGED <<found, phase>>
  BY Distinct DEF Close, Released, run, layout
<1>2. phase = "none" /\ mine \cap found = {} /\ exported = found \cup mine
  BY <1>1 DEF Accounted
<1>3. exported' = found'
  BY <1>1, <1>2
<1> QED BY <1>1, <1>2, <1>3 DEF Accounted, LinesReturned

LEMMA PanelStep == ASSUME Accounted, PanelNext, UNCHANGED layout PROVE Accounted'
<1>1. CASE \E line \in Lines : Export(line)
  BY <1>1, ExportSafe
<1>2. CASE \E line \in Lines : Configure(line)
  <2>1. PICK line \in Lines : Configure(line)
    BY <1>2
  <2>2. CASE OpenFails(<<"configure", line>>) /\ UNCHANGED opened
    BY <2>1, <2>2, MiddleStep, Distinct DEF Configure, lines
  <2>3. CASE Pass(<<"configure", line>>) /\ UNCHANGED result
    <3>1. pc = <<"configure", line>> /\ UNCHANGED <<mine, exported, found, phase, result>>
      BY <2>1, <2>3 DEF Configure, Pass, run, layout
    <3>2. pc \notin {NoRun, Failed, Closing}
      BY <3>1, Distinct
    <3> QED BY <3>1, <3>2 DEF Accounted, LinesReturned
  <2> QED BY <2>1, <2>2, <2>3 DEF Configure
<1>3. CASE \E what \in {"base", "device"} : Open(what)
  BY <1>3, MiddleStep, Distinct DEF Open
<1>4. CASE ResetPanel
  BY <1>4, MiddleStep, Distinct DEF ResetPanel
<1>5. CASE \E what \in {"settings", "oldData", "newData", "fast"} : Transfer(what)
  BY <1>5, MiddleStep, Distinct DEF Transfer
<1>6. CASE \E what \in {"powerOn", "refresh", "powerOff"} : Command(what)
  BY <1>6, MiddleStep, Distinct DEF Command
<1>7. CASE \E what \in {"powerOn", "refresh", "powerOff"} : Wait(what)
  BY <1>7, MiddleStep, Distinct DEF Wait
<1>8. CASE FailureOff
  BY <1>8, Distinct DEF FailureOff, lines, run, layout, Accounted, LinesReturned
<1>9. CASE Close
  BY <1>9, CloseSafe
<1>10. CASE Killed
  BY <1>10, Distinct DEF Killed, run, layout, Accounted, LinesReturned
<1>11. CASE PanelFinishes
  BY <1>11 DEF PanelFinishes, lines, run, layout, Accounted, LinesReturned
<1> QED BY <1>1, <1>2, <1>3, <1>4, <1>5, <1>6, <1>7, <1>8, <1>9, <1>10, <1>11 DEF PanelNext

LEMMA StartSafe == ASSUME Accounted, NEW f, Start(f), phase' = "none" PROVE Accounted'
<1>1. result' = "none" /\ mine' = {} /\ found' = exported /\ exported' = exported
  BY DEF Start
<1> QED BY <1>1 DEF Accounted, LinesReturned

LEMMA AccountedStep == ASSUME Accounted, [EinkctlNext]_<<layout, vars>> PROVE Accounted'
<1>1. CASE UNCHANGED <<layout, vars>>
  BY <1>1 DEF vars, layout, Accounted, LinesReturned
<1>2. CASE Idle /\ \E bytes \in Readable : Read(bytes)
  BY <1>2 DEF Read, Idle, NoPanelStep, Accounted, LinesReturned
<1>3. CASE LayOut
  <2>1. phase # "none"
    BY <1>3 DEF LayOut, Sanitize, Sanitized, WrapLine, Wrapped
  <2> QED BY <1>3, <2>1 DEF LayOut, vars, Accounted, LinesReturned
<1>4. CASE \E page \in 0 .. MaxPage : Render(page)
  BY <1>4 DEF Render, NoLayout, NoPanelStep, Accounted, LinesReturned
<1>5. CASE \E page \in 0 .. MaxPage : Display(page)
  BY <1>5, StartSafe DEF Display, NoLayout
<1>6. CASE Clear
  BY <1>6, StartSafe DEF Clear, Idle, layout
<1>7. CASE Refuse \/ Interrupted
  BY <1>7 DEF Refuse, Interrupted, NoLayout, NoPanelStep, Accounted, LinesReturned
<1>8. CASE PanelNext /\ UNCHANGED layout
  BY <1>8, PanelStep
<1> QED BY <1>1, <1>2, <1>3, <1>4, <1>5, <1>6, <1>7, <1>8 DEF EinkctlNext

\* A run that was not killed leaves exported the lines it found exported, and no others
\* (gpio_open_line and gpio_close_line of einkctl.c), wherever it failed, whatever is displayed.
THEOREM LinesGivenBack == EinkctlSpec => []LinesReturned
<1>1. EinkctlInit => Accounted
  BY DEF EinkctlInit, Init, Accounted, LinesReturned
<1>2. Accounted /\ [EinkctlNext]_<<layout, vars>> => Accounted'
  BY AccountedStep
<1>3. Accounted => LinesReturned
  BY DEF Accounted
<1> QED BY <1>1, <1>2, <1>3, PTL DEF EinkctlSpec
-----------------------------------------------------------------------------
(* The run of the panel *)

\* Where the steps are in a sequence of four parts.
LEMMA Joined ==
  ASSUME NEW S, NEW s \in Seq(S), NEW t \in Seq(S), NEW u \in Seq(S), NEW v \in Seq(S),
         NEW w, w = s \o t \o u \o v
  PROVE  /\ Len(w) = Len(s) + Len(t) + Len(u) + Len(v)
         /\ \A i \in 1 .. Len(s) : w[i] = s[i]
         /\ \A i \in 1 .. Len(t) : w[Len(s) + i] = t[i]
         /\ \A i \in 1 .. Len(u) : w[Len(s) + Len(t) + i] = u[i]
         /\ \A i \in 1 .. Len(v) : w[Len(s) + Len(t) + Len(u) + i] = v[i]
<1>0. Len(s) \in Nat /\ Len(t) \in Nat /\ Len(u) \in Nat /\ Len(v) \in Nat
  OBVIOUS
<1> DEFINE a == s \o t
           b == a \o u
<1>1. /\ a \in Seq(S) /\ Len(a) = Len(s) + Len(t)
      /\ \A i \in 1 .. Len(s) + Len(t) : a[i] = IF i <= Len(s) THEN s[i] ELSE t[i - Len(s)]
  BY ConcatProperties
<1>2. w = b \o v
  OBVIOUS
<1> HIDE DEF a
<1>3. /\ b \in Seq(S) /\ Len(b) = Len(a) + Len(u)
      /\ \A i \in 1 .. Len(a) + Len(u) : b[i] = IF i <= Len(a) THEN a[i] ELSE u[i - Len(a)]
  BY <1>1, ConcatProperties
<1> HIDE DEF b
<1>4. /\ Len(w) = Len(b) + Len(v)
      /\ \A i \in 1 .. Len(b) + Len(v) : w[i] = IF i <= Len(b) THEN b[i] ELSE v[i - Len(b)]
  BY <1>2, <1>3, ConcatProperties
<1>5. \A i \in 1 .. Len(s) : w[i] = s[i]
  BY <1>0, <1>1, <1>3, <1>4
<1>6. \A i \in 1 .. Len(t) : w[Len(s) + i] = t[i]
  BY <1>0, <1>1, <1>3, <1>4
<1>7. \A i \in 1 .. Len(u) : w[Len(s) + Len(t) + i] = u[i]
  BY <1>0, <1>1, <1>3, <1>4
<1>8. \A i \in 1 .. Len(v) : w[Len(s) + Len(t) + Len(u) + i] = v[i]
  BY <1>0, <1>1, <1>3, <1>4
<1> QED BY <1>0, <1>1, <1>3, <1>4, <1>5, <1>6, <1>7, <1>8

LEMMA TuplesInSeq ==
  ASSUME NEW S, NEW a \in S, NEW b \in S, NEW c \in S, NEW d \in S, NEW e \in S, NEW f \in S,
         NEW g \in S, NEW h \in S, NEW i \in S
  PROVE  /\ <<a, b, c, d, e, f, g, h, i>> \in Seq(S) /\ <<a, b, c, d, e, f, g, h>> \in Seq(S)
         /\ <<a, b>> \in Seq(S) /\ <<a>> \in Seq(S)
OBVIOUS

\* The steps of a run, in their order.
Steps == {<<"open", "base">>, <<"export", "dc">>, <<"configure", "dc">>, <<"export", "reset">>,
  <<"configure", "reset">>, <<"export", "busy">>, <<"configure", "busy">>, <<"open", "device">>,
  <<"panel", "reset">>, <<"transfer", "settings">>, <<"command", "powerOn">>, <<"wait", "powerOn">>,
  <<"transfer", "oldData">>, <<"transfer", "newData">>, <<"transfer", "fast">>, <<"command", "refresh">>,
  <<"wait", "refresh">>, <<"command", "powerOff">>, <<"wait", "powerOff">>, <<"run", "closing">>}

LEMMA Pieces ==
  /\ OpenSteps \in Seq(Steps) /\ Len(OpenSteps) = 8
  /\ InitializeSteps \in Seq(Steps) /\ Len(InitializeSteps) = 2
  /\ DisplaySteps \in Seq(Steps) /\ Len(DisplaySteps) = 9
  /\ <<Closing>> \in Seq(Steps) /\ Len(<<Closing>>) = 1
<1>1. /\ <<"open", "base">> \in Steps /\ <<"export", "dc">> \in Steps /\ <<"configure", "dc">> \in Steps
      /\ <<"export", "reset">> \in Steps /\ <<"configure", "reset">> \in Steps /\ <<"export", "busy">> \in Steps
      /\ <<"configure", "busy">> \in Steps /\ <<"open", "device">> \in Steps /\ <<"panel", "reset">> \in Steps
      /\ <<"transfer", "settings">> \in Steps /\ <<"command", "powerOn">> \in Steps /\ <<"wait", "powerOn">> \in Steps
      /\ <<"transfer", "oldData">> \in Steps /\ <<"transfer", "newData">> \in Steps /\ <<"transfer", "fast">> \in Steps
      /\ <<"command", "refresh">> \in Steps /\ <<"wait", "refresh">> \in Steps /\ <<"command", "powerOff">> \in Steps
      /\ <<"wait", "powerOff">> \in Steps /\ <<"run", "closing">> \in Steps
      /\ Closing \in Steps
  BY DEF Steps, Closing
<1>2. OpenSteps \in Seq(Steps) /\ InitializeSteps \in Seq(Steps)
  BY <1>1, TuplesInSeq DEF OpenSteps, InitializeSteps
<1>3. DisplaySteps \in Seq(Steps) /\ <<Closing>> \in Seq(Steps)
  BY <1>1, TuplesInSeq DEF DisplaySteps
<1>4. Len(OpenSteps) = 8 /\ Len(InitializeSteps) = 2 /\ Len(DisplaySteps) = 9 /\ Len(<<Closing>>) = 1
  BY DEF OpenSteps, InitializeSteps, DisplaySteps
<1> QED BY <1>2, <1>3, <1>4

\* panel_open, panel_initialize and panel_display, step by step.
LEMMA TheSteps ==
  /\ Len(Sequence) = 20
  /\ Sequence[1] = <<"open", "base">>        /\ Sequence[2] = <<"export", "dc">>
  /\ Sequence[3] = <<"configure", "dc">>     /\ Sequence[4] = <<"export", "reset">>
  /\ Sequence[5] = <<"configure", "reset">>  /\ Sequence[6] = <<"export", "busy">>
  /\ Sequence[7] = <<"configure", "busy">>   /\ Sequence[8] = <<"open", "device">>
  /\ Sequence[9] = <<"panel", "reset">>      /\ Sequence[10] = <<"transfer", "settings">>
  /\ Sequence[11] = <<"command", "powerOn">>  /\ Sequence[12] = <<"wait", "powerOn">>
  /\ Sequence[13] = <<"transfer", "oldData">> /\ Sequence[14] = <<"transfer", "newData">>
  /\ Sequence[15] = <<"transfer", "fast">>     /\ Sequence[16] = <<"command", "refresh">>
  /\ Sequence[17] = <<"wait", "refresh">>      /\ Sequence[18] = <<"command", "powerOff">>
  /\ Sequence[19] = <<"wait", "powerOff">>    /\ Sequence[20] = Closing
<1>1. Sequence = OpenSteps \o InitializeSteps \o DisplaySteps \o <<Closing>>
  BY DEF Sequence
<1>2. /\ Len(Sequence) = 20
      /\ \A i \in 1 .. 8 : Sequence[i] = OpenSteps[i]
      /\ \A i \in 1 .. 2 : Sequence[8 + i] = InitializeSteps[i]
      /\ \A i \in 1 .. 9 : Sequence[8 + 2 + i] = DisplaySteps[i]
      /\ \A i \in 1 .. 1 : Sequence[8 + 2 + 9 + i] = <<Closing>>[i]
  <2> DEFINE whole == Sequence
             last == <<Closing>>
  <2>1. /\ OpenSteps \in Seq(Steps) /\ InitializeSteps \in Seq(Steps) /\ DisplaySteps \in Seq(Steps)
        /\ last \in Seq(Steps) /\ whole = OpenSteps \o InitializeSteps \o DisplaySteps \o last
    BY <1>1, Pieces
  <2>2. Len(OpenSteps) = 8 /\ Len(InitializeSteps) = 2 /\ Len(DisplaySteps) = 9 /\ Len(last) = 1
    BY Pieces
  <2> HIDE DEF last, whole
  <2>3. /\ Len(whole) = Len(OpenSteps) + Len(InitializeSteps) + Len(DisplaySteps) + Len(last)
        /\ \A i \in 1 .. Len(OpenSteps) : whole[i] = OpenSteps[i]
        /\ \A i \in 1 .. Len(InitializeSteps) : whole[Len(OpenSteps) + i] = InitializeSteps[i]
        /\ \A i \in 1 .. Len(DisplaySteps) :
             whole[Len(OpenSteps) + Len(InitializeSteps) + i] = DisplaySteps[i]
        /\ \A i \in 1 .. Len(last) :
             whole[Len(OpenSteps) + Len(InitializeSteps) + Len(DisplaySteps) + i] = last[i]
    BY <2>1, Joined
  <2> QED BY <2>2, <2>3 DEF last, whole
<1>3. /\ Sequence[9] = InitializeSteps[1] /\ Sequence[10] = InitializeSteps[2]
      /\ Sequence[11] = DisplaySteps[1] /\ Sequence[12] = DisplaySteps[2]
      /\ Sequence[13] = DisplaySteps[3] /\ Sequence[14] = DisplaySteps[4]
      /\ Sequence[15] = DisplaySteps[5] /\ Sequence[16] = DisplaySteps[6]
      /\ Sequence[17] = DisplaySteps[7] /\ Sequence[18] = DisplaySteps[8]
      /\ Sequence[19] = DisplaySteps[9] /\ Sequence[20] = Closing
  BY <1>2
<1>4. /\ Sequence[1] = OpenSteps[1] /\ Sequence[2] = OpenSteps[2] /\ Sequence[3] = OpenSteps[3]
      /\ Sequence[4] = OpenSteps[4] /\ Sequence[5] = OpenSteps[5] /\ Sequence[6] = OpenSteps[6]
      /\ Sequence[7] = OpenSteps[7] /\ Sequence[8] = OpenSteps[8]
  BY <1>2
<1>5. /\ Sequence[1] = <<"open", "base">> /\ Sequence[2] = <<"export", "dc">>
      /\ Sequence[3] = <<"configure", "dc">> /\ Sequence[4] = <<"export", "reset">>
      /\ Sequence[5] = <<"configure", "reset">> /\ Sequence[6] = <<"export", "busy">>
      /\ Sequence[7] = <<"configure", "busy">> /\ Sequence[8] = <<"open", "device">>
  BY <1>4 DEF OpenSteps
<1>6. Sequence[9] = <<"panel", "reset">> /\ Sequence[10] = <<"transfer", "settings">>
  BY <1>3 DEF InitializeSteps
<1>7. /\ Sequence[11] = <<"command", "powerOn">> /\ Sequence[12] = <<"wait", "powerOn">>
      /\ Sequence[13] = <<"transfer", "oldData">> /\ Sequence[14] = <<"transfer", "newData">>
      /\ Sequence[15] = <<"transfer", "fast">> /\ Sequence[16] = <<"command", "refresh">>
      /\ Sequence[17] = <<"wait", "refresh">> /\ Sequence[18] = <<"command", "powerOff">>
      /\ Sequence[19] = <<"wait", "powerOff">>
  BY <1>3 DEF DisplaySteps
<1> QED BY <1>2, <1>3, <1>5, <1>6, <1>7

LEMMA StepsDiffer == \A i, j \in 1 .. 20 : Sequence[i] = Sequence[j] => i = j
BY TheSteps, SMTT(60) DEF Closing

LEMMA Follow == \A i \in 1 .. 19 : After(Sequence[i]) = Sequence[i + 1]
<1> SUFFICES ASSUME NEW i \in 1 .. 19 PROVE After(Sequence[i]) = Sequence[i + 1]
  OBVIOUS
<1>1. \A k \in 2 .. 20 : Sequence[k - 1] = Sequence[i] => k = i + 1
  BY StepsDiffer
<1>2. i + 1 \in 2 .. 20 /\ Sequence[(i + 1) - 1] = Sequence[i]
  OBVIOUS
<1>3. Len(Sequence) = 20
  BY TheSteps
<1> QED BY <1>1, <1>2, <1>3 DEF After

\* The step after each.
LEMMA Afters ==
  /\ After(<<"open", "base">>) = <<"export", "dc">>
  /\ After(<<"export", "dc">>) = <<"configure", "dc">>
  /\ After(<<"configure", "dc">>) = <<"export", "reset">>
  /\ After(<<"export", "reset">>) = <<"configure", "reset">>
  /\ After(<<"configure", "reset">>) = <<"export", "busy">>
  /\ After(<<"export", "busy">>) = <<"configure", "busy">>
  /\ After(<<"configure", "busy">>) = <<"open", "device">>
  /\ After(<<"open", "device">>) = <<"panel", "reset">>
  /\ After(<<"panel", "reset">>) = <<"transfer", "settings">>
  /\ After(<<"transfer", "settings">>) = <<"command", "powerOn">>
  /\ After(<<"command", "powerOn">>) = <<"wait", "powerOn">>
  /\ After(<<"wait", "powerOn">>) = <<"transfer", "oldData">>
  /\ After(<<"transfer", "oldData">>) = <<"transfer", "newData">>
  /\ After(<<"transfer", "newData">>) = <<"transfer", "fast">>
  /\ After(<<"transfer", "fast">>) = <<"command", "refresh">>
  /\ After(<<"command", "refresh">>) = <<"wait", "refresh">>
  /\ After(<<"wait", "refresh">>) = <<"command", "powerOff">>
  /\ After(<<"command", "powerOff">>) = <<"wait", "powerOff">>
  /\ After(<<"wait", "powerOff">>) = Closing
<1>1. /\ After(Sequence[1]) = Sequence[2]
      /\ After(Sequence[2]) = Sequence[3]
      /\ After(Sequence[3]) = Sequence[4]
      /\ After(Sequence[4]) = Sequence[5]
      /\ After(Sequence[5]) = Sequence[6]
      /\ After(Sequence[6]) = Sequence[7]
      /\ After(Sequence[7]) = Sequence[8]
      /\ After(Sequence[8]) = Sequence[9]
      /\ After(Sequence[9]) = Sequence[10]
      /\ After(Sequence[10]) = Sequence[11]
      /\ After(Sequence[11]) = Sequence[12]
      /\ After(Sequence[12]) = Sequence[13]
      /\ After(Sequence[13]) = Sequence[14]
      /\ After(Sequence[14]) = Sequence[15]
      /\ After(Sequence[15]) = Sequence[16]
      /\ After(Sequence[16]) = Sequence[17]
      /\ After(Sequence[17]) = Sequence[18]
      /\ After(Sequence[18]) = Sequence[19]
      /\ After(Sequence[19]) = Sequence[20]
  BY Follow
<1> QED BY <1>1, TheSteps

\* Before the first command and after the panel was powered; while it is powered and idle; and
\* once it has its frame.
Idling == {<<"transfer", "settings">>, <<"command", "powerOn">>}
Powered == {<<"transfer", "oldData">>, <<"transfer", "newData">>, <<"transfer", "fast">>,
            <<"command", "refresh">>}
Drawn == {<<"transfer", "fast">>, <<"command", "refresh">>, <<"wait", "refresh">>}
\* What the panel has done at each step of the run: it works on nothing where it is sent
\* something; a wait is for the one command before it; and when the BUSY line is high after that
\* command, the command has been done.
PanelInv ==
  /\ pc \in Steps \cup {Failed, NoRun}
  /\ pc \in Idling \cup Powered \cup {<<"command", "powerOff">>} => work = "none"
  /\ pc = <<"wait", "powerOn">> => work \in {"none", "powerOn"} /\ (work = "none" => power)
  /\ pc \in Powered => power
  /\ pc \in Drawn => ram = frame
  /\ pc = <<"wait", "refresh">> => power /\ work \in {"none", "refresh"} /\ (work = "none" => shown = frame)
  /\ pc \in {<<"command", "powerOff">>, <<"wait", "powerOff">>} => shown = frame
  /\ pc = <<"wait", "powerOff">> => work \in {"none", "powerOff"} /\ (work = "none" => ~power)
  /\ pc = Failed => result = "failed"
  /\ pc = Closing /\ result # "failed" => shown = frame /\ ~power /\ work = "none"
  /\ ShownOnSuccess

\* The steps at which nothing is known of the panel.
Settled == pc \in {NoRun, Failed, Closing} \cup {<<"open", "base">>, <<"open", "device">>, <<"panel", "reset">>}
                  \cup ({"export", "configure"} \X Lines)

LEMMA SettledSafe ==
  ASSUME Settled', pc' \in {Failed, Closing} => result' = "failed", pc' # NoRun \/ result' # "shown"
  PROVE  PanelInv'
<1>1. pc' \in Steps \cup {Failed, NoRun}
  BY DEF Settled, Steps, Lines, Closing
<1>2. pc' \notin Idling \cup Powered \cup Drawn /\ pc' # <<"command", "powerOff">> /\ pc' # <<"wait", "powerOff">>
      /\ pc' # <<"wait", "powerOn">> /\ pc' # <<"wait", "refresh">>
  BY DEF Settled, Lines, Idling, Powered, Drawn, NoRun, Failed, Closing
<1> QED BY <1>1, <1>2 DEF PanelInv, ShownOnSuccess

LEMMA OpenSafe ==
  ASSUME Accounted, PanelInv,
         \/ \E line \in Lines : Export(line) \/ Configure(line)
         \/ \E what \in {"base", "device"} : Open(what)
  PROVE  PanelInv'
<1>1. \/ pc' = Closing /\ result' = "failed"
      \/ /\ UNCHANGED result /\ pc \notin {NoRun, Failed, Closing}
         /\ pc' \in {<<"open", "device">>, <<"panel", "reset">>} \cup ({"export", "configure"} \X Lines)
  BY Afters DEF Export, Configure, Open, Pass, OpenFails, Lines, NoRun, Failed, Closing
<1>2. pc' # Closing => result' = "none"
  BY <1>1 DEF Accounted
<1> QED BY <1>1, <1>2, SettledSafe DEF Settled, Closing, NoRun, Failed, Lines

LEMMA InitializeSafe ==
  ASSUME Accounted, PanelInv, ResetPanel \/ Transfer("settings")
  PROVE  PanelInv'
BY Afters DEF ResetPanel, Transfer, Pass, DisplayFails, PanelInv, ShownOnSuccess, Steps, Idling,
    Powered, Drawn, NoRun, Failed, Closing, panel, run

LEMMA DataSafe ==
  ASSUME Accounted, PanelInv, NEW what \in {"oldData", "newData", "fast"}, Transfer(what)
  PROVE  PanelInv'
BY Afters DEF Transfer, Pass, DisplayFails, PanelInv, ShownOnSuccess, Steps, Idling, Powered,
    Drawn, NoRun, Failed, Closing, panel, run

LEMMA CommandSafe ==
  ASSUME Accounted, PanelInv, NEW what \in {"powerOn", "refresh", "powerOff"}, Command(what)
  PROVE  PanelInv'
BY Afters DEF Command, Pass, DisplayFails, PanelInv, ShownOnSuccess, Steps, Idling, Powered,
    Drawn, NoRun, Failed, Closing, panel, run

LEMMA WaitSafe ==
  ASSUME Accounted, PanelInv, NEW what \in {"powerOn", "refresh", "powerOff"}, Wait(what)
  PROVE  PanelInv'
BY Afters DEF Wait, PanelIdle, Pass, DisplayFails, PanelInv, ShownOnSuccess, Steps, Idling,
    Powered, Drawn, NoRun, Failed, Closing, panel, run

LEMMA EndSafe ==
  ASSUME Accounted, PanelInv, FailureOff \/ Close \/ Killed
  PROVE  PanelInv'
BY DEF FailureOff, Close, Killed, PanelInv, ShownOnSuccess, Steps, Idling, Powered, Drawn, NoRun,
    Failed, Closing, panel, run

LEMMA FinishSafe ==
  ASSUME Accounted, PanelInv, PanelFinishes
  PROVE  PanelInv'
BY DEF PanelFinishes, PanelInv, ShownOnSuccess, Steps, Idling, Powered, Drawn, NoRun, Failed,
    Closing, panel, run

LEMMA PanelRunSafe == ASSUME Accounted, PanelInv, PanelNext PROVE PanelInv'
BY OpenSafe, InitializeSafe, DataSafe, CommandSafe, WaitSafe, EndSafe, FinishSafe DEF PanelNext

LEMMA StartsSettled == ASSUME NEW f, Start(f) PROVE PanelInv'
<1>1. pc' = <<"open", "base">> /\ result' = "none"
  BY TheSteps DEF Start
<1> QED BY <1>1, SettledSafe DEF Settled, Closing, NoRun, Failed

\* Between the runs the panel may only finish what it does.
LEMMA OtherSafe ==
  ASSUME PanelInv, NoPanelStep, result' # "shown", pc = NoRun \/ result' = result
  PROVE  PanelInv'
BY DEF PanelInv, NoPanelStep, ShownOnSuccess, Steps, Idling, Powered, Drawn, NoRun, Failed,
    Closing, panel

LEMMA PanelInvStep == ASSUME Accounted, PanelInv, [EinkctlNext]_<<layout, vars>> PROVE PanelInv'
<1>1. CASE UNCHANGED vars
  BY <1>1 DEF vars, PanelInv, ShownOnSuccess
<1>2. CASE Idle /\ \E bytes \in Readable : Read(bytes)
  BY <1>2, OtherSafe DEF Idle, Read
<1>3. CASE LayOut
  BY <1>1, <1>3 DEF LayOut
<1>4. CASE \E page \in 0 .. MaxPage : Render(page)
  BY <1>4, OtherSafe DEF Render, Accounted
<1>5. CASE (\E page \in 0 .. MaxPage : Display(page)) \/ Clear
  BY <1>5, StartsSettled DEF Display, Clear
<1>6. CASE Refuse \/ Interrupted
  BY <1>6, OtherSafe DEF Refuse, Interrupted, Accounted
<1>7. CASE PanelNext
  BY <1>7, PanelRunSafe
<1> QED BY <1>1, <1>2, <1>3, <1>4, <1>5, <1>6, <1>7 DEF EinkctlNext, vars

LEMMA PanelInvariant == EinkctlSpec => [](Accounted /\ PanelInv)
<1>1. EinkctlInit => Accounted
  BY DEF EinkctlInit, Init, Accounted, LinesReturned
<1>2. EinkctlInit => PanelInv
  BY DEF EinkctlInit, Init, PanelInv, ShownOnSuccess, Steps, Idling, Powered, Drawn, NoRun,
      Failed, Closing
<1>3. Accounted /\ PanelInv /\ [EinkctlNext]_<<layout, vars>> => Accounted' /\ PanelInv'
  BY AccountedStep, PanelInvStep
<1> QED BY <1>1, <1>2, <1>3, PTL DEF EinkctlSpec

\* When a run exits with success the panel shows its frame, is idle and has no power, whatever
\* an earlier run that failed or was killed in the middle had left it doing.
THEOREM SuccessIsShown == EinkctlSpec => []ShownOnSuccess
<1>1. PanelInv => ShownOnSuccess
  BY DEF PanelInv
<1> QED BY <1>1, PanelInvariant, PTL

\* But for the power-off on the way out no command and no data go to a panel at work: every
\* command it works on is waited for, and what an earlier run began is reset.
THEOREM BusyIsLeftAlone == EinkctlSpec => NoCommandWhileBusy
<1>1. PanelInv => (pc[1] \in {"transfer", "command"} /\ pc' \notin {pc, NoRun} => work = "none")
  <2> SUFFICES ASSUME PanelInv, pc[1] \in {"transfer", "command"} PROVE work = "none"
    OBVIOUS
  <2>1. pc \in Idling \cup Powered \cup {<<"command", "powerOff">>}
    BY DEF PanelInv, Steps, Idling, Powered, NoRun, Failed, Closing
  <2> QED BY <2>1 DEF PanelInv
<1> QED BY <1>1, PanelInvariant, PTL DEF NoCommandWhileBusy
-----------------------------------------------------------------------------
(* Types *)

\* Only lines that are exported are opened, as each is configured after it is exported; between
\* runs none is open.
LinesInv ==
  /\ opened \subseteq exported /\ exported \subseteq Lines /\ mine \cap found = {} /\ mine \subseteq exported
  /\ \A line \in Lines : pc = <<"configure", line>> => line \in exported
  /\ pc = NoRun => opened = {} /\ mine = {}
ValuesInv ==
  /\ result \in {"none", "rendered", "shown", "failed", "killed"}
  /\ power \in BOOLEAN /\ work \in {"none", "powerOn", "refresh", "powerOff"}
  /\ escape \in {"none", "start", "csi", "osc"}
FramesInv == {frame, ram, shown} \subseteq Frames \cup {Unknown}

LEMMA LinesStep == ASSUME Accounted, LinesInv, [EinkctlNext]_<<layout, vars>> PROVE LinesInv'
<1>1. CASE UNCHANGED <<pc, lines, found>>
  BY <1>1 DEF lines, LinesInv
<1>2. CASE NoPanelStep /\ pc = NoRun
  BY <1>2 DEF NoPanelStep, LinesInv
<1>3. CASE \E f : Start(f)
  BY <1>3, TheSteps DEF Start, LinesInv, NoRun
<1>4. CASE \E line \in Lines : Export(line)
  <2>1. PICK line \in Lines : Export(line)
    BY <1>4
  <2>2. pc' \in {<<"configure", line>>, Closing} /\ pc' # NoRun
    BY <2>1, Afters DEF Export, Pass, OpenFails, Lines, Closing, NoRun
  <2>3. pc' = <<"configure", line>> => exported' = exported \cup {line}
    BY <2>1, <2>2 DEF Export, OpenFails, Closing
  <2>4. pc # NoRun /\ UNCHANGED <<found, opened>>
    BY <2>1, Distinct DEF Export, Pass, OpenFails, run
  <2>5. exported = found \cup mine /\ mine \cap found = {}
    BY <2>4 DEF Accounted
  <2>6. CASE UNCHANGED <<exported, mine>>
    BY <2>2, <2>3, <2>4, <2>6 DEF LinesInv, Closing
  <2>7. CASE exported' = exported \cup {line} /\ mine' = mine \cup Owned(line)
    BY <2>2, <2>4, <2>5, <2>7 DEF LinesInv, Closing, Owned
  <2> QED BY <2>1, <2>6, <2>7 DEF Export
<1>5. CASE \E line \in Lines : Configure(line)
  <2>1. PICK line \in Lines : Configure(line)
    BY <1>5
  <2>2. pc' # NoRun /\ \A other \in Lines : pc' # <<"configure", other>>
    BY <2>1, Afters DEF Configure, Pass, OpenFails, Lines, Closing, NoRun
  <2>3. line \in exported
    BY <2>1 DEF Configure, Pass, OpenFails, LinesInv
  <2>4. opened' \in {opened, opened \cup {line}} /\ UNCHANGED <<mine, exported, found>>
    BY <2>1 DEF Configure, run
  <2> QED BY <2>2, <2>3, <2>4 DEF LinesInv
<1>6. CASE /\ UNCHANGED <<lines, found>> /\ pc # NoRun /\ pc' # NoRun
           /\ \A line \in Lines : pc' = <<"configure", line>> => pc' = pc
  BY <1>6 DEF lines, LinesInv
<1>7. CASE \E what \in {"base", "device"} : Open(what)
  <2>1. /\ pc \notin {NoRun} /\ pc' \in {<<"export", "dc">>, <<"panel", "reset">>, Closing}
    BY <1>7, Afters DEF Open, Pass, OpenFails, Closing, NoRun
  <2> QED BY <1>6, <1>7, <2>1 DEF Open, run, lines, Lines, Closing, NoRun
<1>8. CASE ResetPanel \/ \E what \in {"settings", "oldData", "newData", "fast"} : Transfer(what)
  <2>1. pc # NoRun /\ pc' # NoRun /\ \A line \in Lines : pc' # <<"configure", line>>
    BY <1>8, Afters DEF ResetPanel, Transfer, Pass, DisplayFails, Lines, Failed, NoRun
  <2> QED BY <1>6, <1>8, <2>1 DEF ResetPanel, Transfer, run
<1>9. CASE \E what \in {"powerOn", "refresh", "powerOff"} : Command(what) \/ Wait(what)
  <2>1. pc # NoRun /\ pc' # NoRun /\ \A line \in Lines : pc' # <<"configure", line>>
    BY <1>9, Afters DEF Command, Wait, Pass, DisplayFails, Lines, Failed, NoRun, Closing
  <2> QED BY <1>6, <1>9, <2>1 DEF Command, Wait, run
<1>10. CASE FailureOff
  BY <1>6, <1>10 DEF FailureOff, run, Lines, Failed, Closing, NoRun
<1>11. CASE Close \/ Killed
  <2>1. /\ pc' = NoRun /\ opened' = {} /\ mine' = {} /\ found' = found
        /\ exported' \subseteq exported
    BY <1>11 DEF Close, Killed, run
  <2> QED BY <2>1 DEF LinesInv, NoRun
<1>12. CASE PanelFinishes
  BY <1>1, <1>12 DEF PanelFinishes, run
<1>13. CASE PanelNext
  BY <1>4, <1>5, <1>7, <1>8, <1>9, <1>10, <1>11, <1>12, <1>13 DEF PanelNext
<1>14. CASE UNCHANGED vars
  BY <1>1, <1>14 DEF vars, lines
<1>15. CASE LayOut
  BY <1>14, <1>15 DEF LayOut
<1> QED BY <1>2, <1>3, <1>13, <1>14, <1>15 DEF EinkctlNext, vars, Idle, Read, Render, Display,
    Clear, Refuse, Interrupted, Accounted

LEMMA ValuesStep == ASSUME ValuesInv, [EinkctlNext]_<<layout, vars>> PROVE ValuesInv'
<1>1. CASE UNCHANGED <<power, work, result, escape>>
  BY <1>1 DEF ValuesInv
<1>2. ASSUME NEW r, r \in {"none", "rendered", "shown", "failed", "killed"}, result' = r,
             UNCHANGED panel, escape' \in {escape, "none"}
      PROVE  ValuesInv'
  BY <1>2 DEF panel, ValuesInv
<1>3. CASE Idle /\ \E bytes \in Readable : Read(bytes)
  BY <1>2, <1>3 DEF Read, NoPanelStep, BeginLayout, layout
<1>4. CASE LayOut
  <2>1. UNCHANGED panel /\ UNCHANGED result
    BY <1>4 DEF LayOut, vars, panel
  <2>2. escape' \in {"none", "start", "csi", "osc"}
    BY <1>4 DEF LayOut, Sanitize, Sanitized, WrapLine, Wrapped, InEscape, Plain, Consume, ValuesInv
  <2> QED BY <2>1, <2>2 DEF ValuesInv, panel
<1>5. CASE \E page \in 0 .. MaxPage : Render(page)
  BY <1>2, <1>5 DEF Render, NoLayout, NoPanelStep
<1>6. CASE \E page \in 0 .. MaxPage : Display(page)
  BY <1>2, <1>6 DEF Display, NoLayout, Start
<1>7. CASE Clear
  BY <1>2, <1>7 DEF Clear, Start, layout
<1>8. CASE Refuse \/ Interrupted
  BY <1>2, <1>8 DEF Refuse, Interrupted, NoLayout, NoPanelStep
<1>9. CASE PanelNext /\ UNCHANGED layout
  <2>1. escape' = escape
    BY <1>9 DEF layout
  <2>2. result' \in {result, "failed", "shown", "killed"}
    BY <1>9 DEF PanelNext, Export, Configure, Open, ResetPanel, Transfer, Command, Wait, FailureOff,
      Close, Killed, PanelFinishes, OpenFails, DisplayFails
  <2>3. work' \in {work, "none", "powerOn", "refresh", "powerOff"}
    BY <1>9 DEF PanelNext, Export, Configure, Open, ResetPanel, Transfer, Command, Wait, FailureOff,
      Close, Killed, PanelFinishes, panel
  <2>4. power' \in BOOLEAN
    BY <1>9 DEF PanelNext, Export, Configure, Open, ResetPanel, Transfer, Command, Wait, FailureOff,
      Close, Killed, PanelFinishes, panel, ValuesInv
  <2> QED BY <2>1, <2>2, <2>3, <2>4 DEF ValuesInv
<1>10. CASE UNCHANGED <<layout, vars>>
  BY <1>1, <1>10 DEF layout, vars, panel
<1> QED BY <1>3, <1>4, <1>5, <1>6, <1>7, <1>8, <1>9, <1>10 DEF EinkctlNext

\* What is drawn of a page is rows of symbols.
LEMMA PageDrawn ==
  ASSUME LayoutInv, NEW page \in Nat PROVE Frame(page) \in Seq(Seq(Symbols))
<1> DEFINE from == page * Rows + 1
           to == Min({(page + 1) * Rows, Len(rows)})
<1>1. rows \in Seq(Stretches) /\ Len(rows) \in Nat /\ text \in Seq(Symbols) /\ Len(text) \in Nat
      /\ Rows \in Nat
  BY LayoutAssumption DEF LayoutInv, TextInv
<1>2. from \in Nat /\ from >= 1 /\ to \in Nat /\ to <= Len(rows)
  <2>1. page * Rows \in Nat /\ (page + 1) * Rows \in Nat
    BY <1>1
  <2> DEFINE both == {(page + 1) * Rows, Len(rows)}
  <2>2. both \in SUBSET Nat /\ both # {} /\ Len(rows) \in both
    BY <1>1, <2>1
  <2>3. to = Min(both)
    OBVIOUS
  <2> HIDE DEF both, to
  <2>4. to \in both /\ to <= Len(rows)
    BY <2>2, <2>3, MinOfNats
  <2> QED BY <2>1, <2>2, <2>4
<1>3. PageRows(page) = SubSeq(rows, from, to)
  BY DEF PageRows
<1> HIDE DEF from, to
<1>4. \A i \in 1 .. Len(rows) : Shown(rows[i]) \in Seq(Symbols)
  <2> SUFFICES ASSUME NEW i \in 1 .. Len(rows) PROVE Shown(rows[i]) \in Seq(Symbols)
    OBVIOUS
  <2>1. rows[i] \in Stretches
    BY <1>1
  <2>5. rows[i].first \in Nat /\ rows[i].length \in Nat
    BY <2>1 DEF Stretches
  <2>2. rows[i].first + rows[i].length <= Len(text)
    BY DEF LayoutInv, Ordered, End
  <2> DEFINE a == rows[i].first + 1
             b == rows[i].first + rows[i].length
  <2>3. a \in Nat /\ a >= 1 /\ b \in Nat /\ b <= Len(text)
    BY <1>1, <2>5, <2>2
  <2>4. Shown(rows[i]) = SubSeq(text, a, b)
    BY DEF Shown
  <2> HIDE DEF a, b
  <2> QED BY <1>1, <2>3, <2>4
<1> DEFINE part == SubSeq(rows, from, to)
<1>5. part \in Seq(Stretches) /\ \A i \in 1 .. Len(part) : \E j \in 1 .. Len(rows) : part[i] = rows[j]
  BY <1>1, <1>2
<1> HIDE DEF part
<1>6. Len(part) \in Nat /\ DOMAIN part = 1 .. Len(part)
  BY <1>5
<1>7. \A i \in 1 .. Len(part) : Shown(part[i]) \in Seq(Symbols)
  BY <1>4, <1>5
<1>8. Frame(page) = [i \in 1 .. Len(part) |-> Shown(part[i])]
  BY <1>3, <1>6 DEF Frame, part
<1>9. Frame(page) \in [1 .. Len(part) -> Seq(Symbols)]
  BY <1>7, <1>8
<1> QED BY <1>6, <1>9, SeqDef

LEMMA FramesStep ==
  ASSUME Seq(Seq(Symbols)) \subseteq Frames, LayoutInv, FramesInv, [EinkctlNext]_<<layout, vars>>
  PROVE  FramesInv'
<1>1. CASE UNCHANGED <<frame, ram, shown>>
  BY <1>1 DEF FramesInv
<1>2. ASSUME NEW f \in Seq(Seq(Symbols)), Start(f) PROVE FramesInv'
  BY <1>2 DEF Start, panel, FramesInv
<1>3. CASE \E page \in 0 .. MaxPage : Display(page)
  <2>1. PICK page \in 0 .. MaxPage : Display(page)
    BY <1>3
  <2>2. page \in Nat
    BY InputsAssumption
  <2> QED BY <1>2, <2>1, <2>2, PageDrawn DEF Display
<1>4. CASE Clear
  <2>1. White \in Seq(Seq(Symbols))
    BY DEF White
  <2> QED BY <1>2, <1>4, <2>1 DEF Clear
<1>5. CASE PanelNext
  <2>1. {ram', shown'} \subseteq {frame, ram, shown, Unknown} /\ frame' = frame
    BY <1>5 DEF PanelNext, Export, Configure, Open, ResetPanel, Transfer, Command, Wait, FailureOff,
      Close, Killed, PanelFinishes, panel, run
  <2> QED BY <2>1 DEF FramesInv
<1> QED BY <1>1, <1>3, <1>4, <1>5 DEF EinkctlNext, Idle, Read, LayOut, Render, Refuse, Interrupted,
      NoPanelStep, panel, vars

\* The types, for frames that include every page of text: the run is at a step of its sequence, a
\* layout and a run never share the program, only exported lines are opened, and a run owns no
\* line that it found.
THEOREM TypesCorrect ==
  ASSUME Seq(Seq(Symbols)) \subseteq Frames PROVE EinkctlSpec => []EinkctlTypeOK
<1>1. EinkctlInit => LinesInv /\ ValuesInv /\ FramesInv
  <2>1. EinkctlInit => LinesInv
    BY DEF EinkctlInit, Init, LinesInv, NoRun
  <2>2. EinkctlInit => ValuesInv
    BY DEF EinkctlInit, Init, ValuesInv
  <2>3. EinkctlInit => FramesInv
    BY DEF EinkctlInit, Init, FramesInv
  <2> QED BY <2>1, <2>2, <2>3
<1>2. (LayoutInv /\ Accounted /\ PanelInv) /\ LinesInv /\ ValuesInv /\ FramesInv
        /\ [EinkctlNext]_<<layout, vars>> => LinesInv' /\ ValuesInv' /\ FramesInv'
  BY LinesStep, ValuesStep, FramesStep
<1>3. LayoutInv /\ Accounted /\ PanelInv /\ LinesInv /\ ValuesInv /\ FramesInv => EinkctlTypeOK
  <2> SUFFICES ASSUME LayoutInv, Accounted, PanelInv, LinesInv, ValuesInv, FramesInv PROVE EinkctlTypeOK
    OBVIOUS
  <2>1. pc \in {Sequence[i] : i \in 1 .. Len(Sequence)} \cup {Failed, NoRun}
    <3>1. pc \in Steps \cup {Failed, NoRun}
      BY DEF PanelInv
    <3>2. Steps \subseteq {Sequence[i] : i \in 1 .. 20}
      BY TheSteps DEF Steps, Closing
    <3> QED BY <3>1, <3>2, TheSteps
  <2>2. TypeOK
    BY <2>1 DEF TypeOK, LinesInv, ValuesInv, FramesInv
  <2>3. \A i \in DOMAIN text : text[i] \in {"x", " ", "\n"}
    <3>1. \A i \in DOMAIN text : text[i] \in Symbols
      BY DEF LayoutInv, TextInv
    <3> QED BY <3>1 DEF Symbols
  <2> QED BY <2>2, <2>3 DEF EinkctlTypeOK, LayoutInv, TextInv, Accounted, ValuesInv
<1> QED BY <1>1, <1>2, <1>3, LayoutInvariant, PanelInvariant, PTL DEF EinkctlSpec
=============================================================================
