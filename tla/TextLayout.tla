------------------------------- MODULE TextLayout -------------------------------
(***************************************************************************)
(* render_text of einkctl (runtime/einkctl.c): the bytes of an input become  *)
(* text without escape sequences, the text becomes lines of at most Columns  *)
(* characters, and the lines pages of Rows.                                 *)
(*                                                                         *)
(* A byte stands for what the code tells apart; "x" is any printable one     *)
(* that is no other symbol.  Positions count from 0.  A line is the stretch  *)
(* of the text it shows: its first position and its length.                  *)
(***************************************************************************)
EXTENDS Naturals, Sequences, FiniteSetsExt

CONSTANTS Columns, Rows

ASSUME LayoutAssumption == Columns \in Nat /\ Columns >= 3 /\ Rows \in Nat \ {0}

VARIABLES
  phase,   \* "none", "sanitize", "wrap" or "laid"
  input, source, escape,  \* the bytes, those read, and the escape sequence they are in
  text,    \* the sanitized text
  cursor,  \* where the next line begins
  rows     \* the lines

layout == <<phase, input, source, escape, text, cursor, rows>>

Printable == {"x", " ", "[", "]", "\\"}
Bytes == Printable \cup {"\n", "\r", "\t", "bell", "esc", "lead", "continuation"}

NoLayout ==
  /\ phase' = "none" /\ input' = <<>> /\ source' = 0 /\ escape' = "none"
  /\ text' = <<>> /\ cursor' = 0 /\ rows' = <<>>
BeginLayout(bytes) == phase' = "sanitize" /\ input' = bytes /\ UNCHANGED <<source, escape, text, cursor, rows>>
-----------------------------------------------------------------------------
(* sanitize_text: one round of its loop *)

Byte == input[source + 1]
Follows(byte) == source + 1 < Len(input) /\ input[source + 2] = byte
Consume(n, mode, out) == source' = source + n /\ escape' = mode /\ text' = text \o out
Blanks(n) == [i \in 1 .. n |-> " "]
\* Faulty: a tab is as wide as elsewhere.
Eight == Blanks(8 - (Len(text) % 8))
Tab == Blanks(4 - (Len(text) % 4))

InEscape ==
  \/ /\ escape = "start"
     /\ Consume(1, CASE Byte = "[" -> "csi" [] Byte = "]" -> "osc" [] OTHER -> "none", <<>>)
  \/ /\ escape = "csi"
     /\ Consume(1, IF Byte \in Printable \ {" "} THEN "none" ELSE "csi", <<>>)
  \/ /\ escape = "osc"
     /\ IF Byte = "esc" /\ Follows("\\") THEN Consume(2, "none", <<>>)
        ELSE Consume(1, IF Byte = "bell" THEN "none" ELSE "osc", <<>>)
Plain ==
  /\ escape = "none"
  /\ \/ Byte = "esc" /\ Consume(1, "start", <<>>)
     \/ Byte = "\r" /\ Consume(1, "none", IF Follows("\n") THEN <<>> ELSE <<"\n">>)
     \/ Byte = "\t" /\ Consume(1, "none", Tab)
     \/ Byte \in {"\n", " "} /\ Consume(1, "none", <<Byte>>)
     \/ Byte \in Printable \ {" "} /\ Consume(1, "none", <<"x">>)
     \/ Byte = "bell" /\ Consume(1, "none", <<>>)
     \/ /\ Byte \in {"lead", "continuation"}
        /\ LET others == {i \in source + 2 .. Len(input) : input[i] # "continuation"}
           IN Consume(Min(others \cup {Len(input) + 1}) - source - 1, "none", <<"x">>)
Sanitize ==
  /\ phase = "sanitize" /\ source < Len(input) /\ (InEscape \/ Plain)
  /\ UNCHANGED <<phase, input, cursor, rows>>
Sanitized ==
  /\ phase = "sanitize" /\ source = Len(input) /\ phase' = "wrap"
  /\ UNCHANGED <<input, source, escape, text, cursor, rows>>
-----------------------------------------------------------------------------
(* wrap_text: one line *)

At(i) == text[i + 1]
PhysicalEnd == Min({i \in cursor .. Len(text) - 1 : At(i) = "\n"} \cup {Len(text)})
\* Faulty: every line is split at the last column.
SplitHard(take) == take
\* A line that does not end its physical line is split at its last space, unless that is in its
\* first third.  (Trailing blanks are not trimmed: the loop that does is undone by the next test.)
SplitAt(take) ==
  LET last == Max({i \in 1 .. take : At(cursor + i) = " "} \cup {0})
  IN IF last < Columns \div 3 THEN take ELSE last
Split ==
  LET remaining == PhysicalEnd - cursor
  IN IF remaining <= Columns THEN remaining ELSE SplitAt(Columns)
\* The spaces a line was split at are on no line.
NextCursor(from) ==
  LET next == Min({i \in from .. PhysicalEnd - 1 : At(i) # " "} \cup {PhysicalEnd})
  IN IF next = PhysicalEnd THEN next + 1 ELSE next
\* lines_push
Pushed(first, length) == Append(rows, [first |-> first, length |-> Min({length, Columns})])

WrapLine ==
  /\ phase = "wrap" /\ cursor < Len(text)
  /\ rows' = Pushed(cursor, Split) /\ cursor' = NextCursor(cursor + Split)
  /\ UNCHANGED <<phase, input, source, escape, text>>
\* A text that is empty or ends in a newline has an empty line at its end.
Wrapped ==
  /\ phase = "wrap" /\ cursor >= Len(text) /\ phase' = "laid"
  /\ rows' = IF text = <<>> \/ At(Len(text) - 1) = "\n" THEN Pushed(Len(text), 0) ELSE rows
  /\ UNCHANGED <<input, source, escape, text, cursor>>

\* render_text: the pages.
\* Faulty: a page that is not full is none.
FullPages == Max({Len(rows) \div Rows, 1})
Pages == Max({(Len(rows) + Rows - 1) \div Rows, 1})
PageRows(page) == SubSeq(rows, page * Rows + 1, Min({(page + 1) * Rows, Len(rows)}))
\* What is drawn of a page.
Shown(line) == SubSeq(text, line.first + 1, line.first + line.length)
Frame(page) == [i \in DOMAIN PageRows(page) |-> Shown(PageRows(page)[i])]
-----------------------------------------------------------------------------
\* render_text allocates four bytes for each byte of the input.
FitsBuffer == Len(text) <= 4 * source

Has(line, i) == i \in line.first .. line.first + line.length - 1
\* Whoever turns all the pages reads every character of the text once, in its order: none is
\* lost where lines are split, and no line is between two pages.
EveryCharacterOnce == phase = "laid" =>
  /\ \A i \in 0 .. Len(text) - 1 : At(i) \notin {" ", "\n"} =>
       Cardinality({place \in [page : 0 .. Pages - 1, row : 1 .. Rows] :
         /\ place.row \in DOMAIN PageRows(place.page)
         /\ Has(PageRows(place.page)[place.row], i)}) = 1
  /\ \A k \in 2 .. Len(rows) : rows[k - 1].first + rows[k - 1].length <= rows[k].first

\* The word at a position, and the stretch of blanks before it.
WordEnd(i) == Min({j \in i .. Len(text) - 1 : At(j) \in {" ", "\n"}} \cup {Len(text)})
InWord(i) == i \in 1 .. Len(text) - 1 /\ {At(i - 1), At(i)} \cap {" ", "\n"} = {}
\* A line is as long as its words allow: the first word of the next line does not fit, and a
\* word is split only where it begins in the first third of a line that it overruns, or at
\* the line's begin.
LinesAreFull == phase = "laid" => \A k \in 2 .. Len(rows) :
  LET line == rows[k - 1]
      end == line.first + line.length
      next == rows[k].first
  IN (\A i \in line.first .. next - 1 : At(i) # "\n") =>
       /\ WordEnd(next) > line.first + Columns
       /\ InWord(end) => \E i \in line.first .. line.first + Columns \div 3 : \A j \in i + 1 .. WordEnd(next) - 1 : InWord(j)
=============================================================================
