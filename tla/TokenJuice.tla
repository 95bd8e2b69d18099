----------------------------- MODULE TokenJuice -----------------------------
(***************************************************************************)
(* compress_context: how a text is made to fit the budget of a prompt.     *)
(*                                                                         *)
(* A text is the sequence of its lines, joined by newlines; of a line      *)
(* there are its words (what is left of it once its right end is trimmed), *)
(* their number of characters and the number of blanks after them.         *)
(***************************************************************************)
EXTENDS Naturals, Sequences, FiniteSetsExt

CONSTANTS
  Texts,         \* sequences of lines
  BudgetChars    \* values of budget_chars

\* A line, and the words of a line of nothing.
Lines == [words : STRING, len : Nat, pad : Nat]
Blank == "blank"

ASSUME TokenJuiceAssumption == Texts \subseteq Seq(Lines) /\ BudgetChars \subseteq Nat

\* The arguments of a call, which computes and changes nothing.
VARIABLES context, budget_chars
call == <<context, budget_chars>>

CallInit == context \in Texts /\ budget_chars \in BudgetChars
CallSpec == CallInit /\ [][FALSE]_call

\* The characters of "\n", an ellipsis and the words in brackets.
MARKER == 18

\* count_chars.
CountChars(lines) ==
  LET n[k \in 0 .. Len(lines)] ==
        IF k = 0 THEN 0
        ELSE n[k - 1] + lines[k].len + lines[k].pad + IF k > 1 THEN 1 ELSE 0
  IN n[Len(lines)]

\* Bug: a line goes that any line before it has said.
PushOnce(out, line) ==
  IF \E i \in DOMAIN out : out[i].words = line.words THEN out
  ELSE Append(out, [line EXCEPT !.pad = 0])

\* out.push: trimmed, unless it repeats the line before it, be it blank or not.
Push(out, line) ==
  IF out # <<>> /\ out[Len(out)].words = line.words THEN out
  ELSE Append(out, [line EXCEPT !.pad = 0])

\* out, after each of the lines.
Pushed(lines) ==
  LET out[k \in 0 .. Len(lines)] == IF k = 0 THEN <<>> ELSE Push(out[k - 1], lines[k])
  IN out

\* tidy: the lines that do not repeat (of blank lines two are enough, tokenjuice.rs:27 says
\* three), without blank ones at either end.
Tidy(lines) ==
  LET out == Pushed(lines)[Len(lines)]
      said == {i \in DOMAIN out : out[i].words # Blank}
  IN IF said = {} THEN <<>> ELSE SubSeq(out, Min(said), Max(said))

\* Bug: the marker comes on top.
TruncateOver(chars, budget) ==
  [kept |-> Min({chars, budget}), marked |-> budget > MARKER]

\* truncate_chars: how many characters are kept, and whether the marker is put after them.
TruncateChars(chars, budget) ==
  IF budget > MARKER THEN [kept |-> Min({chars, budget - MARKER}), marked |-> TRUE]
  ELSE [kept |-> Min({chars, budget}), marked |-> FALSE]

\* compress_context: the lines, and how much of them is written.
CompressContext(lines, budget) ==
  LET tidied == Tidy(lines)
      whole(ls) == [lines |-> ls, kept |-> CountChars(ls), marked |-> FALSE]
  IN CASE CountChars(lines) <= budget -> whole(lines)
       [] CountChars(lines) > budget /\ CountChars(tidied) <= budget -> whole(tidied)
       [] OTHER -> LET cut == TruncateChars(CountChars(tidied), budget)
                   IN [lines |-> tidied, kept |-> cut.kept, marked |-> cut.marked]

-----------------------------------------------------------------------------
(* Properties.                                                             *)

\* What is compressed is within the budget, the marker included, and the budget is used: a
\* text that fits is not touched, and one that is cut fills it.
CompressedFits ==
  LET c == CompressContext(context, budget_chars)
      size == c.kept + IF c.marked THEN MARKER ELSE 0
  IN /\ size <= budget_chars
     /\ CountChars(context) <= budget_chars => c.lines = context
     /\ c.kept < CountChars(c.lines) => size = budget_chars

Words(lines) == [k \in DOMAIN lines |-> lines[k].words]

\* Nothing is said differently by a text that was tidied: between its lines there are the
\* same changes from one line to the next, none is new, and tidying it again does nothing.
TidyKeeps ==
  LET changes(ls) == {<<Words(ls)[i], Words(ls)[i + 1]>> : i \in 1 .. Len(ls) - 1}
      tidied == Tidy(context)
  IN /\ Tidy(tidied) = tidied
     /\ Len(tidied) <= Len(context) /\ CountChars(tidied) <= CountChars(context)
     /\ \A c \in changes(context) : c[1] # c[2] /\ Blank \notin {c[1], c[2]} => c \in changes(tidied)
     /\ \A c \in changes(tidied) : c \in changes(context) /\ c[1] # c[2]

\* A prompt gets as much of its context as the budget allows, and no line twice in a row.
ContextKept == CompressedFits /\ TidyKeeps
=============================================================================
