------------------------------ MODULE CommandLine ------------------------------
(***************************************************************************)
(* splitCommand, which makes an argv of the command of a shell_command     *)
(* node.  A character is its name, a command a sequence of characters.     *)
(***************************************************************************)
EXTENDS Naturals, Sequences

CONSTANTS
  Char,       \* characters
  Words,      \* words to make command lines of
  MaxWords    \* bound on the words in a line

Quote == {"single", "double"}
Space == {"blank", "tab", "newline"}

ASSUME CharAssumption == Quote \cup Space \subseteq Char
ASSUME WordsAssumption == Words \subseteq Seq(Char) \ {<<>>} /\ MaxWords \in Nat

\* What the loop keeps: parts, current and, in a quoted string, quoteChar.
Scanner == [parts |-> <<>>, current |-> <<>>, quote |-> "none"]

\* A word ends, unless it is empty.
Cut(state) ==
  IF state.current = <<>> THEN state
  ELSE [state EXCEPT !.parts = Append(@, state.current), !.current = <<>>]

\* Mutant of Closes: any quote ends a quoted string.
ClosesAny(state, c) == c \in Quote

\* Only the quote that began a quoted string ends it.
Closes(state, c) == c = state.quote

Scan(state, c) ==
  CASE state.quote # "none" /\ Closes(state, c) -> [state EXCEPT !.quote = "none"]
    [] state.quote = "none" /\ c \in Quote -> [state EXCEPT !.quote = c]
    [] state.quote = "none" /\ c \in Space -> Cut(state)
    [] OTHER -> [state EXCEPT !.current = Append(@, c)]

\* The states of the loop, before it and after each character.
Scanned(command) ==
  LET state[i \in 0..Len(command)] ==
        IF i = 0 THEN Scanner ELSE Scan(state[i - 1], command[i])
  IN  state

splitCommand(command) == Cut(Scanned(command)[Len(command)]).parts

-------------------------------------------------------------------------------
\* A piece of a word as a user would write it: in quotes that it does not contain,
\* or as it is if it has nothing special.
Quoted(p) ==
  LET chars == {p[i] : i \in DOMAIN p} IN
  {<<q>> \o p \o <<q>> : q \in Quote \ chars}
    \cup {v \in {p} : chars \cap (Quote \cup Space) = {}}

\* The ways to write the first n characters of w, in one piece or several.
Extended(texts, p) == {t \o v : t \in texts, v \in Quoted(p)}

Writings(w) ==
  LET writings[n \in 0..Len(w)] ==
        IF n = 0 THEN {<<>>}
        ELSE UNION {Extended(writings[k], SubSeq(w, k + 1, n)) : k \in 0..(n - 1)}
  IN  writings

\* The ways to write the first n words of ws, with a space before each.
Followed(lines, w) ==
  LET starts == {line \o <<s>> : line \in lines, s \in Space} IN
  {start \o v : start \in starts, v \in Writings(w)[Len(w)]}

Lines(ws) ==
  LET lines[n \in 0..Len(ws)] ==
        IF n = 0 THEN {<<>>} ELSE Followed(lines[n - 1], ws[n])
  IN  lines

\* However its words are written and whatever they contain, a command line is split
\* into these words, neither joined nor torn, in their order.
WordsSurvive ==
  \A ws \in UNION {[1..n -> Words] : n \in 0..MaxWords} :
    \A line \in Lines(ws)[Len(ws)] : splitCommand(line) = ws
===============================================================================
