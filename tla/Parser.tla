------------------------------- MODULE Parser -------------------------------
(***************************************************************************)
(* The parser of the standalone shell, yash/parser.h: two regular          *)
(* expressions, the first searched for the two sides of a pipe and the     *)
(* second, in each side, for                                               *)
(*   program, arguments, redirection, redirection, "&"                     *)
(* all but the program optional.  regexec returns the leftmost longest     *)
(* match; it need not reach the end of the text, and what it leaves over   *)
(* is dropped.  Texts are intervals of positions in the line.              *)
(***************************************************************************)
EXTENDS CommandLine

NoText == <<0, -1>>

\* The longest stretch of characters of C that starts at i, within the text.
Stretch(s, text, i, C) ==
  <<i, Max({i - 1} \cup {j \in i .. text[2] : \A k \in i .. j : s[k] \in C})>>

IsEmpty(text) == text[2] < text[1]

NoBar == Chars \ {"|"}
NotSpecial == Chars \ Special

\* The words of strtok with a space as delimiter.
addArguments(s, text) ==
  Intervals({i \in text[1] .. text[2] : s[i] # " "})

\* [<>]\s*[^|<>& ]+ at i: its kind, its file without leading whitespace, and
\* where it ends.
Redirection(s, text, i) ==
  LET gap == Stretch(s, text, i + 1, {" "})
      file == Stretch(s, text, gap[2] + 1, WordChars)
  IN IF i <= text[2] /\ s[i] \in {"<", ">"} /\ ~IsEmpty(file)
       THEN [kind |-> s[i], file |-> file, next |-> file[2] + 1]
       ELSE [kind |-> "", file |-> NoFile, next |-> i]

\* A faulty variant: the first one stays.
FirstFileOf(kind, first, second) ==
  IF first.kind = kind THEN first.file
  ELSE IF second.kind = kind THEN second.file ELSE NoFile

\* setInfile and setOutfile, in the order of the groups: the last one stays.
FileOf(kind, first, second) ==
  IF second.kind = kind THEN second.file
  ELSE IF first.kind = kind THEN first.file ELSE NoFile

\* c->program is also c->arguments[0]; a text without a match gives no program.
parseCommand(s, text) ==
  LET start == {i \in text[1] .. text[2] : s[i] \in WordChars}
      program == Stretch(s, text, Min(start), WordChars)
      arguments == Stretch(s, text, program[2] + 1, NotSpecial)
      after(r) == Stretch(s, text, r.next, {" "})[2] + 1
      first == Redirection(s, text, arguments[2] + 1)
      second == Redirection(s, text, after(first))
      last == after(second)
  IN IF start = {}
       THEN [argv |-> <<>>, in |-> NoFile, out |-> NoFile, bg |-> FALSE]
       ELSE [argv |-> <<program>> \o addArguments(s, arguments),
             in |-> FileOf("<", first, second), out |-> FileOf(">", first, second),
             bg |-> last <= text[2] /\ s[last] = "&"]

\* ([^|]+)\|([^|]+): the first "|" between two texts, and these.
parsePipe(s) ==
  LET all == <<1, Len(s)>>
      sides == Intervals(Positions(s, NoBar))
      left == {n \in DOMAIN sides :
                 n < Len(sides) /\ sides[n + 1][1] = sides[n][2] + 2}
  IN IF left = {} THEN <<parseCommand(s, all)>>
     ELSE <<parseCommand(s, sides[Min(left)]), parseCommand(s, sides[Min(left) + 1])>>

-----------------------------------------------------------------------------
\* Lines the grammar of the two expressions has room for.
InGrammar(s) ==
  LET K == Kinds(s)
      stages == StagesOf(K)
  IN /\ WellFormed(s)
     /\ Len(stages) <= 2
     /\ \A n \in DOMAIN stages : Cardinality(RedirectionsIn(K, stages[n])) <= 2

\* Every side of the pipe runs the program typed there, with its arguments in
\* order and the files of its redirections, however the special characters are
\* spaced, and "&" at the end is seen on the side it ends.
StandaloneRunsWhatIsTyped ==
  InGrammar(line) =>
    LET sides == parsePipe(line)
    IN /\ [n \in DOMAIN sides |->
            [argv |-> sides[n].argv, in |-> sides[n].in, out |-> sides[n].out]]
            = Meaning(line)
       /\ \A n \in DOMAIN sides :
            sides[n].bg = (n = Len(sides) /\ InBackground(Kinds(line)))
=============================================================================
