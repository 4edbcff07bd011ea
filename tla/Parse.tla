-------------------------------- MODULE Parse --------------------------------
(***************************************************************************)
(* The parser of yashd, yash-holden/parse.c: malloc_argv counts the words  *)
(* of each process of a line, and allocates, before parse_command splits   *)
(* the line and stores them; in each child file_redirection then takes the *)
(* redirections out.                                                       *)
(*                                                                         *)
(* strtok is given the address of a single char as its string of           *)
(* delimiters, so it also splits at the bytes that follow that char on the *)
(* stack, up to a zero.  As built by gcc these are the bytes of the        *)
(* pointer j: `stray' are those among them that can be typed.              *)
(***************************************************************************)
EXTENDS CommandLine

\* shell_loop drops the spaces at the end of a message.
Received(s) == SubSeq(s, 1, Max({i \in DOMAIN s : s[i] # " "} \cup {0}))

\* The byte before an empty command is the space of "CMD ".
LastChar(s) == IF s = <<>> THEN " " ELSE Last(s)

\* One character of malloc_argv's loop: words and curr are its word_count and
\* curr_word, argc holds the processes allocated so far.
CountWords(a, c) ==
  IF c = " " THEN [a EXCEPT !.words = IF a.curr # 0 THEN @ + 1 ELSE @, !.curr = 0]
             ELSE [a EXCEPT !.curr = @ + 1]

Allocate(a, curr) == [argc |-> Append(a.argc, a.words), words |-> 0, curr |-> curr]

\* A faulty variant: curr_word is not reset behind a "|".
CountKeepingCurr(a, c) == IF c = "|" THEN Allocate(a, 1) ELSE CountWords(a, c)

\* A faulty variant: a "|" before which no word was counted makes no process.
CountNonEmpty(a, c) ==
  IF c = "|" THEN IF a.words = 0 THEN a ELSE Allocate(a, 0) ELSE CountWords(a, c)

Count(a, c) == IF c = "|" THEN Allocate(a, 0) ELSE CountWords(a, c)

malloc_argv(cmd) ==
  LET after[i \in 0 .. Len(cmd)] ==
        IF i = 0 THEN [argc |-> <<>>, words |-> 0, curr |-> 0]
                 ELSE Count(after[i - 1], cmd[i])
      end == after[Len(cmd)]
  IN Append(end.argc, end.words + (IF LastChar(cmd) # " " THEN 1 ELSE 0))

\* strtok with these delimiters.
Strtok(cmd, delims) == Intervals({i \in DOMAIN cmd : cmd[i] \notin delims})

IsChar(cmd, word, C) == word[1] = word[2] /\ cmd[word[1]] \in C

\* A word goes to the current process, a "|" moves on to the next one.
Store(cmd, argvs, word) ==
  IF IsChar(cmd, word, {"|"}) THEN Append(argvs, <<>>)
  ELSE [argvs EXCEPT ![Len(argvs)] = Append(@, word)]

\* The argv of each process that is reached, and the argc of those allocated.
parse_command(cmd, strays) ==
  LET bg == LastChar(cmd) = "&"
      text == IF bg THEN Front(cmd) ELSE cmd
      words == Strtok(text, {" "} \cup strays)
      argvs[k \in 0 .. Len(words)] ==
        IF k = 0 THEN << <<>> >> ELSE Store(text, argvs[k - 1], words[k])
  IN [bg |-> bg, argc |-> malloc_argv(text), argv |-> argvs[Len(words)]]

\* The last redirection of a kind wins; argv ends before the first of any kind.
\* A mark that ends argv is followed by no file.
FileAfter(argv, R) ==
  IF R = {} \/ Max(R) = Len(argv) THEN NoFile ELSE argv[Max(R) + 1]

\* A faulty variant: argv ends before the last redirection.
CutAtLast(cmd, argv) ==
  LET marks(C) == {i \in DOMAIN argv : IsChar(cmd, argv[i], C)}
  IN [argv |-> SubSeq(argv, 1, IF marks({"<", ">"}) = {} THEN Len(argv)
                               ELSE Max(marks({"<", ">"})) - 1),
      in |-> FileAfter(argv, marks({"<"})), out |-> FileAfter(argv, marks({">"}))]

file_redirection(cmd, argv) ==
  LET marks(C) == {i \in DOMAIN argv : IsChar(cmd, argv[i], C)}
  IN [argv |-> SubSeq(argv, 1, Min(marks({"<", ">"}) \cup {Len(argv) + 1}) - 1),
      in |-> FileAfter(argv, marks({"<"})), out |-> FileAfter(argv, marks({">"}))]

\* What execvp reads behind the last argument.  calloc gives an odd number of
\* words from three on, and the word behind them is the size of the next block;
\* otherwise there is a zero word of padding.  file_redirection writes NULLs.
Terminated(argc, run) ==
  Len(run.argv) < argc \/ argc <= 2 \/ argc % 2 = 0

-----------------------------------------------------------------------------
\* The job made of the line.
job == parse_command(Received(line), stray)

\* No character of the line is one of the bytes strtok was not meant to have.
Clean == Positions(line, stray) = {}

\* A "|" stands alone between spaces, and each process has a word.
BarsApart(cmd) ==
  LET bars == Positions(cmd, {"|"})
      words == Strtok(IF LastChar(cmd) = "&" THEN Front(cmd) ELSE cmd, {" "})
      others == {k \in DOMAIN words : ~IsChar(cmd, words[k], {"|"})}
  IN /\ \A i \in bars : \E k \in DOMAIN words : words[k] = <<i, i>>
     /\ Len(Intervals(others)) = Cardinality(bars) + 1

\* The words stored for a process are as many as its argv was allocated for:
\* none is written behind it, and none of it stays empty for execvp to pass on
\* as an argument.  Two loops count the words, one by characters and one with
\* strtok, and have to agree.
WordsFitArgv ==
  Clean /\ BarsApart(Received(line)) =>
    LET j == job
    IN /\ Len(j.argv) = Len(j.argc)
       /\ \A n \in DOMAIN j.argc : Len(j.argv[n]) = j.argc[n]

\* Whatever is typed, parse_command does not walk off the list of processes
\* that malloc_argv made.
ListCoversBars == LET j == job IN Len(j.argv) <= Len(j.argc)

\* A stage of three or more words without redirection, and an odd number of them.
NoNullBehind(meant) ==
  /\ meant.in = NoFile /\ meant.out = NoFile
  /\ Len(meant.argv) >= 3 /\ Len(meant.argv) % 2 = 1

\* On a well formed line whose special characters stand apart, with none of the
\* bytes that strtok was not meant to have, each process has an argv that holds
\* the program that was typed and its arguments in order, and the files of its
\* redirections; and the job is in the background exactly when the line ends in
\* "&".  It is not said that execvp runs them: a NULL ends what execvp reads
\* except in the stages of NoNullBehind, `echo a b' for one, where execvp fails or
\* passes on what lies behind argv.
ArgvIsWhatIsTyped ==
  Clean /\ WellFormed(line) /\ Spaced(line) =>
    LET j == job
        meant == Meaning(line)
    IN /\ [n \in DOMAIN j.argv |-> file_redirection(line, j.argv[n])] = meant
       /\ \A n \in DOMAIN j.argv :
            Terminated(j.argc[n], file_redirection(line, j.argv[n]))
              <=> ~NoNullBehind(meant[n])
       /\ j.bg = InBackground(Kinds(line))

\* "Split cmd by spaces" (parse.c:89): what execvp is given are the words
\* between the spaces.
SplitBySpaces ==
  WellFormed(line) /\ Spaced(line) =>
    LET j == job
        meant == Meaning(line)
    IN \A n \in DOMAIN meant :
         LET run == file_redirection(line, j.argv[n])
         IN run.argv = meant[n].argv /\ Terminated(j.argc[n], run)
=============================================================================
