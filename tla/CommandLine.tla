----------------------------- MODULE CommandLine -----------------------------
(***************************************************************************)
(* A command line as it is typed, and what a user of either shell means by *)
(* it: stages separated by "|", each a program with its arguments and      *)
(* redirections, and "&" at the end for the background.  Parse (yashd) and *)
(* Parser (the standalone shell) are compared with this reading.           *)
(*                                                                         *)
(* A word is the interval <<first, last>> of its positions in the line, so *)
(* that two words are never confused however alike they are.               *)
(***************************************************************************)
EXTENDS Integers, Sequences, FiniteSets, SequencesExt, FiniteSetsExt

CONSTANTS
  WordChars,   \* the characters that words are made of
  MaxLine,     \* bound: length of any line
  MaxTidy,     \* bound: length of a tidy line
  Strays       \* the sets of characters `stray' may be

Special == {"|", "&", "<", ">"}

Chars == WordChars \cup Special \cup {" "}

ASSUME CommandLineAssumption ==
  /\ WordChars \cap (Special \cup {" "}) = {}
  /\ MaxLine \in Nat
  /\ MaxTidy \in Nat
  /\ Strays \subseteq SUBSET (Chars \ {" "})

VARIABLES
  line,   \* what has been typed so far
  stray   \* the characters that strtok also splits at in yashd, see Parse

Init == line = <<>> /\ stray \in Strays

\* Single characters with a space behind each, so that longer lines can be
\* had for fewer.
Tidy(s) == \A i \in DOMAIN s : (s[i] = " ") = (i % 2 = 0)

Type(c) ==
  /\ Len(line) < MaxLine \/ (Len(line) < MaxTidy /\ Tidy(line \o <<c>>))
  /\ line' = Append(line, c)
  /\ UNCHANGED stray

Next == \E c \in Chars : Type(c)

Spec == Init /\ [][Next]_<<line, stray>>

-----------------------------------------------------------------------------
\* The elements of a finite set of numbers in increasing order.
InOrder(S) ==
  LET rank == [i \in S |-> Cardinality({j \in S : j <= i})]
  IN [k \in 1 .. Cardinality(S) |-> CHOOSE i \in S : rank[i] = k]

\* The maximal intervals of a finite set of numbers, in order.
Intervals(S) ==
  LET firsts == InOrder({i \in S : i - 1 \notin S})
      last(i) == Min({j \in S : j >= i /\ j + 1 \notin S})
  IN [k \in DOMAIN firsts |-> <<firsts[k], last(firsts[k])>>]

Positions(s, C) == {i \in DOMAIN s : s[i] \in C}

NoFile == <<0, 0>>

-----------------------------------------------------------------------------
(* The meaning of a line.                                                  *)

\* Words, and special characters one by one.
Tokens(s) ==
  LET W == Positions(s, WordChars)
      firsts == InOrder({i \in DOMAIN s : s[i] \in Special \/ (i \in W /\ i - 1 \notin W)})
  IN [k \in DOMAIN firsts |->
        <<firsts[k], Max({firsts[k]} \cup
           {j \in W : firsts[k] .. j \subseteq W})>>]

\* A token's kind is its character if it is special, "w" for a word.
Kinds(s) ==
  LET ts == Tokens(s)
  IN [k \in DOMAIN ts |-> IF s[ts[k][1]] \in Special THEN s[ts[k][1]] ELSE "w"]

InBackground(K) == K # <<>> /\ Last(K) = "&"

\* The numbers of the tokens of each stage.
StagesOf(K) ==
  Intervals({k \in DOMAIN K : K[k] # "|" /\ (K[k] = "&" => k < Len(K))})

RedirectionsIn(K, stage) == {k \in stage[1] .. stage[2] : K[k] \in {"<", ">"}}

\* program arg1 arg2 < infile.txt > outfile.txt
StageWellFormed(K, stage) ==
  LET R == RedirectionsIn(K, stage)
  IN /\ R = {k \in Min(R \cup {stage[2]}) .. stage[2] - 1 : (stage[2] - k) % 2 = 1}
          \/ R = {}
     /\ \A k \in (stage[1] .. stage[2]) \ R : K[k] = "w"
     /\ stage[1] \notin R

WellFormed(s) ==
  LET K == Kinds(s)
      stages == StagesOf(K)
  IN /\ Len(stages) = Cardinality(Positions(s, {"|"})) + 1
     /\ \A n \in DOMAIN stages : StageWellFormed(K, stages[n])

\* Special characters stand alone between spaces; "&" may follow a word.
Spaced(s) ==
  \A i \in Positions(s, Special) :
    /\ s[i] # "&" => i > 1 /\ s[i - 1] = " "
    /\ i < Len(s) => s[i + 1] = " "

\* What each stage runs, and the files its last redirections name.
Meaning(s) ==
  LET ts == Tokens(s)
      K == Kinds(s)
      stages == StagesOf(K)
      target(st, kind) ==
        LET R == {k \in RedirectionsIn(K, st) : K[k] = kind}
        IN IF R = {} THEN NoFile ELSE ts[Max(R) + 1]
  IN [n \in DOMAIN stages |->
       LET st == stages[n]
       IN [argv |-> SubSeq(ts, st[1], Min(RedirectionsIn(K, st) \cup {st[2] + 1}) - 1),
           in |-> target(st, "<"), out |-> target(st, ">")]]
=============================================================================
