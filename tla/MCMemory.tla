------------------------------ MODULE MCMemory ------------------------------
(* Instances of the memory for TLC: Chronicle, with the campaign run or    *)
(* with projects that come and go, which share nothing; MemTree; calls of  *)
(* TokenJuice.                                                             *)
EXTENDS Chronicle, MemTree, TokenJuice, TLC

CONSTANTS a, b, u, v

VARIABLE part

\* Two names share a file (whitespace becomes a dash).
Dashed == ("luida web" :> "luida-web.md") @@ ("luida-web" :> "luida-web.md") @@ ("core" :> "core.md")

\* Up to five blocks of 1, 4 or 9 characters: 1, 1 and 3 tokens.
Paragraphs == UNION {[1 .. n -> {1, 4, 9}] : n \in 0 .. 5}

\* Up to five lines: two that say something, one of them also with blanks after it, and
\* blank ones with and without.
Line(words, len, pad) == [words |-> words, len |-> len, pad |-> pad]
SomeLines == {Line(Blank, 0, 0), Line(Blank, 0, 2), Line("one", 8, 0), Line("one", 8, 3), Line("two", 12, 0)}
UpToFive == UNION {[1 .. n -> SomeLines] : n \in 0 .. 5}

NoTree == text = <<>> /\ budget = 0 /\ fanout = 1 /\ TreeInit
NoCall == context = <<>> /\ budget_chars = 0 /\ CallInit

MCInit ==
  \/ part = "campaign" /\ NoTree /\ NoCall /\ Init
  \/ part = "projects" /\ NoTree /\ NoCall /\ Init /\ sole
  \/ part = "tree" /\ NoCall /\ Init /\ sole /\ TreeInit
  \/ part = "prompt" /\ NoTree /\ Init /\ sole /\ CallInit

MCNext ==
  /\ UNCHANGED <<part, context, budget_chars>>
  /\ \/ part = "campaign" /\ Next /\ UNCHANGED <<memory, tree>>
     \/ part = "projects" /\ Next /\ UNCHANGED <<campaign, tree>>
     \/ part = "tree" /\ TreeNext /\ UNCHANGED vars

MCSpec == MCInit /\ [][MCNext]_<<part, vars, tree, context, budget_chars>> /\ TreeFairness
=============================================================================
