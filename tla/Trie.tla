--------------------------------- MODULE Trie ---------------------------------
(***************************************************************************)
(* The word filter of src/trie/lua-trie.c: a tree of code points to which  *)
(* words are added and from which they are deleted, and the machine that   *)
(* runs over a text. A tree is known by the code points that lead to it.   *)
(***************************************************************************)
EXTENDS Words

VARIABLES
  tree,    (* the trees: the root and what word_add made of it             *)
  tail     (* those with the mark of a whole word                          *)

trie == <<tree, tail>>

PrefixesOf(word) == {SubSeq(word, 1, n) : n \in 0 .. Len(word)}

TrieInit == tree = {<<>>} /\ tail = {}

WordAdd(word) == tree' = tree \cup PrefixesOf(word) /\ tail' = tail \cup {word}

(* Only the mark goes, the trees stay.                                     *)
WordDelete(word) == tree' = tree /\ tail' = tail \ {word}

(* trie:search: the words that go on after prefix.                         *)
WordsUnder(prefix) ==
  IF prefix \notin tree THEN {} ELSE {t \in tail : IsStrictPrefix(prefix, t)}

(* word_filter. at is the tree reached, start where the match began,       *)
(* rollback where the search goes on when it ends, slider the code points  *)
(* passed since start and length those of the longest word among them.     *)
Searching(out, position) ==
  [phase |-> "search", at |-> <<>>, start |-> 0, rollback |-> 0, length |-> 0,
   slider |-> 0, founded |-> FALSE, out |-> out, position |-> position]

Search(s, text) ==
  LET p == s.position + 1
      t == <<text[p]>>
  IN IF t \in tree
       THEN [phase |-> "match", at |-> t, start |-> p - 1, rollback |-> p,
             length |-> 1, slider |-> 1, founded |-> t \in tail,
             out |-> s.out, position |-> p]
       ELSE Searching(Append(s.out, text[p]), p)

Match(s, text) ==
  LET p == s.position + 1
      t == Append(s.at, text[p])
      masked == IF s.founded THEN Stars(s.length)
                ELSE SubSeq(text, s.start + 1, s.rollback)
      on == [s EXCEPT !.slider = @ + 1, !.position = p]
  IN CASE text[p] \in Skip -> on
       [] text[p] \notin Skip /\ t \in tail ->
            [on EXCEPT !.at = t, !.length = on.slider, !.rollback = p, !.founded = TRUE]
       [] text[p] \notin Skip /\ t \in tree \ tail -> [on EXCEPT !.at = t]
       [] OTHER -> Searching(s.out \o masked, s.rollback)

(* Mutant: the search goes on behind what was looked at.                   *)
StepForward(s, text) ==
  IF s.phase = "search" THEN Search(s, text)
  ELSE LET m == Match(s, text)
       IN IF m.phase = "search" THEN [m EXCEPT !.position = s.position + 1] ELSE m

Step(s, text) == IF s.phase = "search" THEN Search(s, text) ELSE Match(s, text)

(* Without a buffer the first word ends the search.                        *)
RECURSIVE Machine(_, _, _)
Machine(s, text, replace) ==
  IF s.position = Len(text) \/ (~replace /\ s.founded) THEN s
  ELSE Machine(Step(s, text), text, replace)

Filter(text) ==
  LET s == Machine(Searching(<<>>, 0), text, TRUE)
  IN CASE s.phase = "search" -> s.out
       [] s.phase = "match" /\ s.founded ->
            s.out \o Stars(s.length) \o SubSeq(text, s.rollback + 1, Len(text))
       [] OTHER -> s.out \o SubSeq(text, s.start + 1, Len(text))

Clean(text) == ~Machine(Searching(<<>>, 0), text, FALSE).founded
=============================================================================
