------------------------------ MODULE WordFilters ------------------------------
(***************************************************************************)
(* A script that adds words to both word filters, deletes them again and   *)
(* filters texts in between.                                               *)
(***************************************************************************)
EXTENDS Trie, FilterCore

CONSTANT MaxAdd   (* the calls of add (a bound)                            *)

VARIABLES
  words,   (* history: the words added and not deleted since               *)
  known,   (* history: the words ever added                                *)
  adds     (* the calls of add                                             *)

vars == <<trie, core, words, known, adds>>

Init ==
  /\ TrieInit /\ CoreInit
  /\ words = {} /\ known = {} /\ adds = 0

Add(word) ==
  /\ adds < MaxAdd /\ adds' = adds + 1
  /\ WordAdd(word) /\ CoreAdd(word)
  /\ words' = words \cup {word} /\ known' = known \cup {word}

Delete(word) ==
  /\ WordDelete(word) /\ CoreDelete(word)
  /\ words' = words \ {word} /\ UNCHANGED <<known, adds>>

Next == \E word \in Word : Add(word) \/ Delete(word)

Spec == Init /\ [][Next]_vars

(* Whatever was added and deleted before, trie:filter masks, from the left *)
(* and with what may be skipped inside, the longest of the present words   *)
(* wherever one begins, and nothing else, in a text that does not end in   *)
(* what could become a word; in one that does, it misses the words that    *)
(* begin later in that end, also when the word that could come was deleted *)
(* long ago. Its answer without replacing agrees, and trie:search gives    *)
(* the present words that go on after a prefix.                            *)
TrieRight ==
  /\ \A text \in Text :
       /\ Filter(text) = Masked(text, 1, words, known)
       /\ Clean(text) = (Filter(text) = text)
  /\ \A w \in known : \A p \in PrefixesOf(w) :
       WordsUnder(p) = {v \in words : IsStrictPrefix(p, v)}

(* filter.core knows a word by the lowest bits of its length: of those     *)
(* that were ever added, one kept as 2 stands for its first and last code  *)
(* points, one kept as 1 for its only one, one kept as 0 for its last with *)
(* its first behind it, and a longer one for nothing; delete makes it      *)
(* forget none. A text is unclean if and only if one of these is in it,    *)
(* whatever qsort made of the lists, and nothing else is ever masked. If   *)
(* no word is kept as 0 and no list has outgrown what qsort sorts, then    *)
(* every occurrence is masked, overlapping ones too.                       *)
CoreRight ==
  LET KeptAs(n) == {w \in known : Kept(Len(w)) = n}
      short == {<<w[1], Last(w)>> : w \in KeptAs(2)}
               \cup {<<w[1]>> : w \in {v \in KeptAs(1) : v[1] = Last(v)}}
      empty == {<<Last(w), w[1]>> : w \in KeptAs(0)}
      sorted == \A c \in Lasts : Len(slots[c]) <= SmallSort
  IN \A text \in Text :
       LET covered == Covered(text, short)
       IN \A beyond \in {"?"} \cup {w[1] : w \in KeptAs(0)} :
            LET masked == CoreMasked(text, beyond)
            IN /\ DOMAIN masked = DOMAIN text
               /\ \A i \in DOMAIN text :
                    \/ masked[i] = text[i]
                    \/ masked[i] = "*" /\ i \in covered
               /\ sorted /\ empty = {} => \A i \in covered : masked[i] = "*"
               /\ CoreClean(text, beyond) =
                    (covered = {} /\ Covered(Append(text, beyond), empty) = {})
=============================================================================
