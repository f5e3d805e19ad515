-------------------------------- MODULE Words --------------------------------
(***************************************************************************)
(* What the two word filters are held against: where words lie in a text   *)
(* and what a filter that masks them with stars should give. A text and a  *)
(* word are sequences of code points.                                      *)
(***************************************************************************)
EXTENDS Integers, FiniteSets, SequencesExt

CONSTANTS
  Word,   (* the words a script may add, none of them empty                *)
  Text,   (* the texts it may filter                                       *)
  Skip    (* the code points of one byte that are space, control or punct  *)

Stars(n) == [i \in 1 .. n |-> "*"]
Solid(s) == SelectSeq(s, LAMBDA c : c \notin Skip)

(* w lies at text[i .. j] if its code points are there in order, with      *)
(* nothing between them but what is skipped. What is skipped in a text     *)
(* matches no code point of a word, but for the first.                     *)
Lies(text, i, j, w) ==
  /\ text[i] = w[1] /\ (j > i => text[j] \notin Skip)
  /\ Solid(SubSeq(text, i + 1, j)) = Tail(w)

(* The ends of the words of W that begin at i.                             *)
Ends(text, i, W) ==
  {j \in i .. Len(text) : \E w \in W : Lies(text, i, j, w)}

(* text ends inside what could still become a word of W.                   *)
Open(text, i, W) ==
  \E w \in W : /\ text[i] = w[1]
               /\ IsPrefix(Solid(SubSeq(text, i + 1, Len(text))), Tail(w))

(* From the left, the longest word of W is masked wherever one begins;     *)
(* from where a word of Known could still be going on at the end of the    *)
(* text, only the one that begins there.                                   *)
RECURSIVE Masked(_, _, _, _)
Masked(text, i, W, Known) ==
  IF i > Len(text) THEN <<>> ELSE
  LET ends == Ends(text, i, W)
      next == IF ends = {} THEN i + 1 ELSE Max(ends) + 1
      here == IF ends = {} THEN <<text[i]>> ELSE Stars(next - i)
  IN here \o IF Open(text, i, Known) THEN SubSeq(text, next, Len(text))
             ELSE Masked(text, next, W, Known)

(* The positions that some word of W covers, nothing skipped.              *)
Covered(text, W) ==
  UNION {i .. j : <<i, j>> \in {<<i, j>> \in (1 .. Len(text)) \X (1 .. Len(text)) :
                                 i <= j /\ SubSeq(text, i, j) \in W}}
=============================================================================
