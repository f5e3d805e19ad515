------------------------------ MODULE FilterCore ------------------------------
(***************************************************************************)
(* The word filter of src/filter/lua-filter.c: the words by their last     *)
(* code point, with their length and their first one, and a set of whole   *)
(* words that is asked for words of more than two. The lists of slots are  *)
(* sorted by a comparison that never tells qsort what comes first.         *)
(***************************************************************************)
EXTENDS Words

CONSTANTS
  LengthBits,   (* the width of length_info.length: 8 in the code          *)
  SmallSort     (* the longest list qsort sorts with length_sort: 8, where *)
                (* Visual C's goes from selecting to partitioning          *)

VARIABLES
  slots,   (* map->hash: the list of each last code point                  *)
  whole    (* map->set                                                     *)

core == <<slots, whole>>

Lasts == {Last(w) : w \in Word}

CoreInit == slots = [c \in Lasts |-> <<>>] /\ whole = {}

Kept(n) == n % 2 ^ LengthBits
Slot(word) == [length |-> Kept(Len(word)), first |-> Head(word)]

(* Mutant: the list is not sorted.                                         *)
ListAddLast(list, slot) == {Append(list, slot)}

(* What qsort makes of the list with the slot: length_sort gives 1 for the *)
(* shorter before the longer and 0 otherwise, so "equal" may mean longer.  *)
(* A sort that only asks for 1 puts the longest first, equal ones in any   *)
(* order; one that skips what is equal to its pivot may leave any order.   *)
ListAdd(list, slot) ==
  LET all == Append(list, slot)
      Orders == {[k \in DOMAIN all |-> all[f[k]]] : f \in Permutations(DOMAIN all)}
  IN {q \in Orders : Len(q) <= SmallSort
                       => \A k \in 1 .. Len(q) - 1 : q[k].length >= q[k + 1].length}

(* ladd has moved its pointer to the end of the word before it copies it   *)
(* to the set: what it copies is empty.                                    *)
CoreAdd(word) ==
  /\ whole' = whole \cup {<<>>}
  /\ \E list \in ListAdd(slots[Last(word)], Slot(word)) :
       slots' = [slots EXCEPT ![Last(word)] = list]

(* ldelete: false, and nothing changes, if the word is not in the set.     *)
CoreDelete(word) == whole' = whole \ {word} /\ UNCHANGED slots

(* word_filter: the length of the first slot of text[index] whose word     *)
(* ends there, or -1. A slot of length 0 looks at what comes next, behind  *)
(* the end of the text at whatever is there.                               *)
Hit(slot, text, index, beyond) ==
  LET start == index - slot.length + 1
  IN /\ start >= 1 /\ Append(text, beyond)[start] = slot.first
     /\ slot.length > 2 => SubSeq(text, start, index) \in whole
LengthAt(text, index, beyond) ==
  LET list == IF text[index] \in Lasts THEN slots[text[index]] ELSE <<>>
      hits == {k \in DOMAIN list : Hit(list[k], text, index, beyond)}
  IN IF hits = {} THEN -1 ELSE list[Min(hits)].length

(* What precedes a hit is copied with it, so a later and longer word does  *)
(* not mask what was copied before.                                        *)
CoreMasked(text, beyond) ==
  LET Out[i \in 0 .. Len(text)] ==
        IF i = 0 THEN [out |-> <<>>, index |-> 0] ELSE
        LET before == Out[i - 1]
            n == LengthAt(text, i, beyond)
            Char(j) == IF j > i - n THEN "*" ELSE text[j]
        IN IF n = -1 THEN before
           ELSE [out |-> before.out \o [k \in 1 .. i - before.index |-> Char(before.index + k)],
                 index |-> i]
      end == Out[Len(text)]
  IN end.out \o SubSeq(text, end.index + 1, Len(text))

(* The boolean filter gives, with and without a result.                    *)
CoreClean(text, beyond) == \A i \in DOMAIN text : LengthAt(text, i, beyond) = -1
=============================================================================
