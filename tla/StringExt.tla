----------------------------- MODULE StringExt -----------------------------
(* Texts are sequences of tokens: a separator, a blank or a word is one.     *)
EXTENDS Integers, Sequences, SequencesExt

\* The elements of a sequence that are in a set, in their order.
Kept(seq, set) ==
  LET Keep[k \in 0..Len(seq)] ==
        IF k = 0 THEN <<>>
        ELSE IF seq[k] \in set THEN Append(Keep[k - 1], seq[k]) ELSE Keep[k - 1]
  IN Keep[Len(seq)]

\* Split with one separator: the fields between the separators, the empty ones too, so
\* that the empty text has one field.
Split(text, separator) ==
  LET Fields[k \in 0..Len(text)] ==
        IF k = 0 THEN <<<<>>>>
        ELSE LET before == Fields[k - 1]
             IN IF text[k] = separator THEN Append(before, <<>>)
                ELSE [before EXCEPT ![Len(before)] = Append(@, text[k])]
  IN Fields[Len(text)]

\* Split with two: the groups between the first separators, each of them the fields
\* between the second ones.
SplitTwo(text, sep_first, sep_second) ==
  LET groups == Split(text, sep_first)
  IN [g \in DOMAIN groups |-> Split(groups[g], sep_second)]

\* Strip: without the blanks at both ends.
Blank == " "
Strip(text) ==
  LET words == {i \in DOMAIN text : text[i] # Blank}
  IN IF words = {} THEN <<>>
     ELSE LET first == CHOOSE i \in words : \A j \in words : i <= j
              last  == CHOOSE i \in words : \A j \in words : j <= i
          IN SubSeq(text, first, last)
=============================================================================
