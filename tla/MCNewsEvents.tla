----------------------------- MODULE MCNewsEvents -----------------------------
(* Model-checking instances of NewsEvents. *)
EXTENDS NewsEvents, TLC

CONSTANTS word1, word2, word3, word4, url1, url2

Item(title, url, time) == [title |-> title, url |-> url, time |-> time, dated |-> TRUE]
Undated(title, url) == [title |-> title, url |-> url, time |-> 0, dated |-> FALSE]

\* Two words are like three, three like four, two not like four.
Two == {word1, word2}
Three == Two \cup {word3}
Four == Three \cup {word4}

MCItems == 1..4
MCSourceOf == <<2, 1, 1, 2>>

\* Chains of titles, one address under two titles, a title on two days, dates of
\* the past and of the future, and none.
MCFeed == <<
    {Item(Two, url1, 0)},
    {Item(Three, url2, 1), Item(Two, url2, 3)},
    {Item(Four, url2, 1), Undated(Two, url2)},
    {Item(Four, url1, 4)} >>

Symmetry == Permutations(Processes)
===============================================================================
