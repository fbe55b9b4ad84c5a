----------------------------- MODULE MCContent -----------------------------
\* Keywords of two letters that overlap, all names of these letters, and texts
\* that fill one, two and three groups of base64, with and without padding; one
\* has the boundary in it.
EXTENDS Content

a == 97
o == 111     \* 6f: a digit that has a small form

MCWords == {<<a>>, <<o>>, <<o, a>>, <<a, o, a>>, <<a, o, o>>, <<o, o, a, o>>}
MCNames == UNION {[1..k -> {a, o}] : k \in 1..5}
MCAfters == {<< >>, <<60, a, 62>>}
MCTexts == {<<a>>, <<o, o, a>>, <<a, o, o, o>>, <<o, a, o, o, a, o, o>>, <<a>> \o Boundary \o <<o>>}
MCAttachments == {<<o, o>>, <<o, a, o, o>>}
==============================================================================
